--------------------------- MODULE DialogModality ---------------------------
(***************************************************************************)
(* Scoped and page-wide modality of dialogs (dialog/dialog-scope.ts and    *)
(* the HellDialogOverlay directive of dialog/dialog.ts): what open dialogs *)
(* do to the attributes of one document.                                   *)
(*                                                                         *)
(* A dialog either blocks the region of a Dialog Scope root (the root is   *)
(* inert, the rest of the page stays usable) or the whole page.  The       *)
(* module keeps reference counts per root and per document and, on every   *)
(* transition, re-derives two document-wide attributes: the focus-trap     *)
(* escape marker on the body and aria-hidden on the body's children.       *)
(*                                                                         *)
(* NgpDialogManager of ng-primitives is the environment: it hides the page *)
(* when its first dialog opens and restores it when its last one closes,   *)
(* and it destroys an overlay only after the exit animation.               *)
(***************************************************************************)
EXTENDS Integers, FiniteSets

CONSTANTS
  Dialog,    \* dialogs that may be opened, each once
  Root,      \* Dialog Scope roots of the page
  Element    \* children of the body that are no dialogs

ASSUME DialogAssumption == IsFiniteSet(Dialog)

Absent == "absent"                   \* getAttribute answered null
AriaValue == {Absent, "true", "false"}
NoRoot == "no root"
Nobody == "not held"
Page == "page"

Role == Root \cup {Page, Nobody}
ASSUME RoleAssumption == {NoRoot, Page, Nobody} \cap Root = {}

VARIABLES
  stage,      \* per dialog: closed, open, leaving (exit animation), gone
  scopeRoot,  \* per dialog: HELL_DIALOG_SCOPE_ROOT its trigger captured
  role,       \* per dialog: what its overlay blocks, a root or the page
  managed,    \* external: NgpDialogManager.openDialogs
  managerMap, \* external: the manager's previous values of aria-hidden
  overlays,   \* document state: overlays rendered
  baseline,   \* document state: ariaHiddenBaseline, with its elements
  modality,   \* document state and attributes that syncDocumentModality writes
  engaged,    \* per root: the reference count
  saved,      \* per root: the inert attribute before the first engagement
  inert,      \* per root: the inert attribute
  settling,   \* a microtask of syncDocumentModality is queued
  connected,  \* elements in the body
  owned,      \* history: the attributes as the page itself set them
  flipped,    \* history: `scoped` of an open dialog has changed
  strayed     \* history: elements that left the body under a rendered dialog

vars == <<stage, scopeRoot, role, managed, managerMap, overlays, baseline,
          modality, engaged, saved, inert, settling, connected, owned,
          flipped, strayed>>

\* The attributes of the page that dialogs write.
Attributes == [aria : [Element -> AriaValue], trap : {Absent, "own"},
               inert : [Root -> {Absent, "set"}]]

Modality == [scoped : Nat, pageModal : Nat, cleared : SUBSET Element,
             marked : BOOLEAN, escape : {Absent, "own"},
             trap : {Absent, "own", "released"}, aria : [Element -> AriaValue]]

\* Type invariant, with the bounds of the counts.
TypeOK ==
  /\ stage \in [Dialog -> {"closed", "open", "leaving", "gone"}]
  /\ scopeRoot \in [Dialog -> Root \cup {NoRoot}]
  /\ role \in [Dialog -> Role]
  /\ managed \subseteq Dialog
  /\ DOMAIN managerMap \subseteq Element
  /\ overlays \in 0 .. Cardinality(Dialog)
  /\ DOMAIN baseline \subseteq Element
  /\ modality \in Modality
  /\ modality.scoped + modality.pageModal = overlays
  /\ modality.cleared \subseteq DOMAIN baseline
  /\ engaged \in [Root -> 0 .. modality.scoped]
  /\ saved \in [Root -> {Absent, "set"}]
  /\ inert \in [Root -> {Absent, "set"}]
  /\ settling \in BOOLEAN
  /\ connected \subseteq Element
  /\ owned \in Attributes
  /\ flipped \in BOOLEAN
  /\ strayed \subseteq Element

Empty == [e \in {} |-> Absent]

Init ==
  /\ stage = [d \in Dialog |-> "closed"]
  /\ scopeRoot = [d \in Dialog |-> NoRoot]
  /\ role = [d \in Dialog |-> Nobody]
  /\ managed = {}
  /\ managerMap = Empty
  /\ overlays = 0
  /\ baseline = Empty
  /\ engaged = [r \in Root |-> 0]
  /\ saved = [r \in Root |-> Absent]
  /\ settling = FALSE
  /\ connected \in SUBSET Element
  /\ owned \in Attributes
  /\ flipped = FALSE
  /\ strayed = {}
  /\ inert = owned.inert
  /\ modality = [scoped |-> 0, pageModal |-> 0, cleared |-> {},
                 marked |-> FALSE, escape |-> Absent,
                 trap |-> owned.trap, aria |-> owned.aria]

-----------------------------------------------------------------------------
(* dialog-scope.ts: the document.  m is the document's modality state.      *)

\* ariaHiddenPhase: what the open set says about the page.
Phase(m) ==
  IF m.pageModal > 0 THEN "blocked" ELSE IF m.scoped > 0 THEN "scoped" ELSE "idle"

\* The elements the scoped phase takes out of hiding.
ToExpose(m, base, present) ==
  {e \in DOMAIN base \cap present : base[e] # "true" /\ m.aria[e] = "true"}

\* Fault: without the idle branch, which the code calls redundant.
ApplyAria_NoIdle(m, base, present) ==
  CASE Phase(m) = "scoped" ->
         LET exposed == ToExpose(m, base, present)
         IN  [m EXCEPT !.cleared = @ \cup exposed,
                       !.aria = [e \in Element |->
                                   IF e \in exposed THEN base[e] ELSE @[e]]]
    [] Phase(m) = "blocked" ->
         [m EXCEPT !.aria = [e \in Element |->
                               IF e \in m.cleared \cap present THEN "true" ELSE @[e]]]
    [] OTHER -> [m EXCEPT !.cleared = {}]

\* Fault: a page-blocking dialog does not hide the page again.
ApplyAria_NoBlocked(m, base, present) ==
  IF Phase(m) = "scoped"
    THEN LET exposed == ToExpose(m, base, present)
         IN  [m EXCEPT !.cleared = @ \cup exposed,
                       !.aria = [e \in Element |->
                                   IF e \in exposed THEN base[e] ELSE @[e]]]
    ELSE m

\* applyDialogAriaHidden.
ApplyAria(m, base, present) ==
  CASE Phase(m) = "scoped" ->
         LET exposed == ToExpose(m, base, present)
         IN  [m EXCEPT !.cleared = @ \cup exposed,
                       !.aria = [e \in Element |->
                                   IF e \in exposed THEN base[e] ELSE @[e]]]
    [] Phase(m) = "blocked" ->
         [m EXCEPT !.aria = [e \in Element |->
                               IF e \in m.cleared \cap present THEN "true" ELSE @[e]]]
    [] OTHER ->
         [m EXCEPT !.cleared = {},
                   !.aria = [e \in Element |->
                               IF e \in m.cleared \cap present
                                 THEN IF e \in DOMAIN base THEN base[e] ELSE Absent
                                 ELSE @[e]]]

\* The marker half of syncDocumentModality.
ApplyMarker(m) ==
  LET scopedOnly == Phase(m) = "scoped"
  IN  IF scopedOnly = m.marked THEN m
      ELSE [m EXCEPT !.marked = scopedOnly,
                     !.escape = IF scopedOnly THEN m.trap ELSE @,
                     !.trap = IF scopedOnly THEN "released" ELSE m.escape]

\* syncDocumentModality, without its microtask.
Sync(m, base, present) == ApplyAria(ApplyMarker(m), base, present)

\* The counters, each followed by a sync: HellDialogScopedModality.engage and
\* release, hellRetainDialogPageModality and hellReleaseDialogPageModality.
RetainScoped(m, base) == Sync([m EXCEPT !.scoped = @ + 1], base, connected)
ReleaseScoped(m, base) == Sync([m EXCEPT !.scoped = @ - 1], base, connected)
RetainPage(m, base) == Sync([m EXCEPT !.pageModal = @ + 1], base, connected)
ReleasePage(m, base) == Sync([m EXCEPT !.pageModal = @ - 1], base, connected)

-----------------------------------------------------------------------------
(* dialog-scope.ts: the scope roots. *)

\* engageScopeModality: the first dialog saves and blocks, the others count.
EngageRoot(r) ==
  /\ engaged' = [engaged EXCEPT ![r] = @ + 1]
  /\ IF engaged[r] = 0
       THEN /\ saved' = [saved EXCEPT ![r] = inert[r]]
            /\ inert' = [inert EXCEPT ![r] = "set"]
       ELSE UNCHANGED <<saved, inert>>

\* Fault: every release restores, not only the last one.
ReleaseRoot_RestoresFirst(r) ==
  /\ engaged' = [engaged EXCEPT ![r] = @ - 1]
  /\ inert' = [inert EXCEPT ![r] = saved[r]]
  /\ UNCHANGED saved

\* releaseScopeModality: the last one restores.
ReleaseRoot(r) ==
  /\ engaged' = [engaged EXCEPT ![r] = @ - 1]
  /\ inert' = [inert EXCEPT ![r] = IF engaged[r] = 1 THEN saved[r] ELSE @]
  /\ UNCHANGED saved

RootsUnchanged == UNCHANGED <<engaged, saved, inert>>

-----------------------------------------------------------------------------
(* External: the manager's assistive-technology pass. *)

AriaMap(m, present) == [e \in present |-> m.aria[e]]

HidePage(m, present) ==
  [m EXCEPT !.aria = [e \in Element |-> IF e \in present THEN "true" ELSE @[e]]]

RestorePage(m, map) ==
  [m EXCEPT !.aria = [e \in Element |-> IF e \in DOMAIN map THEN map[e] ELSE @[e]]]

-----------------------------------------------------------------------------
(* The overlay directive and the manager around it. *)

\* A trigger opens d.  The portal's attach constructs the overlay, which
\* captures the baseline if it is the first, and runs its effect; then the
\* manager hides the page if it held no dialog.
Open(d, root, scoped) ==
  LET base  == IF overlays = 0 THEN AriaMap(modality, connected) ELSE baseline
      owns  == scoped /\ root # NoRoot
      synced == IF owns THEN RetainScoped(modality, base)
                        ELSE RetainPage(modality, base)
  IN  /\ stage[d] = "closed"
      /\ stage' = [stage EXCEPT ![d] = "open"]
      /\ scopeRoot' = [scopeRoot EXCEPT ![d] = root]
      /\ role' = [role EXCEPT ![d] = IF owns THEN root ELSE Page]
      /\ overlays' = overlays + 1
      /\ baseline' = base
      /\ IF owns THEN EngageRoot(root) ELSE RootsUnchanged
      /\ managed' = managed \cup {d}
      /\ IF managed = {}
           THEN /\ managerMap' = AriaMap(synced, connected)
                /\ modality' = HidePage(synced, connected)
           ELSE /\ modality' = synced
                /\ UNCHANGED managerMap
      /\ settling' = TRUE
      /\ UNCHANGED <<connected, owned, flipped, strayed>>

\* The dialog closes: the manager lets go of it, and of the page if it was the
\* last.  Its overlay stays rendered for the exit animation.
Close(d) ==
  /\ stage[d] = "open"
  /\ stage' = [stage EXCEPT ![d] = "leaving"]
  /\ managed' = managed \ {d}
  /\ IF managed = {d}
       THEN /\ modality' = RestorePage(modality, managerMap)
            /\ managerMap' = Empty
       ELSE UNCHANGED <<modality, managerMap>>
  /\ UNCHANGED <<scopeRoot, role, overlays, baseline, engaged, saved, inert,
                 settling, connected, owned, flipped, strayed>>

\* The overlay is destroyed: its onDestroy releases whatever it held.
DestroyOverlay(d) ==
  /\ stage[d] = "leaving"
  /\ stage' = [stage EXCEPT ![d] = "gone"]
  /\ role' = [role EXCEPT ![d] = Nobody]
  /\ IF role[d] = Page
       THEN /\ modality' = ReleasePage(modality, baseline)
            /\ RootsUnchanged
       ELSE /\ modality' = ReleaseScoped(modality, baseline)
            /\ ReleaseRoot(role[d])
  /\ overlays' = overlays - 1
  /\ baseline' = IF overlays = 1 THEN Empty ELSE baseline
  /\ settling' = TRUE
  /\ UNCHANGED <<scopeRoot, managed, managerMap, connected, owned, flipped,
                 strayed>>

\* The `scoped` input of an open dialog changes and its effect runs again:
\* connectScope, then setPageModal(false) ...
BecomeScoped(d) ==
  /\ stage[d] = "open"
  /\ role[d] = Page
  /\ scopeRoot[d] # NoRoot
  /\ role' = [role EXCEPT ![d] = scopeRoot[d]]
  /\ EngageRoot(scopeRoot[d])
  /\ modality' = ReleasePage(RetainScoped(modality, baseline), baseline)
  /\ settling' = TRUE
  /\ UNCHANGED <<stage, scopeRoot, managed, managerMap, overlays, baseline,
                 connected, owned, strayed>>
  /\ flipped' = TRUE

\* ... or disconnectScope, then setPageModal(true).
BecomePageModal(d) ==
  /\ stage[d] = "open"
  /\ role[d] \in Root
  /\ role' = [role EXCEPT ![d] = Page]
  /\ ReleaseRoot(role[d])
  /\ modality' = RetainPage(ReleaseScoped(modality, baseline), baseline)
  /\ settling' = TRUE
  /\ UNCHANGED <<stage, scopeRoot, managed, managerMap, overlays, baseline,
                 connected, owned, strayed>>
  /\ flipped' = TRUE

\* The microtask of syncDocumentModality: it applies the phase of this moment.
Settle ==
  /\ settling
  /\ settling' = FALSE
  /\ modality' = ApplyAria(modality, baseline, connected)
  /\ UNCHANGED <<stage, scopeRoot, role, managed, managerMap, overlays,
                 baseline, engaged, saved, inert, connected, owned, flipped,
                 strayed>>

MoveElement(present) ==
  /\ connected' = present
  /\ UNCHANGED <<stage, scopeRoot, role, managed, managerMap, overlays,
                 baseline, modality, engaged, saved, inert, settling,
                 owned, flipped>>

\* The page adds a child to the body, or puts one back, while dialogs may be
\* open ...
Attach(e) ==
  /\ e \notin connected
  /\ MoveElement(connected \cup {e})
  /\ UNCHANGED strayed

\* ... or takes one out: no pass reaches it until it is back.
Detach(e) ==
  /\ e \in connected
  /\ MoveElement(connected \ {e})
  /\ strayed' = IF overlays > 0 THEN strayed \cup {e} ELSE strayed

Next ==
  \/ \E d \in Dialog :
       \/ \E root \in Root \cup {NoRoot}, scoped \in BOOLEAN : Open(d, root, scoped)
       \/ Close(d)
       \/ DestroyOverlay(d)
       \/ BecomeScoped(d)
       \/ BecomePageModal(d)
  \/ Settle
  \/ \E e \in Element : Attach(e) \/ Detach(e)

Spec == Init /\ [][Next]_vars

-----------------------------------------------------------------------------
(* What the open set is, and what the document owes it. *)

Holding(what) == {d \in Dialog : role[d] = what}
ScopedDialogs == {d \in Dialog : role[d] \in Root}
PageBlockers == Holding(Page)

\* "All of it is reference counted per scope root and per document": the
\* counts are the numbers of overlays that hold the root, a scope, the page.
CountsMatchOverlays ==
  /\ \A r \in Root : engaged[r] = Cardinality(Holding(r))
  /\ modality.scoped = Cardinality(ScopedDialogs)
  /\ modality.pageModal = Cardinality(PageBlockers)
  /\ overlays = Cardinality(ScopedDialogs) + Cardinality(PageBlockers)

\* A scope root is inert exactly while some overlay holds it, and its own inert
\* attribute is back at all other times: "the last release restores the exact
\* values that were there before".
RootsFollowOpenSet ==
  \A r \in Root : inert[r] = IF Holding(r) # {} THEN "set" ELSE owned.inert[r]

\* The focus trap is released exactly while every overlay is scoped, and the
\* body's own attribute is back at all other times.
TrapFollowsOpenSet ==
  modality.trap = IF ScopedDialogs # {} /\ PageBlockers = {}
                    THEN "released" ELSE owned.trap

(* aria-hidden.  A dialog that changes `scoped` moves the counts twice, so the *)
(* code keeps these three promises only while no open dialog has done so; and  *)
(* an element that is out of the body during a pass is passed over, so they    *)
(* are made to the elements that stayed in it while dialogs were rendered.     *)

\* "nothing open => the document reads as it did before".
NothingOpenNothingChanged ==
  overlays = 0 /\ ~flipped =>
    \A e \in Element \ strayed : modality.aria[e] = owned.aria[e]

PageIsHidden ==
  ~settling /\ (\E d \in PageBlockers : stage[d] = "open") =>
    \A e \in DOMAIN baseline \ strayed : modality.aria[e] = "true"

\* "any page-blocking dialog open => the page is hidden from assistive tech;
\* scoped dialogs only => the page is exposed", every element that was there
\* before the dialogs, and stayed, reading as the page set it.
PageFollowsOpenDialogs ==
  /\ ~flipped => PageIsHidden
  /\ ~flipped /\ ~settling /\ PageBlockers = {}
       /\ (\E d \in ScopedDialogs : stage[d] = "open") =>
       \A e \in DOMAIN baseline \ strayed : modality.aria[e] = owned.aria[e]

\* "Which order dialogs happen to open and close in therefore cannot leave
\* either stale": the attributes are at every moment the function of the open
\* set that DialogContract writes down.
Contract == INSTANCE DialogContract WITH trap <- modality.trap
FollowsContract == Contract!Spec

-----------------------------------------------------------------------------
(* What dialog-scope.ts says of every page-blocking dialog, and the code does  *)
(* not keep when `scoped` changes.                                             *)

\* "so the page must be hidden from assistive technology - including when
\* scoped modality already cleared that hiding".
FlipHidesPage == PageIsHidden
=============================================================================
