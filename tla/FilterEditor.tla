---------------------------- MODULE FilterEditor ----------------------------
(***************************************************************************)
(* The editor sessions of the filter builder:                              *)
(* packages/angular/features/filter-builder/filter-builder.renderer.ts,    *)
(* with the commit rules of filter-builder.state.ts and the guards of      *)
(* popover/popover.ts.                                                     *)
(*                                                                         *)
(* Picking a field opens the create editor, pressing a token opens the     *)
(* edit editor of its filter; each lives in a popover.  A popover's exit   *)
(* takes time, its promise settles later still, and every step that moves  *)
(* the focus rides on a timer: meanwhile the user opens the next editor.   *)
(* Every field takes one filter here, so a filter is named by its field.   *)
(*                                                                         *)
(*   value    the controlled value: the fields that have a filter          *)
(*   offered  the fields with a descriptor and a registered template       *)
(*   editor   None, or the live session: mode, field, session number       *)
(*   sessions nextEditorSession                                            *)
(*   panel    per popover, where its engine stands                         *)
(*   showing  the session whose show() has not settled                     *)
(*   hides    hide() promises whose settlement restores the focus          *)
(*   timer    where the pending focus timer moves the focus, or None       *)
(*   focus    where the focus is                                           *)
(*   outs     focus-out timers: the session left, and whether by Tab       *)
(*   left     the user has not left the live create session, has moved the *)
(*            focus elsewhere, or asked for the focus or the panel's end     *)
(*   owed     the focus is to be restored and the user has not moved since *)
(*   changes  changes of value and offered fields made by the host so far  *)
(***************************************************************************)
EXTENDS Naturals

CONSTANTS Field, None,
  MaxSessions, \* bound on editor sessions
  MaxChanges   \* bound on changes by the host

VARIABLES value, offered, editor, sessions, panel, showing, hides, timer, focus, outs, left, owed, changes

engine == <<panel, showing>>
user == <<left, owed>>
filterVars == <<value, offered, editor, sessions, engine, hides, timer, focus, outs, user, changes>>

\* The popover of the create trigger and the one of each token.
Surface == {"create"} \union Field

Spot(at, of) == [at |-> at, of |-> of]
Outside == Spot("outside", None)
Picker == Spot("picker", None)
Clear == Spot("clear", None)
Token(f) == Spot("token", f)
Editor(s) == Spot("editor", s)
InsideBuilder(x) == x.at \in {"picker", "clear", "token"}

SurfaceOf(e) == IF e.mode = "create" THEN "create" ELSE e.field

\* The editor's content is in the panel until the session or the panel ends.
Shown(s) == editor # None /\ SurfaceOf(editor) = s /\ panel[s] \in {"open", "exiting"}

CreateLive == editor # None /\ editor.mode = "create"

----------------------------------------------------------------------------
FilterInit ==
  /\ value \in SUBSET Field
  /\ offered = Field
  /\ editor = None
  /\ sessions = 0
  /\ panel = [s \in Surface |-> "closed"]
  /\ showing = 0
  /\ hides = {}
  /\ timer = None
  /\ focus = Picker
  /\ outs = {}
  /\ left = "not"
  /\ owed = FALSE
  /\ changes = 0

\* The focus moves; leaving a create editor arms onEditorFocusOut's timer.
FocusMoves(to, byTab) ==
  /\ focus' = to
  /\ outs' = IF focus = Editor("create") /\ to # focus /\ CreateLive
               THEN outs \union {[session |-> editor.session, byTab |-> byTab]} ELSE outs

\* A removed editor takes the focus inside it to the document's body.
ContentGone(s) == IF focus = Editor(s) THEN Outside ELSE focus

\* The user acts: nothing is owed any more.
UserActs(how) ==
  /\ left' = IF ~CreateLive THEN "not" ELSE IF left = "asked" THEN left ELSE how
  /\ owed' = FALSE

(* The popover engine (ng-primitives), as popover.ts uses it. *)

Hide(s) ==
  panel' = [panel EXCEPT ![s] = IF @ \in {"opening", "open"} THEN "exiting" ELSE @]

\* show() is called whatever the panel's state: it cancels a pending exit.
Show(s) ==
  panel' = [panel EXCEPT ![s] = IF @ = "exiting" THEN "open" ELSE IF @ = "closed" THEN "opening" ELSE @]

----------------------------------------------------------------------------
(* The renderer *)

\* commitEditor and cancelEditor, from editor.set(null) on.
EndEditor(restore) ==
  LET s == SurfaceOf(editor) IN
  /\ editor' = None
  /\ Hide(s)
  /\ hides' = IF restore
                THEN hides \union {[session |-> editor.session, of |-> s,
                                    to |-> IF s = "create" THEN Picker ELSE Token(s)]}
                ELSE hides
  /\ UNCHANGED <<sessions, showing>>

\* activateField and beginCreate.  A show() of a panel that is still opening
\* answers nobody; whether that panel reports itself open is the engine's affair.
\* If not, the session has no focus step of its own and one that is pending stays:
\* it is taken for a step the user still asks for.
BeginCreate(f) ==
  /\ focus = Picker
  /\ f \in offered \ value
  /\ sessions < MaxSessions /\ sessions' = sessions + 1
  /\ editor' = [mode |-> "create", field |-> f, session |-> sessions + 1]
  /\ Show("create")
  /\ IF panel["create"] = "opening"
       THEN showing' = showing /\ timer' \in {timer, Editor("create")}
       ELSE /\ showing' = sessions + 1
            /\ timer' = IF panel["create"] = "closed" THEN timer ELSE Editor("create")
  /\ left' = IF panel["create"] = "opening" /\ timer' \notin {None, Editor("create")}
               THEN "asked" ELSE "not"
  /\ owed' = FALSE
  /\ UNCHANGED <<value, offered, hides, focus, outs, changes>>

\* show() settles once the panel is there.
ShowSettles ==
  /\ panel["create"] = "opening"
  /\ panel' = [panel EXCEPT !["create"] = "open"]
  /\ timer' = IF showing = sessions THEN Editor("create") ELSE timer
  /\ UNCHANGED <<value, offered, editor, sessions, showing, hides, focus, outs, user, changes>>

\* beginEdit: a second press on the token being edited changes nothing.
BeginEdit(f) ==
  IF f \in offered \cap value /\ ~(editor # None /\ editor.mode = "edit" /\ editor.field = f)
    THEN /\ sessions < MaxSessions /\ sessions' = sessions + 1
         /\ editor' = [mode |-> "edit", field |-> f, session |-> sessions + 1]
    ELSE UNCHANGED <<editor, sessions>>

\* pointerdown on a token: beginEdit, then the browser moves the focus there.
PressToken(f) ==
  /\ f \in value
  /\ BeginEdit(f)
  /\ focus' = Token(f)
  /\ outs' = IF focus = Editor("create") /\ CreateLive /\ f \notin offered
               THEN outs \union {[session |-> editor.session, byTab |-> FALSE]} ELSE outs
  /\ UserActs("moved")
  /\ UNCHANGED <<value, offered, engine, hides, timer, changes>>

\* click, Enter or Space: the engine toggles the popover, and an opening one
\* runs onEditOpenChange(true).  A press during the exit either reopens or not.
ClickToken(f) ==
  /\ focus = Token(f)
  /\ BeginEdit(f)
  /\ \/ panel[f] = "closed" /\ panel' = [panel EXCEPT ![f] = "open"] /\ timer' = Editor(f)
     \/ panel[f] = "open" /\ Hide(f) /\ UNCHANGED timer
     \/ panel[f] = "exiting" /\ (Show(f) \/ UNCHANGED panel) /\ UNCHANGED timer
  /\ UserActs(left)
  /\ UNCHANGED <<value, offered, showing, hides, focus, outs, changes>>

\* context.commit of the live session; the host echoes the value or not.
Commit ==
  /\ editor # None /\ editor.field \in offered
  /\ (editor.mode = "edit") = (editor.field \in value)
  /\ value' \in {value, value \union {editor.field}}
  /\ EndEditor(TRUE)
  /\ focus' = ContentGone(SurfaceOf(editor))
  /\ owed' = (owed \/ focus = Editor(SurfaceOf(editor)))
  /\ UNCHANGED <<offered, timer, outs, left, changes>>

\* Escape in the editor, context.cancel, and the effect that ends a session
\* whose descriptor or template is gone.
Cancel ==
  /\ editor # None
  /\ EndEditor(TRUE)
  /\ focus' = ContentGone(SurfaceOf(editor))
  /\ owed' = (owed \/ focus = Editor(SurfaceOf(editor)))
  /\ UNCHANGED <<value, offered, timer, outs, left, changes>>

\* Fault: the timer ends whichever create session it finds.
FocusOutTimer_AnySession(o) ==
  /\ outs' = outs \ {o}
  /\ IF CreateLive /\ focus # Editor("create")
       THEN /\ focus' = IF o.byTab /\ ~InsideBuilder(focus) THEN Picker ELSE focus
            /\ EndEditor(FALSE)
       ELSE UNCHANGED <<editor, sessions, engine, hides, focus>>
  /\ UNCHANGED <<value, offered, timer, user, changes>>

\* A focus-out timer: a create editor the focus has left is cancelled, and a
\* Tab that carried it out of the builder is brought back to the picker.
FocusOutTimer(o) ==
  /\ outs' = outs \ {o}
  /\ IF editor # None /\ editor.session = o.session /\ focus # Editor("create")
       THEN /\ focus' = IF o.byTab /\ ~InsideBuilder(focus) THEN Picker ELSE focus
            /\ EndEditor(FALSE)
       ELSE UNCHANGED <<editor, sessions, engine, hides, focus>>
  /\ UNCHANGED <<value, offered, timer, user, changes>>

\* A hide() promise settles: only the latest session restores the focus.
HideSettles(h) ==
  /\ panel[h.of] # "exiting"
  /\ hides' = hides \ {h}
  /\ timer' = IF h.session = sessions THEN h.to ELSE timer
  /\ UNCHANGED <<value, offered, editor, sessions, engine, focus, outs, user, changes>>

\* Fault: a token that is gone is not replaced.
FocusTimer_NoFallback ==
  /\ timer # None
  /\ timer' = None
  /\ IF \/ timer.at = "token" /\ timer.of \notin value
        \/ timer.at = "editor" /\ ~Shown(timer.of)
       THEN UNCHANGED <<focus, outs, user>>
       ELSE FocusMoves(timer, FALSE) /\ UserActs(left)
  /\ UNCHANGED <<value, offered, editor, sessions, engine, hides, changes>>

\* The focus timer; a token that is gone is replaced by the picker.
FocusTimer ==
  /\ timer # None
  /\ CASE timer.at = "token" /\ timer.of \notin value ->
            timer' = Picker /\ UNCHANGED <<focus, outs, user>>
       [] timer.at = "editor" /\ ~Shown(timer.of) ->
            timer' = None /\ UNCHANGED <<focus, outs, user>>
       [] OTHER ->
            /\ timer' = None /\ FocusMoves(timer, FALSE) /\ UserActs(left)
  /\ UNCHANGED <<value, offered, editor, sessions, engine, hides, changes>>

\* The exit ends: openChange(false), heard by onCreateOpenChange or
\* onEditOpenChange, which drop the session they find.
Exit(s) ==
  /\ panel[s] = "exiting"
  /\ panel' = [panel EXCEPT ![s] = "closed"]
  /\ editor' = IF editor # None /\ SurfaceOf(editor) = s THEN None ELSE editor
  /\ focus' = ContentGone(s)
  /\ UNCHANGED <<value, offered, sessions, showing, hides, timer, outs, user, changes>>

\* Tokens that are gone took their popovers, and the focus in them, along; an
\* empty value takes the clear button along, too.
Removed(fs) ==
  /\ panel' = [s \in Surface |-> IF s \in fs THEN "closed" ELSE panel[s]]
  /\ focus' = CASE \E f \in fs : focus = Token(f) \/ focus = Editor(f) -> Outside
                [] focus = Clear /\ value' = {} -> Outside
                [] OTHER -> focus

\* clearAll, and Escape or a printable key on a token.  Emptied, the builder
\* has the user on the body until the picker is focused.
ClearAll ==
  /\ focus = Clear /\ value # {}
  /\ value' \in {value, {}}
  /\ Removed(value \ value')
  /\ timer' = Picker
  /\ left' = IF ~CreateLive THEN "not" ELSE "asked"
  /\ owed' = (focus' # focus)
  /\ UNCHANGED <<offered, editor, sessions, showing, hides, outs, changes>>

TokenKey ==
  /\ focus.at = "token"
  /\ timer' = Picker
  /\ UserActs("asked")
  /\ UNCHANGED <<value, offered, editor, sessions, engine, hides, focus, outs, changes>>

----------------------------------------------------------------------------
(* The user and the host *)

MoveFocus(to, byTab) ==
  /\ to \in {Outside, Picker} \union {x \in {Clear} : value # {}}
              \union {Token(f) : f \in value}
              \union {Editor(s) : s \in {t \in Surface : Shown(t)}}
  /\ to # focus
  /\ FocusMoves(to, byTab)
  /\ UserActs(IF to = Editor("create") THEN "not" ELSE "moved")
  /\ UNCHANGED <<value, offered, editor, sessions, engine, hides, timer, changes>>

\* An outside press or focus: popover.ts counts the frame, the panel and the
\* builder's scope as inside, so only what is out of them dismisses.
Dismiss(s) ==
  /\ panel[s] = "open" /\ focus = Outside
  /\ Hide(s)
  /\ UserActs("asked")
  /\ UNCHANGED <<value, offered, editor, sessions, showing, hides, timer, focus, outs, changes>>

\* The host adds or removes a filter.
SetValue(f) ==
  /\ value' = IF f \in value THEN value \ {f} ELSE value \union {f}
  /\ Removed(value \ value')
  /\ changes < MaxChanges /\ changes' = changes + 1
  /\ UNCHANGED <<offered, editor, sessions, showing, hides, timer, outs, user>>

SetOffered(f) ==
  /\ offered' = IF f \in offered THEN offered \ {f} ELSE offered \union {f}
  /\ changes < MaxChanges /\ changes' = changes + 1
  /\ UNCHANGED <<value, editor, sessions, engine, hides, timer, focus, outs, user>>
----------------------------------------------------------------------------
Settling ==
  \/ ShowSettles \/ FocusTimer
  \/ \E h \in hides : HideSettles(h)
  \/ \E s \in Surface : Exit(s)

FilterNext ==
  \/ Settling
  \/ Commit \/ Cancel \/ ClearAll \/ TokenKey
  \/ \E o \in outs : FocusOutTimer(o)
  \/ \E f \in Field : BeginCreate(f) \/ PressToken(f) \/ ClickToken(f) \/ SetValue(f) \/ SetOffered(f)
  \/ \E to \in [at : {"outside", "picker", "clear", "token", "editor"}, of : Surface \union {None}],
        byTab \in BOOLEAN : MoveFocus(to, byTab)
  \/ \E s \in Surface : Dismiss(s)

\* Promises settle, exits end and timers fire; nothing obliges a user.
FilterFairness == WF_filterVars(FocusTimer)
                  /\ WF_filterVars(\E h \in hides : HideSettles(h))
                  /\ WF_filterVars(\E s \in Surface : Exit(s))
FilterSpec == FilterInit /\ [][FilterNext]_filterVars /\ FilterFairness

----------------------------------------------------------------------------
(* What another session left behind, a late promise, a pending focus step, a *)
(* focus-out timer or the end of a popover's exit, never ends a live create  *)
(* session: timers and exits end only the session whose editor the user left *)
(* or dismissed (isLatestSession, the session comparison of the focus-out    *)
(* timer, and show() called even on an open trigger).                        *)
OnlyItsUserEndsIt ==
  [][(CreateLive /\ editor' # editor /\ (Exit("create") \/ \E o \in outs : FocusOutTimer(o)))
       => left # "not"]_filterVars

(* A user whose editor closed under the focus is not left on the document's  *)
(* body: the focus comes back to the picker or to the token, even when the   *)
(* token is gone by then, unless the user moves first.                       *)
FocusComesBack == owed ~> ~owed
=============================================================================
