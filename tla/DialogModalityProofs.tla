------------------------ MODULE DialogModalityProofs ------------------------
(***************************************************************************)
(* Proofs about DialogModality, for every set of dialogs, roots and        *)
(* elements: the counts are the numbers of overlays, the attributes follow *)
(* the open set, the module implements DialogContract, and aria-hidden     *)
(* gives the page its own values back.                                     *)
(*                                                                         *)
(* The argument: a role changes for one dialog at a time, so the sizes of  *)
(* the sets of holders move by one exactly where the code counts           *)
(* (CountChange).  The attributes are functions of the counts (RootsByCount *)
(* and MarkerByCount), hence of the open set.  aria-hidden is written by   *)
(* two parties and follows the elements one by one (AriaInv).              *)
(***************************************************************************)
EXTENDS DialogModality, FiniteSetTheorems, TLAPS

-----------------------------------------------------------------------------
(* The inductive invariant. *)

Types ==
  /\ stage \in [Dialog -> {"closed", "open", "leaving", "gone"}]
  /\ scopeRoot \in [Dialog -> Root \cup {NoRoot}]
  /\ role \in [Dialog -> Role]
  /\ managed \subseteq Dialog
  /\ DOMAIN managerMap \subseteq Element
  /\ managerMap \in [DOMAIN managerMap -> AriaValue]
  /\ overlays \in Nat
  /\ DOMAIN baseline \subseteq Element
  /\ baseline \in [DOMAIN baseline -> AriaValue]
  /\ modality \in Modality
  /\ modality.cleared \subseteq DOMAIN baseline
  /\ engaged \in [Root -> Nat]
  /\ saved \in [Root -> {Absent, "set"}]
  /\ inert \in [Root -> {Absent, "set"}]
  /\ settling \in BOOLEAN
  /\ connected \subseteq Element
  /\ owned \in Attributes
  /\ flipped \in BOOLEAN
  /\ strayed \subseteq Element

\* An overlay holds something exactly while it is rendered.
RenderedHolds == \A d \in Dialog : role[d] = Nobody <=> stage[d] \in {"closed", "gone"}

\* A counted root is inert and remembers the page's attribute.
RootsByCount ==
  \A r \in Root :
    /\ inert[r] = IF engaged[r] > 0 THEN "set" ELSE owned.inert[r]
    /\ engaged[r] > 0 => saved[r] = owned.inert[r]

\* m keeps own, the page's trap attribute, aside while the marker stands.
Coherent(m, own) ==
  /\ m.trap = IF m.marked THEN "released" ELSE own
  /\ m.marked => m.escape = own

MarkerByCount ==
  /\ Coherent(modality, owned.trap)
  /\ modality.marked <=> Phase(modality) = "scoped"

IdleIsClear == overlays = 0 => modality.cleared = {}

IInv ==
  /\ Types
  /\ RenderedHolds
  /\ CountsMatchOverlays
  /\ RootsByCount
  /\ MarkerByCount
  /\ IdleIsClear

-----------------------------------------------------------------------------
(* What the passes over the document keep. *)

IsBase(base) == DOMAIN base \subseteq Element /\ base \in [DOMAIN base -> AriaValue]

\* The aria-hidden pass writes aria and cleared only, and clears on idle.
LEMMA AriaKeeps ==
  ASSUME NEW m \in Modality, NEW base, IsBase(base),
         NEW present \in SUBSET Element, m.cleared \subseteq DOMAIN base
  PROVE  LET n == ApplyAria(m, base, present)
         IN  /\ n \in Modality
             /\ n.cleared \subseteq DOMAIN base
             /\ n.scoped = m.scoped /\ n.pageModal = m.pageModal
             /\ n.marked = m.marked /\ n.escape = m.escape /\ n.trap = m.trap
             /\ Phase(n) = Phase(m)
             /\ Phase(m) = "idle" => n.cleared = {}
<1> DEFINE n == ApplyAria(m, base, present)
<1>1. Phase(m) \in {"blocked", "scoped", "idle"}
  BY DEF Phase
<1>2. CASE Phase(m) = "scoped"
  <2> DEFINE exposed == ToExpose(m, base, present)
             aria == [e \in Element |-> IF e \in exposed THEN base[e] ELSE m.aria[e]]
  <2>1. n = [m EXCEPT !.cleared = @ \cup exposed, !.aria = aria]
    BY <1>2 DEF ApplyAria, Modality
  <2>2. exposed \subseteq DOMAIN base
    BY DEF ToExpose
  <2>3. aria \in [Element -> AriaValue]
    BY <2>2 DEF IsBase, Modality
  <2> HIDE DEF exposed, aria, n
  <2>4. QED BY <1>2, <2>1, <2>2, <2>3 DEF Modality, Phase, IsBase, n
<1>3. CASE Phase(m) = "blocked"
  <2> DEFINE aria == [e \in Element |-> IF e \in m.cleared \cap present THEN "true" ELSE m.aria[e]]
  <2>1. n = [m EXCEPT !.aria = aria]
    BY <1>3 DEF ApplyAria, Modality
  <2>2. aria \in [Element -> AriaValue]
    BY DEF Modality, AriaValue
  <2> HIDE DEF aria, n
  <2>3. QED BY <1>3, <2>1, <2>2 DEF Modality, Phase, n
<1>4. CASE Phase(m) = "idle"
  <2> DEFINE aria == [e \in Element |->
                        IF e \in m.cleared \cap present
                          THEN IF e \in DOMAIN base THEN base[e] ELSE Absent
                          ELSE m.aria[e]]
  <2>1. n = [m EXCEPT !.cleared = {}, !.aria = aria]
    BY <1>4 DEF ApplyAria, Modality
  <2>2. aria \in [Element -> AriaValue]
    BY DEF Modality, AriaValue, IsBase
  <2> HIDE DEF aria, n
  <2>3. QED BY <1>4, <2>1, <2>2 DEF Modality, Phase, n
<1>5. QED BY <1>1, <1>2, <1>3, <1>4

\* A sync brings the marker in line with the counts and keeps the rest.
LEMMA SyncSettles ==
  ASSUME NEW m \in Modality, NEW base, IsBase(base),
         NEW present \in SUBSET Element, m.cleared \subseteq DOMAIN base,
         NEW own \in {Absent, "own"}, Coherent(m, own)
  PROVE  LET n == Sync(m, base, present)
         IN  /\ n \in Modality
             /\ n.cleared \subseteq DOMAIN base
             /\ n.scoped = m.scoped /\ n.pageModal = m.pageModal
             /\ Coherent(n, own)
             /\ n.marked <=> Phase(n) = "scoped"
             /\ Phase(m) = "idle" => n.cleared = {}
<1> DEFINE k == ApplyMarker(m)
<1>1. /\ k \in Modality
      /\ k.cleared = m.cleared /\ k.scoped = m.scoped /\ k.pageModal = m.pageModal
      /\ Phase(k) = Phase(m)
      /\ Coherent(k, own)
      /\ k.marked <=> Phase(k) = "scoped"
  BY DEF ApplyMarker, Modality, Phase, Coherent
<1> HIDE DEF k
<1>2. QED BY <1>1, AriaKeeps DEF Sync, Coherent, k

-----------------------------------------------------------------------------
(* Counting. *)

\* When one dialog changes what it holds, the number of holders in a class
\* moves by one if it enters or leaves the class.
LEMMA CountChange ==
  ASSUME NEW f \in [Dialog -> Role], NEW d \in Dialog, NEW w \in Role, NEW S
  PROVE  LET A == {e \in Dialog : f[e] \in S}
             B == {e \in Dialog : [f EXCEPT ![d] = w][e] \in S}
         IN  /\ Cardinality(A) \in Nat /\ Cardinality(B) \in Nat
             /\ Cardinality(B) =
                  IF (f[d] \in S) = (w \in S) THEN Cardinality(A)
                  ELSE IF w \in S THEN Cardinality(A) + 1 ELSE Cardinality(A) - 1
<1> DEFINE A == {e \in Dialog : f[e] \in S}
           B == {e \in Dialog : [f EXCEPT ![d] = w][e] \in S}
<1>1. IsFiniteSet(A) /\ Cardinality(A) \in Nat /\ IsFiniteSet(B) /\ Cardinality(B) \in Nat
  BY FS_Subset, FS_CardinalityType, DialogAssumption
<1>2. (f[d] \in S) = (w \in S) => B = A
  OBVIOUS
<1>3. w \in S /\ f[d] \notin S => B = A \cup {d} /\ d \notin A
  OBVIOUS
<1>4. w \notin S /\ f[d] \in S => B = A \ {d} /\ d \in A
  OBVIOUS
<1> HIDE DEF A, B
<1>5. w \in S /\ f[d] \notin S => Cardinality(B) = Cardinality(A) + 1
  BY <1>1, <1>3, FS_AddElement
<1>6. w \notin S /\ f[d] \in S => Cardinality(B) = Cardinality(A) - 1
  BY <1>1, <1>4, FS_RemoveElement
<1>7. QED BY <1>1, <1>2, <1>5, <1>6 DEF A, B

\* How the open set moves when d takes w.
Enters(d, w, S) == role[d] \notin S /\ w \in S
Leaves(d, w, S) == role[d] \in S /\ w \notin S
Step(d, w, S) == IF Enters(d, w, S) THEN 1 ELSE IF Leaves(d, w, S) THEN -1 ELSE 0

LEMMA HoldersMove ==
  ASSUME role \in [Dialog -> Role], NEW d \in Dialog, NEW w \in Role,
         role' = [role EXCEPT ![d] = w]
  PROVE  /\ \A r \in Root :
              /\ Cardinality(Holding(r)) \in Nat /\ Cardinality(Holding(r)') \in Nat
              /\ Cardinality(Holding(r)') = Cardinality(Holding(r)) + Step(d, w, {r})
         /\ Cardinality(ScopedDialogs) \in Nat /\ Cardinality(ScopedDialogs') \in Nat
         /\ Cardinality(ScopedDialogs') = Cardinality(ScopedDialogs) + Step(d, w, Root)
         /\ Cardinality(PageBlockers) \in Nat /\ Cardinality(PageBlockers') \in Nat
         /\ Cardinality(PageBlockers') = Cardinality(PageBlockers) + Step(d, w, {Page})
<1>1. ASSUME NEW S
      PROVE  LET A == {e \in Dialog : role[e] \in S}
                 B == {e \in Dialog : role'[e] \in S}
             IN  /\ Cardinality(A) \in Nat /\ Cardinality(B) \in Nat
                 /\ Cardinality(B) = Cardinality(A) + Step(d, w, S)
  BY CountChange DEF Step, Enters, Leaves
<1>2. ASSUME NEW x
      PROVE  /\ Holding(x) = {e \in Dialog : role[e] \in {x}}
             /\ Holding(x)' = {e \in Dialog : role'[e] \in {x}}
  BY DEF Holding
<1>3. ASSUME NEW x
      PROVE  /\ Cardinality(Holding(x)) \in Nat /\ Cardinality(Holding(x)') \in Nat
             /\ Cardinality(Holding(x)') = Cardinality(Holding(x)) + Step(d, w, {x})
  BY <1>1, <1>2
<1>4. /\ Cardinality(ScopedDialogs) \in Nat /\ Cardinality(ScopedDialogs') \in Nat
      /\ Cardinality(ScopedDialogs') = Cardinality(ScopedDialogs) + Step(d, w, Root)
  BY <1>1 DEF ScopedDialogs
<1>5. QED BY <1>3, <1>4 DEF PageBlockers

\* With the roles unchanged the holders are.
LEMMA HoldersStay ==
  ASSUME UNCHANGED role
  PROVE  /\ \A r \in Root : Holding(r)' = Holding(r)
         /\ ScopedDialogs' = ScopedDialogs /\ PageBlockers' = PageBlockers
BY DEF Holding, ScopedDialogs, PageBlockers

\* The three kinds of roles are apart.
LEMMA RolesApart == Page \notin Root /\ Nobody \notin Root /\ NoRoot \notin Root /\ Page # Nobody
BY RoleAssumption DEF Page, Nobody, NoRoot

-----------------------------------------------------------------------------
(* The initial states and the steps. *)

LEMMA InitInv == Init => IInv
<1> SUFFICES ASSUME Init PROVE IInv OBVIOUS
<1>1. /\ \A r \in Root : Holding(r) = {}
      /\ ScopedDialogs = {} /\ PageBlockers = {}
  BY RolesApart DEF Init, Holding, ScopedDialogs, PageBlockers
<1>2. Cardinality({}) = 0
  BY FS_EmptySet
<1>3. CountsMatchOverlays
  BY <1>1, <1>2 DEF Init, CountsMatchOverlays
<1>4. Types
  <2>1. modality \in Modality
    BY DEF Init, Modality, Attributes
  <2>2. managerMap \in [DOMAIN managerMap -> AriaValue] /\ DOMAIN managerMap = {}
    BY DEF Init, Empty
  <2>3. baseline \in [DOMAIN baseline -> AriaValue] /\ DOMAIN baseline = {}
    BY DEF Init, Empty
  <2>4. inert \in [Root -> {Absent, "set"}]
    BY DEF Init, Attributes
  <2>5. QED BY <2>1, <2>2, <2>3, <2>4 DEF Init, Types, Role
<1>5. RootsByCount
  BY DEF Init, RootsByCount
<1>6. MarkerByCount
  BY DEF Init, MarkerByCount, Coherent, Phase
<1>7. RenderedHolds /\ IdleIsClear
  BY DEF Init, RenderedHolds, IdleIsClear
<1>8. QED BY <1>3, <1>4, <1>5, <1>6, <1>7 DEF IInv

\* Facts every step starts from.
LEMMA Start ==
  ASSUME IInv
  PROVE  /\ modality \in Modality /\ IsBase(baseline)
         /\ modality.cleared \subseteq DOMAIN baseline
         /\ connected \in SUBSET Element
         /\ owned.trap \in {Absent, "own"} /\ owned.aria \in [Element -> AriaValue]
         /\ Coherent(modality, owned.trap)
         /\ modality.marked <=> Phase(modality) = "scoped"
         /\ overlays = modality.scoped + modality.pageModal
BY DEF IInv, Types, IsBase, MarkerByCount, Attributes, CountsMatchOverlays

LEMMA EngageKeepsRoots ==
  ASSUME IInv, NEW r \in Root, EngageRoot(r), UNCHANGED owned
  PROVE  /\ RootsByCount'
         /\ engaged' = [engaged EXCEPT ![r] = @ + 1] /\ engaged' \in [Root -> Nat]
         /\ saved' \in [Root -> {Absent, "set"}] /\ inert' \in [Root -> {Absent, "set"}]
<1>1. engaged \in [Root -> Nat] /\ saved \in [Root -> {Absent, "set"}]
      /\ inert \in [Root -> {Absent, "set"}]
  BY DEF IInv, Types
<1>2. CASE engaged[r] = 0
  BY <1>1, <1>2 DEF IInv, EngageRoot, RootsByCount
<1>3. CASE engaged[r] # 0
  BY <1>1, <1>3 DEF IInv, EngageRoot, RootsByCount
<1>4. QED BY <1>2, <1>3

LEMMA ReleaseKeepsRoots ==
  ASSUME IInv, NEW r \in Root, engaged[r] > 0, ReleaseRoot(r), UNCHANGED owned
  PROVE  /\ RootsByCount'
         /\ engaged' = [engaged EXCEPT ![r] = @ - 1] /\ engaged' \in [Root -> Nat]
         /\ saved' \in [Root -> {Absent, "set"}] /\ inert' \in [Root -> {Absent, "set"}]
<1>1. engaged \in [Root -> Nat] /\ saved \in [Root -> {Absent, "set"}]
      /\ inert \in [Root -> {Absent, "set"}]
  BY DEF IInv, Types
<1>2. CASE engaged[r] = 1
  BY <1>1, <1>2 DEF IInv, ReleaseRoot, RootsByCount
<1>3. CASE engaged[r] > 1
  BY <1>1, <1>3 DEF IInv, ReleaseRoot, RootsByCount
<1>4. QED BY <1>1, <1>2, <1>3

\* Counters that move by the step of their class still count the holders.
LEMMA CountsFollow ==
  ASSUME IInv, NEW d \in Dialog, NEW w \in Role, role' = [role EXCEPT ![d] = w],
         \A r \in Root : engaged'[r] = engaged[r] + Step(d, w, {r}),
         modality'.scoped = modality.scoped + Step(d, w, Root),
         modality'.pageModal = modality.pageModal + Step(d, w, {Page}),
         overlays' = modality'.scoped + modality'.pageModal
  PROVE  CountsMatchOverlays'
<1>1. CountsMatchOverlays /\ role \in [Dialog -> Role]
  BY DEF IInv, Types
<1>2. /\ \A r \in Root : Cardinality(Holding(r)') = Cardinality(Holding(r)) + Step(d, w, {r})
      /\ Cardinality(ScopedDialogs') = Cardinality(ScopedDialogs) + Step(d, w, Root)
      /\ Cardinality(PageBlockers') = Cardinality(PageBlockers) + Step(d, w, {Page})
  BY <1>1, HoldersMove
<1>3. \A r \in Root : engaged'[r] = Cardinality(Holding(r)')
  BY <1>1, <1>2 DEF CountsMatchOverlays
<1>4. /\ modality'.scoped = Cardinality(ScopedDialogs')
      /\ modality'.pageModal = Cardinality(PageBlockers')
      /\ overlays' = Cardinality(ScopedDialogs') + Cardinality(PageBlockers')
  BY <1>1, <1>2 DEF CountsMatchOverlays
<1>5. QED BY <1>3, <1>4 DEF CountsMatchOverlays

LEMMA OpenInv ==
  ASSUME IInv, NEW d \in Dialog, NEW root \in Root \cup {NoRoot},
         NEW scoped \in BOOLEAN, Open(d, root, scoped)
  PROVE  IInv'
<1> DEFINE base == IF overlays = 0 THEN AriaMap(modality, connected) ELSE baseline
           owns == scoped /\ root # NoRoot
           w == IF owns THEN root ELSE Page
           k == IF owns THEN [modality EXCEPT !.scoped = @ + 1]
                        ELSE [modality EXCEPT !.pageModal = @ + 1]
           n == Sync(k, base, connected)
<1>1. w \in Role /\ w # Nobody /\ (owns <=> w \in Root) /\ (~owns <=> w = Page)
  BY RolesApart DEF Role
<1>2. /\ role \in [Dialog -> Role] /\ role[d] = Nobody
      /\ role' = [role EXCEPT ![d] = w]
  BY DEF IInv, Types, RenderedHolds, Open
<1>3. IsBase(base) /\ modality.cleared \subseteq DOMAIN base
  BY Start DEF AriaMap, IsBase, IInv, IdleIsClear, Modality
<1>4. /\ k \in Modality /\ k.cleared = modality.cleared /\ Coherent(k, owned.trap)
      /\ k.scoped = modality.scoped + (IF owns THEN 1 ELSE 0)
      /\ k.pageModal = modality.pageModal + (IF owns THEN 0 ELSE 1)
  BY Start DEF Modality, Coherent
<1>5. /\ n \in Modality /\ n.cleared \subseteq DOMAIN base
      /\ n.scoped = k.scoped /\ n.pageModal = k.pageModal
      /\ Coherent(n, owned.trap) /\ (n.marked <=> Phase(n) = "scoped")
  <2> HIDE DEF k, base
  <2> QED BY <1>3, <1>4, Start, SyncSettles
<1>6. /\ managed = {} => modality' = HidePage(n, connected) /\ managerMap' = AriaMap(n, connected)
      /\ managed # {} => modality' = n /\ managerMap' = managerMap
      /\ baseline' = base /\ overlays' = overlays + 1
  BY DEF Open, RetainScoped, RetainPage
<1>7. /\ modality' \in Modality /\ modality'.cleared \subseteq DOMAIN baseline'
      /\ modality'.scoped = k.scoped /\ modality'.pageModal = k.pageModal
      /\ Coherent(modality', owned.trap)
      /\ modality'.marked <=> Phase(modality') = "scoped"
  <2> HIDE DEF n, k
  <2>1. CASE managed = {}
    BY <2>1, <1>5, <1>6 DEF HidePage, Modality, AriaValue, Coherent, Phase
  <2>2. CASE managed # {}
    BY <2>2, <1>5, <1>6
  <2>3. QED BY <2>1, <2>2
<1>8. DOMAIN managerMap' \subseteq Element /\ managerMap' \in [DOMAIN managerMap' -> AriaValue]
  <2> HIDE DEF n
  <2> QED BY <1>5, <1>6, Start DEF AriaMap, Modality, IInv, Types
<1>9. /\ RootsByCount' /\ engaged' \in [Root -> Nat]
      /\ engaged' = IF owns THEN [engaged EXCEPT ![w] = @ + 1] ELSE engaged
      /\ saved' \in [Root -> {Absent, "set"}] /\ inert' \in [Root -> {Absent, "set"}]
  <2>1. owned' = owned
    BY DEF Open
  <2>2. CASE owns
    BY <2>1, <2>2, <1>1, EngageKeepsRoots DEF Open
  <2>3. CASE ~owns
    BY <2>1, <2>3 DEF Open, RootsUnchanged, IInv, Types, RootsByCount
  <2>4. QED BY <2>2, <2>3
<1>10. CountsMatchOverlays'
  <2> HIDE DEF k, w, owns
  <2>1. /\ \A r \in Root : Step(d, w, {r}) = IF owns /\ r = w THEN 1 ELSE 0
        /\ Step(d, w, Root) = IF owns THEN 1 ELSE 0
        /\ Step(d, w, {Page}) = IF owns THEN 0 ELSE 1
    BY <1>1, <1>2, RolesApart DEF Step, Enters, Leaves
  <2>2. engaged \in [Root -> Nat] /\ modality \in Modality
    BY DEF IInv, Types
  <2>3. \A r \in Root : engaged'[r] = engaged[r] + Step(d, w, {r})
    BY <1>1, <1>9, <2>1, <2>2
  <2>4. /\ modality'.scoped = modality.scoped + Step(d, w, Root)
        /\ modality'.pageModal = modality.pageModal + Step(d, w, {Page})
        /\ overlays' = modality'.scoped + modality'.pageModal
    BY <1>4, <1>6, <1>7, <2>1, <2>2, Start DEF Modality
  <2>5. QED BY <1>1, <1>2, <2>3, <2>4, CountsFollow
<1>11. Types'
  <2> HIDE DEF k, w, owns, base, n
  <2> QED BY <1>1, <1>2, <1>3, <1>6, <1>7, <1>8, <1>9 DEF IInv, Types, Open, IsBase
<1>12. RenderedHolds'
  BY <1>1, <1>2 DEF IInv, Types, RenderedHolds, Open
<1>13. MarkerByCount' /\ IdleIsClear'
  <2>1. owned' = owned
    BY DEF Open
  <2> HIDE DEF k
  <2> QED BY <2>1, <1>6, <1>7 DEF IInv, Types, MarkerByCount, IdleIsClear
<1>14. QED BY <1>9, <1>10, <1>11, <1>12, <1>13 DEF IInv

LEMMA CloseInv == ASSUME IInv, NEW d \in Dialog, Close(d) PROVE IInv'
<1>1. \/ modality' = RestorePage(modality, managerMap) /\ managerMap' = Empty
      \/ modality' = modality /\ managerMap' = managerMap
  BY DEF Close
<1>2. /\ modality' \in Modality /\ modality'.cleared = modality.cleared
      /\ modality'.scoped = modality.scoped /\ modality'.pageModal = modality.pageModal
      /\ Coherent(modality', owned.trap) /\ (modality'.marked <=> Phase(modality') = "scoped")
  BY <1>1, Start DEF RestorePage, Modality, Coherent, Phase, IInv, Types
<1>3. DOMAIN managerMap' \subseteq Element /\ managerMap' \in [DOMAIN managerMap' -> AriaValue]
  BY <1>1 DEF Empty, IInv, Types
<1>4. Types'
  BY <1>2, <1>3 DEF Close, IInv, Types
<1>5. CountsMatchOverlays'
  BY <1>2, HoldersStay DEF Close, IInv, CountsMatchOverlays
<1>6. RenderedHolds' /\ RootsByCount'
  BY DEF Close, IInv, Types, RenderedHolds, RootsByCount
<1>7. MarkerByCount' /\ IdleIsClear'
  BY <1>2 DEF Close, IInv, MarkerByCount, IdleIsClear
<1>8. QED BY <1>4, <1>5, <1>6, <1>7 DEF IInv

\* A holder is counted, so its release finds a count to take from.
LEMMA HolderCounted ==
  ASSUME IInv, NEW d \in Dialog
  PROVE  /\ role[d] \in Root => engaged[role[d]] > 0 /\ modality.scoped > 0
         /\ role[d] = Page => modality.pageModal > 0
<1>1. ASSUME NEW S, S \subseteq Dialog, d \in S PROVE Cardinality(S) > 0 /\ Cardinality(S) \in Nat
  BY <1>1, FS_Subset, FS_CardinalityType, FS_EmptySet, DialogAssumption
<1>2. role[d] \in Root => /\ Cardinality(Holding(role[d])) > 0
                          /\ Cardinality(ScopedDialogs) > 0
  BY <1>1 DEF Holding, ScopedDialogs
<1>3. role[d] = Page => Cardinality(PageBlockers) > 0
  BY <1>1 DEF Holding, PageBlockers
<1>4. QED BY <1>2, <1>3 DEF IInv, CountsMatchOverlays

\* n is a document in order, with s scoped dialogs and p page-blocking ones.
InOrder(n, base, own, s, p) ==
  /\ n \in Modality /\ n.cleared \subseteq DOMAIN base
  /\ n.scoped = s /\ n.pageModal = p
  /\ Coherent(n, own) /\ (n.marked <=> Phase(n) = "scoped")
  /\ s + p = 0 => n.cleared = {}

LEMMA CountersKeepOrder ==
  ASSUME NEW m \in Modality, NEW base, IsBase(base), m.cleared \subseteq DOMAIN base,
         NEW own \in {Absent, "own"}, Coherent(m, own), connected \in SUBSET Element
  PROVE  /\ InOrder(RetainScoped(m, base), base, own, m.scoped + 1, m.pageModal)
         /\ InOrder(RetainPage(m, base), base, own, m.scoped, m.pageModal + 1)
         /\ m.scoped > 0 =>
              InOrder(ReleaseScoped(m, base), base, own, m.scoped - 1, m.pageModal)
         /\ m.pageModal > 0 =>
              InOrder(ReleasePage(m, base), base, own, m.scoped, m.pageModal - 1)
<1>1. ASSUME NEW k \in Modality, k.cleared = m.cleared, Coherent(k, own),
             NEW s, NEW p, k.scoped = s, k.pageModal = p
      PROVE  InOrder(Sync(k, base, connected), base, own, s, p)
  <2>1. s \in Nat /\ p \in Nat
    BY <1>1 DEF Modality
  <2>2. s + p = 0 => Phase(k) = "idle"
    BY <1>1, <2>1 DEF Phase
  <2>3. QED BY <1>1, <2>2, SyncSettles DEF InOrder
<1>2. /\ m.scoped \in Nat /\ m.pageModal \in Nat
  BY DEF Modality
<1>3. InOrder(RetainScoped(m, base), base, own, m.scoped + 1, m.pageModal)
  <2> DEFINE k == [m EXCEPT !.scoped = @ + 1]
  <2>1. /\ k \in Modality /\ k.cleared = m.cleared /\ Coherent(k, own)
        /\ k.scoped = m.scoped + 1 /\ k.pageModal = m.pageModal
    BY DEF Modality, Coherent
  <2> HIDE DEF k
  <2>2. QED BY <1>1, <2>1 DEF RetainScoped, k
<1>4. InOrder(RetainPage(m, base), base, own, m.scoped, m.pageModal + 1)
  <2> DEFINE k == [m EXCEPT !.pageModal = @ + 1]
  <2>1. /\ k \in Modality /\ k.cleared = m.cleared /\ Coherent(k, own)
        /\ k.scoped = m.scoped /\ k.pageModal = m.pageModal + 1
    BY DEF Modality, Coherent
  <2> HIDE DEF k
  <2>2. QED BY <1>1, <2>1 DEF RetainPage, k
<1>5. ASSUME m.scoped > 0
      PROVE  InOrder(ReleaseScoped(m, base), base, own, m.scoped - 1, m.pageModal)
  <2> DEFINE k == [m EXCEPT !.scoped = @ - 1]
  <2>1. /\ k \in Modality /\ k.cleared = m.cleared /\ Coherent(k, own)
        /\ k.scoped = m.scoped - 1 /\ k.pageModal = m.pageModal
    BY <1>2, <1>5 DEF Modality, Coherent
  <2> HIDE DEF k
  <2>2. QED BY <1>1, <2>1 DEF ReleaseScoped, k
<1>6. ASSUME m.pageModal > 0
      PROVE  InOrder(ReleasePage(m, base), base, own, m.scoped, m.pageModal - 1)
  <2> DEFINE k == [m EXCEPT !.pageModal = @ - 1]
  <2>1. /\ k \in Modality /\ k.cleared = m.cleared /\ Coherent(k, own)
        /\ k.scoped = m.scoped /\ k.pageModal = m.pageModal - 1
    BY <1>2, <1>6 DEF Modality, Coherent
  <2> HIDE DEF k
  <2>2. QED BY <1>1, <2>1 DEF ReleasePage, k
<1>7. QED BY <1>3, <1>4, <1>5, <1>6

LEMMA DestroyOverlayInv == ASSUME IInv, NEW d \in Dialog, DestroyOverlay(d) PROVE IInv'
<1> DEFINE s == modality.scoped - (IF role[d] = Page THEN 0 ELSE 1)
           p == modality.pageModal - (IF role[d] = Page THEN 1 ELSE 0)
<1>1. /\ role \in [Dialog -> Role] /\ role[d] # Nobody /\ Nobody \in Role
      /\ role' = [role EXCEPT ![d] = Nobody] /\ role[d] \in Root \cup {Page}
  BY DEF IInv, Types, RenderedHolds, DestroyOverlay, Role
<1>2. /\ engaged \in [Root -> Nat] /\ modality \in Modality
      /\ modality.scoped \in Nat /\ modality.pageModal \in Nat
  BY DEF IInv, Types, Modality
<1>3. InOrder(modality', baseline, owned.trap, s, p)
  <2>1. /\ modality.scoped > 0 =>
             InOrder(ReleaseScoped(modality, baseline), baseline, owned.trap,
                     modality.scoped - 1, modality.pageModal)
        /\ modality.pageModal > 0 =>
             InOrder(ReleasePage(modality, baseline), baseline, owned.trap,
                     modality.scoped, modality.pageModal - 1)
    BY Start, CountersKeepOrder
  <2>2. CASE role[d] = Page
    <3>1. s = modality.scoped /\ p = modality.pageModal - 1
      BY <1>2, <2>2
    <3>2. modality' = ReleasePage(modality, baseline)
      BY <2>2 DEF DestroyOverlay
    <3> HIDE DEF s, p
    <3>3. QED BY <2>1, <2>2, <3>1, <3>2, HolderCounted
  <2>3. CASE role[d] # Page
    <3>1. s = modality.scoped - 1 /\ p = modality.pageModal
      BY <1>2, <2>3
    <3>2. modality' = ReleaseScoped(modality, baseline)
      BY <2>3 DEF DestroyOverlay
    <3> HIDE DEF s, p
    <3>3. QED BY <1>1, <2>1, <2>3, <3>1, <3>2, HolderCounted
  <2>4. QED BY <2>2, <2>3
<1>4. /\ RootsByCount' /\ engaged' \in [Root -> Nat]
      /\ engaged' = IF role[d] = Page THEN engaged
                    ELSE [engaged EXCEPT ![role[d]] = @ - 1]
      /\ saved' \in [Root -> {Absent, "set"}] /\ inert' \in [Root -> {Absent, "set"}]
  <2>1. owned' = owned
    BY DEF DestroyOverlay
  <2>2. CASE role[d] = Page
    BY <2>1, <2>2 DEF DestroyOverlay, RootsUnchanged, IInv, Types, RootsByCount
  <2>3. CASE role[d] # Page
    BY <2>1, <2>3, <1>1, HolderCounted, ReleaseKeepsRoots DEF DestroyOverlay
  <2>4. QED BY <2>2, <2>3
<1>5. overlays' = s + p /\ (overlays' = 0 => modality'.cleared = {})
  BY <1>2, <1>3, Start DEF DestroyOverlay, InOrder
<1>6. CountsMatchOverlays'
  <2>1. /\ \A r \in Root : Step(d, Nobody, {r}) = IF role[d] = r THEN -1 ELSE 0
        /\ Step(d, Nobody, Root) = IF role[d] = Page THEN 0 ELSE -1
        /\ Step(d, Nobody, {Page}) = IF role[d] = Page THEN -1 ELSE 0
    BY <1>1, RolesApart DEF Step, Enters, Leaves
  <2>2. \A r \in Root : engaged'[r] = engaged[r] + Step(d, Nobody, {r})
    BY <1>1, <1>2, <1>4, <2>1, RolesApart
  <2>3. /\ modality'.scoped = modality.scoped + Step(d, Nobody, Root)
        /\ modality'.pageModal = modality.pageModal + Step(d, Nobody, {Page})
        /\ overlays' = modality'.scoped + modality'.pageModal
    BY <1>2, <1>3, <1>5, <2>1 DEF InOrder
  <2>4. QED BY <1>1, <2>2, <2>3, CountsFollow
<1>7. IsBase(baseline') /\ modality'.cleared \subseteq DOMAIN baseline'
  <2>1. CASE overlays = 1
    BY <2>1, <1>5 DEF DestroyOverlay, Empty, IsBase
  <2>2. CASE overlays # 1
    BY <2>2, <1>3, Start DEF DestroyOverlay, InOrder
  <2>3. QED BY <2>1, <2>2
<1>8. Types'
  <2>1. overlays' \in Nat
    BY <1>2, <1>5, HolderCounted, <1>1
  <2> HIDE DEF s, p
  <2>2. QED BY <1>1, <1>3, <1>4, <1>7, <2>1
            DEF IInv, Types, DestroyOverlay, IsBase, InOrder
<1>9. RenderedHolds'
  BY <1>1 DEF IInv, Types, RenderedHolds, DestroyOverlay
<1>10. MarkerByCount' /\ IdleIsClear'
  BY <1>3, <1>5 DEF DestroyOverlay, MarkerByCount, IdleIsClear, InOrder
<1>11. QED BY <1>4, <1>6, <1>8, <1>9, <1>10 DEF IInv

LEMMA BecomeScopedInv == ASSUME IInv, NEW d \in Dialog, BecomeScoped(d) PROVE IInv'
<1> DEFINE r0 == scopeRoot[d]
           n == RetainScoped(modality, baseline)
<1>1. /\ role \in [Dialog -> Role] /\ role[d] = Page /\ r0 \in Root /\ r0 \in Role
      /\ role' = [role EXCEPT ![d] = r0] /\ stage[d] = "open"
  BY DEF IInv, Types, BecomeScoped, Role
<1>2. /\ engaged \in [Root -> Nat] /\ modality.scoped \in Nat /\ modality.pageModal \in Nat
      /\ modality.pageModal > 0
  BY <1>1, HolderCounted DEF IInv, Types, Modality
<1>3. InOrder(n, baseline, owned.trap, modality.scoped + 1, modality.pageModal)
  BY Start, CountersKeepOrder
<1>4. InOrder(modality', baseline, owned.trap, modality.scoped + 1, modality.pageModal - 1)
  <2>1. modality' = ReleasePage(n, baseline)
    BY DEF BecomeScoped
  <2> HIDE DEF n
  <2>2. QED BY <1>2, <1>3, <2>1, Start, CountersKeepOrder DEF InOrder
<1>5. /\ RootsByCount' /\ engaged' \in [Root -> Nat]
      /\ engaged' = [engaged EXCEPT ![r0] = @ + 1]
      /\ saved' \in [Root -> {Absent, "set"}] /\ inert' \in [Root -> {Absent, "set"}]
  BY <1>1, EngageKeepsRoots DEF BecomeScoped
<1>6. CountsMatchOverlays'
  <2>1. /\ \A r \in Root : Step(d, r0, {r}) = IF r = r0 THEN 1 ELSE 0
        /\ Step(d, r0, Root) = 1
        /\ Step(d, r0, {Page}) = -1
    BY <1>1, RolesApart DEF Step, Enters, Leaves
  <2>2. \A r \in Root : engaged'[r] = engaged[r] + Step(d, r0, {r})
    BY <1>1, <1>2, <1>5, <2>1
  <2>3. /\ modality'.scoped = modality.scoped + Step(d, r0, Root)
        /\ modality'.pageModal = modality.pageModal + Step(d, r0, {Page})
        /\ overlays' = modality'.scoped + modality'.pageModal
    BY <1>2, <1>4, <2>1, Start DEF InOrder, BecomeScoped
  <2>4. QED BY <1>1, <2>2, <2>3, CountsFollow
<1>7. Types'
  BY <1>1, <1>4, <1>5 DEF IInv, Types, BecomeScoped, InOrder
<1>8. RenderedHolds'
  BY <1>1, RolesApart DEF IInv, Types, RenderedHolds, BecomeScoped
<1>9. MarkerByCount' /\ IdleIsClear'
  BY <1>2, <1>4, Start DEF BecomeScoped, MarkerByCount, IdleIsClear, InOrder
<1>10. QED BY <1>5, <1>6, <1>7, <1>8, <1>9 DEF IInv

LEMMA BecomePageModalInv == ASSUME IInv, NEW d \in Dialog, BecomePageModal(d) PROVE IInv'
<1> DEFINE r0 == role[d]
           n == ReleaseScoped(modality, baseline)
<1>1. /\ role \in [Dialog -> Role] /\ r0 \in Root /\ Page \in Role
      /\ role' = [role EXCEPT ![d] = Page] /\ stage[d] = "open"
  BY DEF IInv, Types, BecomePageModal, Role
<1>2. /\ engaged \in [Root -> Nat] /\ modality.scoped \in Nat /\ modality.pageModal \in Nat
      /\ modality.scoped > 0 /\ engaged[r0] > 0
  BY <1>1, HolderCounted DEF IInv, Types, Modality
<1>3. InOrder(n, baseline, owned.trap, modality.scoped - 1, modality.pageModal)
  BY <1>2, Start, CountersKeepOrder
<1>4. InOrder(modality', baseline, owned.trap, modality.scoped - 1, modality.pageModal + 1)
  <2>1. modality' = RetainPage(n, baseline)
    BY DEF BecomePageModal
  <2> HIDE DEF n
  <2>2. QED BY <1>2, <1>3, <2>1, Start, CountersKeepOrder DEF InOrder
<1>5. /\ RootsByCount' /\ engaged' \in [Root -> Nat]
      /\ engaged' = [engaged EXCEPT ![r0] = @ - 1]
      /\ saved' \in [Root -> {Absent, "set"}] /\ inert' \in [Root -> {Absent, "set"}]
  BY <1>1, <1>2, ReleaseKeepsRoots DEF BecomePageModal
<1>6. CountsMatchOverlays'
  <2>1. /\ \A r \in Root : Step(d, Page, {r}) = IF r = r0 THEN -1 ELSE 0
        /\ Step(d, Page, Root) = -1
        /\ Step(d, Page, {Page}) = 1
    BY <1>1, RolesApart DEF Step, Enters, Leaves
  <2>2. \A r \in Root : engaged'[r] = engaged[r] + Step(d, Page, {r})
    BY <1>1, <1>2, <1>5, <2>1
  <2>3. /\ modality'.scoped = modality.scoped + Step(d, Page, Root)
        /\ modality'.pageModal = modality.pageModal + Step(d, Page, {Page})
        /\ overlays' = modality'.scoped + modality'.pageModal
    BY <1>2, <1>4, <2>1, Start DEF InOrder, BecomePageModal
  <2>4. QED BY <1>1, <2>2, <2>3, CountsFollow
<1>7. Types'
  BY <1>1, <1>4, <1>5 DEF IInv, Types, BecomePageModal, InOrder
<1>8. RenderedHolds'
  BY <1>1, RolesApart DEF IInv, Types, RenderedHolds, BecomePageModal
<1>9. MarkerByCount' /\ IdleIsClear'
  BY <1>2, <1>4, Start DEF BecomePageModal, MarkerByCount, IdleIsClear, InOrder
<1>10. QED BY <1>5, <1>6, <1>7, <1>8, <1>9 DEF IInv

LEMMA SettleInv == ASSUME IInv, Settle PROVE IInv'
<1>1. /\ modality' \in Modality /\ modality'.cleared \subseteq DOMAIN baseline
      /\ modality'.scoped = modality.scoped /\ modality'.pageModal = modality.pageModal
      /\ modality'.marked = modality.marked /\ modality'.escape = modality.escape
      /\ modality'.trap = modality.trap /\ Phase(modality') = Phase(modality)
      /\ Phase(modality) = "idle" => modality'.cleared = {}
  BY Start, AriaKeeps DEF Settle
<1>2. overlays = 0 => Phase(modality) = "idle"
  BY Start DEF Phase, Modality
<1>3. Types'
  BY <1>1 DEF Settle, IInv, Types
<1>4. CountsMatchOverlays'
  BY <1>1, HoldersStay DEF Settle, IInv, CountsMatchOverlays
<1>5. RenderedHolds' /\ RootsByCount' /\ MarkerByCount' /\ IdleIsClear'
  BY <1>1, <1>2 DEF Settle, IInv, RenderedHolds, RootsByCount, MarkerByCount,
                    Coherent, IdleIsClear
<1>6. QED BY <1>3, <1>4, <1>5 DEF IInv

LEMMA MoveInv ==
  ASSUME IInv, NEW e \in Element, Attach(e) \/ Detach(e) PROVE IInv'
<1>1. Types' /\ RenderedHolds' /\ RootsByCount' /\ MarkerByCount' /\ IdleIsClear'
  BY DEF Attach, Detach, MoveElement, IInv, Types, RenderedHolds, RootsByCount,
         MarkerByCount, IdleIsClear
<1>2. CountsMatchOverlays'
  BY HoldersStay DEF Attach, Detach, MoveElement, IInv, CountsMatchOverlays
<1>3. QED BY <1>1, <1>2 DEF IInv

LEMMA NextInv == IInv /\ [Next]_vars => IInv'
<1> SUFFICES ASSUME IInv, [Next]_vars PROVE IInv' OBVIOUS
<1>1. ASSUME NEW d \in Dialog, NEW root \in Root \cup {NoRoot}, NEW scoped \in BOOLEAN,
             Open(d, root, scoped)
      PROVE  IInv'
  BY <1>1, OpenInv
<1>2. ASSUME NEW d \in Dialog, Close(d) PROVE IInv'
  BY <1>2, CloseInv
<1>3. ASSUME NEW d \in Dialog, DestroyOverlay(d) PROVE IInv'
  BY <1>3, DestroyOverlayInv
<1>4. ASSUME NEW d \in Dialog, BecomeScoped(d) PROVE IInv'
  BY <1>4, BecomeScopedInv
<1>5. ASSUME NEW d \in Dialog, BecomePageModal(d) PROVE IInv'
  BY <1>5, BecomePageModalInv
<1>6. ASSUME Settle PROVE IInv'
  BY <1>6, SettleInv
<1>7. ASSUME NEW e \in Element, Attach(e) \/ Detach(e) PROVE IInv'
  BY <1>7, MoveInv
<1>8. ASSUME UNCHANGED vars PROVE IInv'
  <2>1. Types' /\ RenderedHolds' /\ RootsByCount' /\ MarkerByCount' /\ IdleIsClear'
    BY <1>8 DEF vars, IInv, Types, RenderedHolds, RootsByCount, MarkerByCount, IdleIsClear
  <2>2. CountsMatchOverlays'
    BY <1>8, HoldersStay DEF vars, IInv, CountsMatchOverlays
  <2>3. QED BY <2>1, <2>2 DEF IInv
<1>9. QED BY <1>1, <1>2, <1>3, <1>4, <1>5, <1>6, <1>7, <1>8 DEF Next

\* The inductive invariant holds in every reachable state.
THEOREM IInvHolds == Spec => []IInv
<1>1. Init => IInv
  BY InitInv
<1>2. IInv /\ [Next]_vars => IInv'
  BY NextInv
<1>3. QED BY <1>1, <1>2, PTL DEF Spec

-----------------------------------------------------------------------------
(* What the invariant says of the open set. *)

\* A count is positive exactly while somebody holds, and no count exceeds the
\* number of dialogs.
LEMMA CountsAreHolders ==
  ASSUME IInv
  PROVE  /\ \A r \in Root : /\ engaged[r] > 0 <=> Holding(r) # {}
                            /\ engaged[r] <= modality.scoped
         /\ modality.scoped > 0 <=> ScopedDialogs # {}
         /\ modality.pageModal > 0 <=> PageBlockers # {}
         /\ overlays <= Cardinality(Dialog)
<1>1. ASSUME NEW S \in SUBSET Dialog
      PROVE  /\ IsFiniteSet(S) /\ Cardinality(S) \in Nat
             /\ Cardinality(S) > 0 <=> S # {}
  BY FS_Subset, FS_CardinalityType, FS_EmptySet, DialogAssumption
<1>2. /\ \A r \in Root : Holding(r) \in SUBSET ScopedDialogs /\ Holding(r) \in SUBSET Dialog
      /\ ScopedDialogs \in SUBSET Dialog /\ PageBlockers \in SUBSET Dialog
      /\ ScopedDialogs \cap PageBlockers = {}
  BY RolesApart DEF Holding, ScopedDialogs, PageBlockers
<1>3. \A r \in Root : Cardinality(Holding(r)) <= Cardinality(ScopedDialogs)
  BY <1>1, <1>2, FS_Subset
<1>4. Cardinality(ScopedDialogs) + Cardinality(PageBlockers) <= Cardinality(Dialog)
  <2>1. Cardinality(ScopedDialogs \cup PageBlockers)
          = Cardinality(ScopedDialogs) + Cardinality(PageBlockers)
              - Cardinality(ScopedDialogs \cap PageBlockers)
    BY <1>1, <1>2, FS_Union
  <2>2. Cardinality(ScopedDialogs \cap PageBlockers) = 0
    BY <1>2, FS_EmptySet
  <2>3. Cardinality(ScopedDialogs \cup PageBlockers) <= Cardinality(Dialog)
    <3>1. ScopedDialogs \cup PageBlockers \in SUBSET Dialog
      BY <1>2
    <3>2. QED BY <3>1, FS_Subset, DialogAssumption
  <2>4. QED BY <1>1, <1>2, <2>1, <2>2, <2>3
<1>5. QED BY <1>1, <1>2, <1>3, <1>4 DEF IInv, CountsMatchOverlays

LEMMA RootsFollow == ASSUME IInv PROVE RootsFollowOpenSet
BY CountsAreHolders DEF IInv, RootsByCount, RootsFollowOpenSet

LEMMA TrapFollows == ASSUME IInv PROVE TrapFollowsOpenSet
<1>1. modality.marked <=> ScopedDialogs # {} /\ PageBlockers = {}
  BY CountsAreHolders DEF IInv, MarkerByCount, Phase
<1>2. QED BY <1>1 DEF IInv, MarkerByCount, Coherent, TrapFollowsOpenSet

\* The state of the document has its types and no count exceeds the number of
\* dialogs, whatever their number.
THEOREM TypeCorrect == Spec => []TypeOK
<1>1. ASSUME IInv PROVE TypeOK
  <2>1. Cardinality(Dialog) \in Nat
    BY DialogAssumption, FS_CardinalityType
  <2>2. overlays \in 0 .. Cardinality(Dialog)
    BY <2>1, CountsAreHolders, <1>1 DEF IInv, Types
  <2>3. modality.scoped + modality.pageModal = overlays
    BY <1>1, Start
  <2>4. engaged \in [Root -> 0 .. modality.scoped]
    BY <1>1, CountsAreHolders DEF IInv, Types, Modality
  <2>5. QED BY <1>1, <2>2, <2>3, <2>4 DEF IInv, Types, TypeOK
<1>2. IInv => TypeOK
  BY <1>1
<1>3. QED BY <1>2, IInvHolds, PTL

\* Every reference count is the number of overlays that hold what it counts.
THEOREM CountsAreExact == Spec => []CountsMatchOverlays
<1>1. IInv => CountsMatchOverlays
  BY DEF IInv
<1>2. QED BY <1>1, IInvHolds, PTL

\* Roots are inert exactly while held, and get their own attribute back.
THEOREM RootsAreRestored == Spec => []RootsFollowOpenSet
<1>1. IInv => RootsFollowOpenSet
  BY RootsFollow
<1>2. QED BY <1>1, IInvHolds, PTL

\* The focus trap is released exactly while every overlay is scoped.
THEOREM TrapIsRestored == Spec => []TrapFollowsOpenSet
<1>1. IInv => TrapFollowsOpenSet
  BY TrapFollows
<1>2. QED BY <1>1, IInvHolds, PTL

-----------------------------------------------------------------------------
(* The module implements DialogContract. *)

\* In a state of the invariant the attributes are those the contract derives.
Derived ==
  inert = Contract!InertUnder(role) /\ modality.trap = Contract!TrapUnder(role)

LEMMA AttributesDerived == IInv => Derived
<1> SUFFICES ASSUME IInv PROVE Derived OBVIOUS
<1>1. inert = [r \in Root |-> inert[r]]
  BY DEF IInv, Types
<1>2. \A r \in Root : inert[r] = IF \E d \in Dialog : role[d] = r
                                   THEN "set" ELSE owned.inert[r]
  BY RootsFollow DEF RootsFollowOpenSet, Holding
<1>3. modality.trap = IF (\E d \in Dialog : role[d] \in Root)
                           /\ (\A d \in Dialog : role[d] # Page)
                        THEN "released" ELSE owned.trap
  BY TrapFollows DEF TrapFollowsOpenSet, ScopedDialogs, PageBlockers, Holding
<1>4. QED BY <1>1, <1>2, <1>3 DEF Derived, Contract!InertUnder, Contract!TrapUnder

LEMMA StepFollows ==
  ASSUME IInv, IInv', [Next]_vars
  PROVE  [Contract!Next]_(Contract!vars)
<1>1. /\ inert = Contract!InertUnder(role) /\ modality.trap = Contract!TrapUnder(role)
      /\ inert' = Contract!InertUnder(role)' /\ modality'.trap = Contract!TrapUnder(role)'
  <2>1. IInv' => Derived'
    BY AttributesDerived, PTL
  <2>2. QED BY <2>1, AttributesDerived DEF Derived
<1>2. UNCHANGED owned
  BY DEF Next, vars, Open, Close, DestroyOverlay, BecomeScoped, BecomePageModal,
         Settle, Attach, Detach, MoveElement
<1>3. ASSUME NEW d \in Dialog, NEW w \in Root \cup {Page, Nobody},
             role' = [role EXCEPT ![d] = w]
      PROVE  Contract!Next
  BY <1>1, <1>2, <1>3 DEF Contract!Next, Contract!Hold, Contract!InertUnder,
                          Contract!TrapUnder
<1>4. ASSUME UNCHANGED role PROVE UNCHANGED Contract!vars
  BY <1>1, <1>2, <1>4 DEF Contract!vars, Contract!InertUnder, Contract!TrapUnder
<1>5. ASSUME NEW d \in Dialog, NEW root \in Root \cup {NoRoot}, NEW scoped \in BOOLEAN,
             Open(d, root, scoped)
      PROVE  Contract!Next
  <2>1. \E w \in Root \cup {Page, Nobody} : role' = [role EXCEPT ![d] = w]
    BY <1>5 DEF Open
  <2>2. QED BY <1>3, <2>1
<1>6. ASSUME NEW d \in Dialog, DestroyOverlay(d) \/ BecomeScoped(d) \/ BecomePageModal(d)
      PROVE  Contract!Next
  <2>1. \E w \in Root \cup {Page, Nobody} : role' = [role EXCEPT ![d] = w]
    BY <1>6 DEF DestroyOverlay, BecomeScoped, BecomePageModal, IInv, Types
  <2>2. QED BY <1>3, <2>1
<1>7. ASSUME \/ \E d \in Dialog : Close(d)
             \/ Settle
             \/ \E e \in Element : Attach(e) \/ Detach(e)
             \/ UNCHANGED vars
      PROVE  UNCHANGED Contract!vars
  BY <1>4, <1>7 DEF Close, Settle, Attach, Detach, MoveElement, vars
<1>8. QED BY <1>5, <1>6, <1>7 DEF Next

\* The document's attributes are at every moment the function of the open set
\* that the contract states: no order of opening and closing leaves one stale.
THEOREM ImplementsContract == Spec => FollowsContract
<1>1. Init => Contract!Init
  BY DEF Init, Contract!Init
<1>2. IInv /\ IInv' /\ [Next]_vars => [Contract!Next]_(Contract!vars)
  BY StepFollows
<1>3. QED BY <1>1, <1>2, IInvHolds, PTL DEF Spec, FollowsContract, Contract!Spec

-----------------------------------------------------------------------------
(* aria-hidden.  `flipped` apart, an element that was in the body before the   *)
(* dialogs reads as the page set it or "true", and whenever the two differ     *)
(* somebody can put the page's value back: the manager, whose map has it, or   *)
(* the idle pass, which finds it in `cleared`.                                 *)

\* The manager serves the open dialogs, and its map has the baseline.
AriaFrame ==
  /\ DOMAIN baseline \ strayed \subseteq connected
  /\ managed = {d \in Dialog : stage[d] = "open"}
  /\ managed # {} => DOMAIN baseline \ strayed \subseteq DOMAIN managerMap
  /\ overlays = 0 => DOMAIN baseline = {}

\* m's pass can still give e the value own.
Restorable(m, e, own) ==
  m.aria[e] \in {own, "true"} /\ (m.aria[e] # own => e \in m.cleared)

\* m hides e, or remembers that it exposed e.
HiddenOrCleared(m, e, own) ==
  m.aria[e] \in {own, "true"} /\ (m.aria[e] = "true" \/ e \in m.cleared)

\* What the settled document owes e while a dialog is open.
SettledFor(m, e, own) ==
  /\ Phase(m) = "blocked" => m.aria[e] = "true"
  /\ Phase(m) = "scoped" => m.aria[e] = own

\* An element of the baseline.
Captured(e) ==
  /\ baseline[e] = owned.aria[e]
  /\ managed = {} => Restorable(modality, e, owned.aria[e])
  /\ managed # {} =>
       /\ HiddenOrCleared(modality, e, owned.aria[e])
       /\ managerMap[e] \in {owned.aria[e], "true"}
       /\ managerMap[e] # owned.aria[e] => e \in modality.cleared
       /\ ~settling => SettledFor(modality, e, owned.aria[e])

\* Any other element: only the manager has touched it.
Outside(e) ==
  /\ managed = {} \/ e \notin DOMAIN managerMap => modality.aria[e] = owned.aria[e]
  /\ managed # {} /\ e \in DOMAIN managerMap => managerMap[e] = owned.aria[e]

Elements ==
  /\ \A e \in DOMAIN baseline \ strayed : Captured(e)
  /\ \A e \in Element \ (DOMAIN baseline \cup strayed) : Outside(e)

AriaInv == AriaFrame /\ (~flipped => Elements)

\* The pass, element by element.
LEMMA PassByElement ==
  ASSUME NEW m \in Modality, NEW base, IsBase(base), NEW present \in SUBSET Element,
         m.cleared \subseteq DOMAIN base, NEW e \in Element, e \in DOMAIN base => e \in present
  PROVE  LET n == ApplyAria(m, base, present)
         IN  /\ e \notin DOMAIN base => n.aria[e] = m.aria[e]
             /\ Phase(m) = "scoped" /\ e \in DOMAIN base =>
                  IF base[e] # "true" /\ m.aria[e] = "true"
                    THEN n.aria[e] = base[e] /\ e \in n.cleared
                    ELSE n.aria[e] = m.aria[e] /\ (e \in m.cleared => e \in n.cleared)
             /\ Phase(m) = "blocked" /\ e \in DOMAIN base =>
                  /\ n.aria[e] = IF e \in m.cleared THEN "true" ELSE m.aria[e]
                  /\ n.cleared = m.cleared
             /\ Phase(m) = "idle" /\ e \in DOMAIN base =>
                  n.aria[e] = IF e \in m.cleared THEN base[e] ELSE m.aria[e]
<1> DEFINE n == ApplyAria(m, base, present)
<1>1. Phase(m) \in {"blocked", "scoped", "idle"}
  BY DEF Phase
<1>2. CASE Phase(m) = "scoped"
  <2> DEFINE exposed == ToExpose(m, base, present)
             aria == [x \in Element |-> IF x \in exposed THEN base[x] ELSE m.aria[x]]
  <2>1. n = [m EXCEPT !.cleared = @ \cup exposed, !.aria = aria]
    BY <1>2 DEF ApplyAria, Modality
  <2>2. n.cleared = m.cleared \cup exposed /\ n.aria = aria
    <3> HIDE DEF exposed, aria, n
    <3> QED BY <2>1 DEF Modality
  <2>3. e \in exposed <=> e \in DOMAIN base /\ base[e] # "true" /\ m.aria[e] = "true"
    BY DEF ToExpose
  <2>4. n.aria[e] = IF e \in exposed THEN base[e] ELSE m.aria[e]
    BY <2>2
  <2> HIDE DEF exposed, aria, n
  <2>5. QED BY <1>2, <2>2, <2>3, <2>4 DEF n
<1>3. CASE Phase(m) = "blocked"
  <2> DEFINE aria == [x \in Element |-> IF x \in m.cleared \cap present THEN "true" ELSE m.aria[x]]
  <2>1. n = [m EXCEPT !.aria = aria]
    BY <1>3 DEF ApplyAria, Modality
  <2>2. n.cleared = m.cleared /\ n.aria = aria
    <3> HIDE DEF aria, n
    <3> QED BY <2>1 DEF Modality
  <2>3. n.aria[e] = IF e \in m.cleared THEN "true" ELSE m.aria[e]
    BY <2>2
  <2> HIDE DEF aria, n
  <2>4. QED BY <1>3, <2>2, <2>3 DEF n
<1>4. CASE Phase(m) = "idle"
  <2> DEFINE aria == [x \in Element |->
                        IF x \in m.cleared \cap present
                          THEN IF x \in DOMAIN base THEN base[x] ELSE Absent
                          ELSE m.aria[x]]
  <2>1. n = [m EXCEPT !.cleared = {}, !.aria = aria]
    BY <1>4 DEF ApplyAria, Modality
  <2>2. n.aria = aria
    <3> HIDE DEF aria, n
    <3> QED BY <2>1 DEF Modality
  <2>3. n.aria[e] = IF e \in m.cleared THEN base[e] ELSE m.aria[e]
    BY <2>2
  <2> HIDE DEF aria, n
  <2>4. QED BY <1>4, <2>3 DEF n
<1>5. QED BY <1>1, <1>2, <1>3, <1>4

\* n keeps what m knew of e, and settles e.
Carries(m, n, e, own) ==
  /\ Phase(n) = Phase(m)
  /\ Phase(m) # "idle" =>
       /\ e \in m.cleared => e \in n.cleared
       /\ Restorable(m, e, own) => Restorable(n, e, own)
       /\ HiddenOrCleared(m, e, own) =>
            HiddenOrCleared(n, e, own) /\ SettledFor(n, e, own)
  /\ Phase(m) = "idle" /\ Restorable(m, e, own) => n.aria[e] = own

LEMMA PassCarries ==
  ASSUME NEW m \in Modality, NEW base, IsBase(base), NEW present \in SUBSET Element,
         m.cleared \subseteq DOMAIN base, NEW e \in DOMAIN base, e \in present
  PROVE  Carries(m, ApplyAria(m, base, present), e, base[e])
<1> DEFINE n == ApplyAria(m, base, present)
<1>1. Phase(n) = Phase(m) /\ Phase(m) \in {"blocked", "scoped", "idle"}
  BY AriaKeeps DEF Phase
<1>2. /\ Phase(m) = "scoped" =>
           IF base[e] # "true" /\ m.aria[e] = "true"
             THEN n.aria[e] = base[e] /\ e \in n.cleared
             ELSE n.aria[e] = m.aria[e] /\ (e \in m.cleared => e \in n.cleared)
      /\ Phase(m) = "blocked" =>
           /\ n.aria[e] = IF e \in m.cleared THEN "true" ELSE m.aria[e]
           /\ n.cleared = m.cleared
      /\ Phase(m) = "idle" => n.aria[e] = IF e \in m.cleared THEN base[e] ELSE m.aria[e]
  BY PassByElement DEF IsBase
<1> HIDE DEF n
<1>3. Carries(m, n, e, base[e])
  BY <1>1, <1>2 DEF Carries, Restorable, HiddenOrCleared, SettledFor
<1>4. QED BY <1>3 DEF n

\* So does a sync, whose marker half has nothing to do with aria-hidden.
LEMMA SyncCarries ==
  ASSUME NEW m \in Modality, NEW base, IsBase(base), NEW present \in SUBSET Element,
         m.cleared \subseteq DOMAIN base, NEW e \in Element, e \in DOMAIN base => e \in present,
         NEW own \in {Absent, "own"}, Coherent(m, own)
  PROVE  LET n == Sync(m, base, present)
         IN  /\ e \in DOMAIN base => Carries(m, n, e, base[e])
             /\ e \notin DOMAIN base => n.aria[e] = m.aria[e]
<1> DEFINE k == ApplyMarker(m)
           n == ApplyAria(k, base, present)
<1>1. /\ k \in Modality
      /\ k.cleared = m.cleared /\ k.aria = m.aria /\ Phase(k) = Phase(m)
  BY DEF ApplyMarker, Modality, Phase, Coherent
<1> HIDE DEF k
<1>2. e \in DOMAIN base => Carries(k, n, e, base[e])
  BY <1>1, PassCarries
<1>3. e \notin DOMAIN base => n.aria[e] = k.aria[e]
  BY <1>1, PassByElement
<1> HIDE DEF n
<1>4. e \in DOMAIN base => Carries(m, n, e, base[e])
  BY <1>1, <1>2 DEF Carries, Restorable, HiddenOrCleared
<1>5. QED BY <1>1, <1>3, <1>4 DEF Sync, k, n

\* A document with a dialog rendered is not idle; without one no dialog is open.
LEMMA IdleDocument ==
  ASSUME IInv, AriaFrame
  PROVE  /\ overlays > 0 <=> Phase(modality) # "idle"
         /\ overlays = 0 => managed = {} /\ modality.cleared = {} /\ DOMAIN baseline = {}
<1>1. overlays \in Nat /\ modality.scoped \in Nat /\ modality.pageModal \in Nat
      /\ overlays = modality.scoped + modality.pageModal
  BY Start DEF IInv, Types, Modality
<1>2. overlays > 0 <=> Phase(modality) # "idle"
  BY <1>1 DEF Phase
<1>3. ASSUME overlays = 0 PROVE managed = {}
  <2>1. ScopedDialogs = {} /\ PageBlockers = {}
    BY <1>1, <1>3, CountsAreHolders
  <2>2. \A d \in Dialog : role[d] = Nobody
    BY <2>1 DEF ScopedDialogs, PageBlockers, Holding, IInv, Types, Role
  <2>3. \A d \in Dialog : stage[d] # "open"
    BY <2>2 DEF IInv, RenderedHolds
  <2>4. QED BY <2>3 DEF AriaFrame
<1>4. QED BY <1>2, <1>3 DEF IInv, IdleIsClear, AriaFrame

IdleUnmanaged == overlays = 0 => managed = {}

LEMMA IdleIsUnmanaged == IInv /\ AriaFrame => IdleUnmanaged
BY IdleDocument DEF IdleUnmanaged

LEMMA OpenAria ==
  ASSUME IInv, IInv', AriaInv, NEW d \in Dialog, NEW root \in Root \cup {NoRoot},
         NEW scoped \in BOOLEAN, Open(d, root, scoped)
  PROVE  AriaInv'
<1> DEFINE base == IF overlays = 0 THEN AriaMap(modality, connected) ELSE baseline
           owns == scoped /\ root # NoRoot
           k == IF owns THEN [modality EXCEPT !.scoped = @ + 1]
                        ELSE [modality EXCEPT !.pageModal = @ + 1]
           n == Sync(k, base, connected)
<1>1. /\ IsBase(base) /\ modality.cleared \subseteq DOMAIN base
      /\ DOMAIN base \ strayed \subseteq connected /\ connected \in SUBSET Element
  BY Start DEF AriaMap, IsBase, IInv, IdleIsClear, Modality, AriaInv, AriaFrame
<1>2. /\ k \in Modality /\ k.cleared = modality.cleared /\ k.aria = modality.aria
      /\ Phase(k) # "idle"
  <2>1. /\ k \in Modality /\ k.cleared = modality.cleared /\ k.aria = modality.aria
        /\ modality.scoped \in Nat /\ modality.pageModal \in Nat
        /\ k.scoped = modality.scoped + (IF owns THEN 1 ELSE 0)
        /\ k.pageModal = modality.pageModal + (IF owns THEN 0 ELSE 1)
    BY Start DEF Modality
  <2> HIDE DEF k
  <2>2. QED BY <2>1 DEF Phase
<1>3. /\ managed = {} => modality' = HidePage(n, connected) /\ managerMap' = AriaMap(n, connected)
      /\ managed # {} => modality' = n /\ managerMap' = managerMap
      /\ baseline' = base /\ overlays' = overlays + 1 /\ managed' = managed \cup {d}
      /\ stage' = [stage EXCEPT ![d] = "open"] /\ settling' = TRUE
      /\ connected' = connected /\ owned' = owned /\ flipped' = flipped
      /\ strayed' = strayed
  BY DEF Open, RetainScoped, RetainPage
<1>4. n \in Modality /\ \A e \in Element \ strayed :
        /\ e \in DOMAIN base => Carries(k, n, e, base[e])
        /\ e \notin DOMAIN base => n.aria[e] = k.aria[e]
  <2>1. Coherent(k, owned.trap)
    BY Start DEF Modality, Coherent
  <2> HIDE DEF k, base, n
  <2>2. QED BY <1>1, <1>2, <2>1, Start, SyncCarries, SyncSettles DEF n
<1>5. managed = {} => \A e \in Element :
        /\ modality'.aria[e] = IF e \in connected THEN "true" ELSE n.aria[e]
        /\ e \in connected => e \in DOMAIN managerMap' /\ managerMap'[e] = n.aria[e]
        /\ e \notin connected => e \notin DOMAIN managerMap'
        /\ modality'.cleared = n.cleared
  <2> HIDE DEF n
  <2>1. QED BY <1>3, <1>4 DEF HidePage, AriaMap, Modality
<1>6. AriaFrame'
  <2>1. overlays' # 0 /\ stage \in [Dialog -> {"closed", "open", "leaving", "gone"}]
    BY <1>3 DEF IInv, Types
  <2>2. managed' = {x \in Dialog : stage'[x] = "open"}
    BY <1>3, <2>1 DEF AriaInv, AriaFrame
  <2>3. DOMAIN baseline' \ strayed' \subseteq DOMAIN managerMap'
    <3>1. CASE managed = {}
      BY <1>1, <1>3, <3>1 DEF AriaMap
    <3>2. CASE managed # {}
      BY <1>3, <3>2, IdleDocument DEF AriaInv, AriaFrame, IInv, Types
    <3>3. QED BY <3>1, <3>2
  <2>4. QED BY <1>1, <1>3, <2>1, <2>2, <2>3 DEF AriaFrame
<1>7. ASSUME ~flipped PROVE Elements'
  <2>1. Elements /\ managed' # {} /\ settling' /\ DOMAIN baseline \subseteq Element
    BY <1>3, <1>7 DEF AriaInv, IInv, Types
  <2>2. ASSUME NEW e \in DOMAIN base \ strayed PROVE Captured(e)'
    <3>1. e \in Element /\ Carries(k, n, e, base[e])
      BY <1>1, <1>4
    <3>2. CASE overlays = 0
      <4>1. managed = {} /\ e \notin DOMAIN baseline /\ e \in connected
            /\ base[e] = owned.aria[e] /\ modality.aria[e] = owned.aria[e]
        BY <2>1, <3>1, <3>2, <1>1, IdleDocument DEF AriaInv, Elements, Outside, AriaMap
      <4>2. n.aria[e] \in {owned.aria[e], "true"}
            /\ (n.aria[e] # owned.aria[e] => e \in n.cleared)
        <5> HIDE DEF base, k, n
        <5> QED BY <1>2, <3>1, <4>1 DEF Carries, Restorable
      <4> HIDE DEF base, k, n
      <4>3. QED BY <1>3, <1>5, <2>1, <3>1, <4>1, <4>2 DEF Captured, HiddenOrCleared
    <3>3. CASE overlays # 0 /\ managed = {}
      <4>1. base[e] = owned.aria[e] /\ Restorable(modality, e, owned.aria[e])
            /\ e \in connected
        BY <2>1, <3>3, <1>1 DEF Elements, Captured
      <4>2. Restorable(n, e, owned.aria[e])
        <5> HIDE DEF base, k, n
        <5> QED BY <1>2, <3>1, <4>1 DEF Carries, Restorable
      <4> HIDE DEF base, k, n
      <4>3. QED BY <1>3, <1>5, <2>1, <3>1, <3>3, <4>1, <4>2
                DEF Captured, HiddenOrCleared, Restorable
    <3>4. CASE overlays # 0 /\ managed # {}
      <4>1. /\ base[e] = owned.aria[e] /\ HiddenOrCleared(modality, e, owned.aria[e])
            /\ managerMap[e] \in {owned.aria[e], "true"}
            /\ managerMap[e] # owned.aria[e] => e \in modality.cleared
        BY <2>1, <3>4, <1>1 DEF Elements, Captured
      <4>2. HiddenOrCleared(n, e, owned.aria[e]) /\ (e \in modality.cleared => e \in n.cleared)
        <5> HIDE DEF base, k, n
        <5> QED BY <1>2, <3>1, <4>1 DEF Carries, HiddenOrCleared
      <4> HIDE DEF base, k, n
      <4>3. QED BY <1>3, <2>1, <3>4, <4>1, <4>2 DEF Captured
    <3>5. managed # {} => overlays # 0
      BY IdleDocument DEF AriaInv
    <3>6. QED BY <3>2, <3>3, <3>4, <3>5
  <2>3. ASSUME NEW e \in Element \ (DOMAIN base \cup strayed) PROVE Outside(e)'
    <3>1. n.aria[e] = modality.aria[e]
      BY <1>2, <1>4, <2>3
    <3>2. Outside(e)
      BY <2>1, <2>3, IdleDocument DEF Elements, AriaInv
    <3> HIDE DEF base, k, n
    <3>3. CASE managed = {}
      BY <1>3, <1>5, <2>1, <2>3, <3>1, <3>2, <3>3 DEF Outside
    <3>4. CASE managed # {}
      BY <1>3, <2>1, <2>3, <3>1, <3>2, <3>4 DEF Outside
    <3>5. QED BY <3>3, <3>4
  <2> HIDE DEF base
  <2>4. QED BY <1>3, <2>2, <2>3 DEF Elements
<1>8. QED BY <1>3, <1>6, <1>7 DEF AriaInv

LEMMA CloseAria ==
  ASSUME IInv, AriaInv, NEW d \in Dialog, Close(d)
  PROVE  AriaInv'
<1>1. /\ stage[d] = "open" /\ stage' = [stage EXCEPT ![d] = "leaving"]
      /\ managed' = managed \ {d} /\ overlays' = overlays /\ baseline' = baseline
      /\ settling' = settling /\ connected' = connected /\ owned' = owned
      /\ flipped' = flipped /\ strayed' = strayed
      /\ managed = {d} => modality' = RestorePage(modality, managerMap)
      /\ managed # {d} => modality' = modality /\ managerMap' = managerMap
  BY DEF Close
<1>2. d \in managed
  BY <1>1 DEF AriaInv, AriaFrame
<1>3. AriaFrame'
  <2>1. managed' = {x \in Dialog : stage'[x] = "open"}
    BY <1>1 DEF AriaInv, AriaFrame, IInv, Types
  <2>2. managed' # {} => managed # {} /\ managerMap' = managerMap
    BY <1>1, <1>2
  <2>3. QED BY <1>1, <2>1, <2>2 DEF AriaInv, AriaFrame
<1>4. ASSUME ~flipped PROVE Elements'
  <2>1. Elements /\ managed # {} /\ DOMAIN baseline \ strayed \subseteq DOMAIN managerMap
        /\ DOMAIN baseline \subseteq Element
    BY <1>2, <1>4 DEF AriaInv, AriaFrame, IInv, Types
  <2>2. CASE managed = {d}
    <3>1. managed' = {} /\ modality'.cleared = modality.cleared
          /\ \A e \in Element : modality'.aria[e] =
               IF e \in DOMAIN managerMap THEN managerMap[e] ELSE modality.aria[e]
      BY <1>1, <2>2, Start DEF RestorePage, Modality
    <3>2. ASSUME NEW e \in DOMAIN baseline \ strayed PROVE Captured(e)'
      BY <1>1, <2>1, <3>1 DEF Elements, Captured, Restorable
    <3>3. ASSUME NEW e \in Element \ (DOMAIN baseline \cup strayed) PROVE Outside(e)'
      BY <1>1, <2>1, <3>1 DEF Elements, Outside
    <3>4. QED BY <1>1, <3>2, <3>3 DEF Elements
  <2>3. CASE managed # {d}
    <3>1. managed' # {} /\ modality' = modality /\ managerMap' = managerMap
      BY <1>1, <1>2, <2>3
    <3>2. QED BY <1>1, <2>1, <3>1 DEF Elements, Captured, Outside, HiddenOrCleared
  <2>4. QED BY <2>2, <2>3
<1>5. QED BY <1>1, <1>3, <1>4 DEF AriaInv

LEMMA DestroyOverlayAria ==
  ASSUME IInv, IInv', AriaInv, NEW d \in Dialog, DestroyOverlay(d)
  PROVE  AriaInv'
<1> DEFINE k == IF role[d] = Page THEN [modality EXCEPT !.pageModal = @ - 1]
                                  ELSE [modality EXCEPT !.scoped = @ - 1]
           n == Sync(k, baseline, connected)
<1>1. /\ stage[d] = "leaving" /\ stage' = [stage EXCEPT ![d] = "gone"]
      /\ modality' = n /\ overlays' = overlays - 1
      /\ baseline' = (IF overlays = 1 THEN Empty ELSE baseline) /\ settling' = TRUE
      /\ managed' = managed /\ managerMap' = managerMap /\ connected' = connected
      /\ owned' = owned /\ flipped' = flipped /\ strayed' = strayed
  BY DEF DestroyOverlay, ReleasePage, ReleaseScoped
<1>2. /\ IsBase(baseline) /\ modality.cleared \subseteq DOMAIN baseline
      /\ DOMAIN baseline \ strayed \subseteq connected /\ connected \in SUBSET Element
      /\ DOMAIN baseline \subseteq Element
  BY Start DEF AriaInv, AriaFrame, IInv, Types
<1>3. /\ k \in Modality /\ k.cleared = modality.cleared /\ k.aria = modality.aria
      /\ Coherent(k, owned.trap)
      /\ k.scoped + k.pageModal = overlays - 1 /\ k.scoped \in Nat /\ k.pageModal \in Nat
  <2>1. /\ modality.scoped \in Nat /\ modality.pageModal \in Nat
        /\ role[d] = Page => modality.pageModal > 0
        /\ role[d] # Page => modality.scoped > 0
    <3>1. role[d] \in Root \cup {Page}
      BY <1>1 DEF IInv, Types, RenderedHolds, Role
    <3>2. QED BY <3>1, HolderCounted DEF IInv, Types, Modality
  <2>2. CASE role[d] = Page
    BY <2>1, <2>2, Start DEF Modality, Coherent
  <2>3. CASE role[d] # Page
    BY <2>1, <2>3, Start DEF Modality, Coherent
  <2>4. QED BY <2>2, <2>3
<1>4. \A e \in Element \ strayed :
        /\ e \in DOMAIN baseline => Carries(k, n, e, baseline[e])
        /\ e \notin DOMAIN baseline => n.aria[e] = modality.aria[e]
  <2> HIDE DEF k, n
  <2>1. QED BY <1>2, <1>3, Start, SyncCarries DEF n
<1>5. /\ overlays = 1 => Phase(k) = "idle"
      /\ overlays # 1 => Phase(k) # "idle"
  <2> HIDE DEF k
  <2>1. QED BY <1>3 DEF Phase, IInv, Types
<1>6. AriaFrame'
  <2>1. managed' = {x \in Dialog : stage'[x] = "open"}
    BY <1>1 DEF AriaInv, AriaFrame, IInv, Types
  <2>2. DOMAIN baseline' \subseteq DOMAIN baseline /\ (overlays' = 0 => DOMAIN baseline' = {})
    BY <1>1 DEF Empty, IInv, Types
  <2>3. QED BY <1>1, <2>1, <2>2 DEF AriaInv, AriaFrame
<1>7. ASSUME ~flipped PROVE Elements'
  <2>1. Elements
    BY <1>7 DEF AriaInv
  <2>2. CASE overlays = 1
    <3>1. overlays' = 0 /\ DOMAIN baseline' = {}
      BY <1>1, <2>2 DEF Empty
    <3>2. managed = {}
      <4>1. IInv' /\ AriaFrame' => IdleUnmanaged'
        BY IdleIsUnmanaged, PTL
      <4>2. QED BY <1>1, <1>6, <3>1, <4>1 DEF IdleUnmanaged
    <3>3. ASSUME NEW e \in Element \ strayed PROVE n.aria[e] = owned.aria[e]
      <4> HIDE DEF k, n
      <4>1. CASE e \in DOMAIN baseline
        BY <4>1, <1>3, <1>4, <1>5, <2>1, <2>2, <3>2
           DEF Elements, Captured, Carries, Restorable
      <4>2. CASE e \notin DOMAIN baseline
        BY <4>2, <1>4, <2>1, <3>2 DEF Elements, Outside
      <4>3. QED BY <4>1, <4>2
    <3> HIDE DEF n
    <3>4. QED BY <1>1, <3>1, <3>2, <3>3 DEF Elements, Outside
  <2>3. CASE overlays # 1
    <3>1. baseline' = baseline /\ strayed' = strayed
      BY <1>1, <2>3
    <3>2. ASSUME NEW e \in DOMAIN baseline \ strayed PROVE Captured(e)'
      <4>1. Captured(e) /\ Carries(k, n, e, owned.aria[e])
        BY <1>2, <1>4, <2>1 DEF Elements, Captured
      <4> HIDE DEF k, n
      <4>2. /\ Restorable(modality, e, owned.aria[e]) => Restorable(n, e, owned.aria[e])
            /\ HiddenOrCleared(modality, e, owned.aria[e])
                 => HiddenOrCleared(n, e, owned.aria[e])
            /\ e \in modality.cleared => e \in n.cleared
        BY <1>3, <1>5, <2>3, <4>1 DEF Carries, Restorable, HiddenOrCleared
      <4>3. QED BY <1>1, <3>1, <4>1, <4>2 DEF Captured
    <3>3. ASSUME NEW e \in Element \ (DOMAIN baseline \cup strayed) PROVE Outside(e)'
      <4> HIDE DEF k, n
      <4>1. QED BY <1>1, <1>4, <2>1, <3>3 DEF Elements, Outside
    <3>4. QED BY <3>1, <3>2, <3>3 DEF Elements
  <2>4. QED BY <2>2, <2>3
<1>8. QED BY <1>1, <1>6, <1>7 DEF AriaInv

\* A dialog that changes `scoped` is beyond the promise from then on.
LEMMA BecomeAria ==
  ASSUME IInv, AriaInv, NEW d \in Dialog, BecomeScoped(d) \/ BecomePageModal(d)
  PROVE  AriaInv'
BY DEF BecomeScoped, BecomePageModal, AriaInv, AriaFrame

LEMMA SettleAria == ASSUME IInv, AriaInv, Settle PROVE AriaInv'
<1> DEFINE n == ApplyAria(modality, baseline, connected)
<1>1. /\ modality' = n /\ settling' = FALSE
      /\ UNCHANGED <<stage, managed, managerMap, overlays, baseline, connected, owned, flipped,
                     strayed>>
  BY DEF Settle
<1>2. /\ IsBase(baseline) /\ modality.cleared \subseteq DOMAIN baseline
      /\ DOMAIN baseline \ strayed \subseteq connected /\ connected \in SUBSET Element
      /\ DOMAIN baseline \subseteq Element /\ modality \in Modality
  BY Start DEF AriaInv, AriaFrame, IInv, Types
<1>3. \A e \in Element \ strayed :
        /\ e \in DOMAIN baseline => Carries(modality, n, e, baseline[e])
        /\ e \notin DOMAIN baseline => n.aria[e] = modality.aria[e]
  BY <1>2, PassCarries, PassByElement
<1>4. AriaFrame'
  BY <1>1 DEF AriaInv, AriaFrame
<1>5. ASSUME ~flipped PROVE Elements'
  <2>1. Elements
    BY <1>5 DEF AriaInv
  <2>2. ASSUME NEW e \in DOMAIN baseline \ strayed PROVE Captured(e)'
    <3>1. Captured(e) /\ Carries(modality, n, e, owned.aria[e])
      BY <1>2, <1>3, <2>1 DEF Elements, Captured
    <3>2. Phase(modality) # "idle"
      BY IdleDocument DEF AriaInv, IInv, Types
    <3> HIDE DEF n
    <3>3. QED BY <1>1, <3>1, <3>2 DEF Captured, Carries
  <2>3. ASSUME NEW e \in Element \ (DOMAIN baseline \cup strayed) PROVE Outside(e)'
    <3> HIDE DEF n
    <3>1. QED BY <1>1, <1>3, <2>1, <2>3 DEF Elements, Outside
  <2>4. QED BY <1>1, <2>2, <2>3 DEF Elements
<1>6. QED BY <1>1, <1>4, <1>5 DEF AriaInv

LEMMA AttachAria == ASSUME IInv, AriaInv, NEW e \in Element, Attach(e) PROVE AriaInv'
BY DEF Attach, MoveElement, AriaInv, AriaFrame, Elements, Captured, Outside,
       HiddenOrCleared, Restorable, SettledFor, Phase

\* Without an overlay there is no baseline to leave; with one, the element that
\* leaves is beyond the promise.
LEMMA DetachAria == ASSUME IInv, AriaInv, NEW e \in Element, Detach(e) PROVE AriaInv'
<1>1. /\ connected' = connected \ {e}
      /\ strayed' = IF overlays > 0 THEN strayed \cup {e} ELSE strayed
      /\ UNCHANGED <<stage, managed, managerMap, overlays, baseline, modality, settling,
                     owned, flipped>>
  BY DEF Detach, MoveElement
<1>2. overlays > 0 \/ DOMAIN baseline = {}
  BY DEF AriaInv, AriaFrame, IInv, Types
<1>3. AriaFrame'
  BY <1>1, <1>2 DEF AriaInv, AriaFrame
<1>4. ASSUME ~flipped PROVE Elements'
  BY <1>1, <1>4 DEF AriaInv, Elements, Captured, Outside, HiddenOrCleared, Restorable,
                    SettledFor, Phase
<1>5. QED BY <1>1, <1>3, <1>4 DEF AriaInv

LEMMA NextAria == IInv /\ IInv' /\ AriaInv /\ [Next]_vars => AriaInv'
<1> SUFFICES ASSUME IInv, IInv', AriaInv, [Next]_vars PROVE AriaInv' OBVIOUS
<1>1. ASSUME NEW d \in Dialog, NEW root \in Root \cup {NoRoot}, NEW scoped \in BOOLEAN,
             Open(d, root, scoped)
      PROVE  AriaInv'
  BY <1>1, OpenAria
<1>2. ASSUME NEW d \in Dialog, Close(d) PROVE AriaInv'
  BY <1>2, CloseAria
<1>3. ASSUME NEW d \in Dialog, DestroyOverlay(d) PROVE AriaInv'
  BY <1>3, DestroyOverlayAria
<1>4. ASSUME NEW d \in Dialog, BecomeScoped(d) \/ BecomePageModal(d) PROVE AriaInv'
  BY <1>4, BecomeAria
<1>5. ASSUME Settle PROVE AriaInv'
  BY <1>5, SettleAria
<1>6. ASSUME NEW e \in Element, Attach(e) \/ Detach(e) PROVE AriaInv'
  BY <1>6, AttachAria, DetachAria
<1>7. ASSUME UNCHANGED vars PROVE AriaInv'
  BY <1>7 DEF vars, AriaInv, AriaFrame, Elements, Captured, Outside, HiddenOrCleared,
              Restorable, SettledFor, Phase
<1>8. QED BY <1>1, <1>2, <1>3, <1>4, <1>5, <1>6, <1>7 DEF Next

LEMMA InitAria == Init => AriaInv
BY DEF Init, AriaInv, AriaFrame, Elements, Outside, Empty

\* The attributes of every element stay restorable, in every reachable state.
THEOREM AriaInvHolds == Spec => []AriaInv
<1>1. Init => AriaInv
  BY InitAria
<1>2. IInv /\ IInv' /\ AriaInv /\ [Next]_vars => AriaInv'
  BY NextAria
<1>3. QED BY <1>1, <1>2, IInvHolds, PTL DEF Spec

\* With no overlay rendered every child of the body reads as the page set it,
\* whatever dialogs were opened and closed in whatever order.
THEOREM NothingIsLeftBehind == Spec => []NothingOpenNothingChanged
<1>1. ASSUME IInv, AriaInv PROVE NothingOpenNothingChanged
  <2>1. SUFFICES ASSUME overlays = 0, ~flipped, NEW e \in Element \ strayed
                 PROVE  modality.aria[e] = owned.aria[e]
    BY DEF NothingOpenNothingChanged
  <2>2. managed = {} /\ DOMAIN baseline = {} /\ Elements
    BY <1>1, <2>1, IdleDocument DEF AriaInv
  <2>3. QED BY <2>2 DEF Elements, Outside
<1>2. IInv /\ AriaInv => NothingOpenNothingChanged
  BY <1>1
<1>3. QED BY <1>2, IInvHolds, AriaInvHolds, PTL

\* A page-blocking dialog hides the page and scoped ones alone expose it, once
\* the microtask has run.
THEOREM PageFollows == Spec => []PageFollowsOpenDialogs
<1>1. ASSUME IInv, AriaInv PROVE PageFollowsOpenDialogs
  <2>1. \A d \in Dialog : stage[d] = "open" => managed # {}
    BY <1>1 DEF AriaInv, AriaFrame
  <2>2. PageBlockers \subseteq Dialog /\ ScopedDialogs \subseteq Dialog
    BY DEF PageBlockers, Holding, ScopedDialogs
  <2>3. /\ PageBlockers # {} => Phase(modality) = "blocked"
        /\ PageBlockers = {} /\ ScopedDialogs # {} => Phase(modality) = "scoped"
    BY <1>1, CountsAreHolders DEF Phase
  <2>4. ASSUME ~flipped, ~settling, managed # {}, NEW e \in DOMAIN baseline \ strayed
        PROVE  SettledFor(modality, e, owned.aria[e])
    BY <1>1, <2>4 DEF AriaInv, Elements, Captured
  <2>5. QED BY <2>1, <2>2, <2>3, <2>4 DEF PageFollowsOpenDialogs, PageIsHidden, SettledFor
<1>2. IInv /\ AriaInv => PageFollowsOpenDialogs
  BY <1>1
<1>3. QED BY <1>2, IInvHolds, AriaInvHolds, PTL
=============================================================================
