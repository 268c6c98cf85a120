------------------------ MODULE SearchResourceProofs ------------------------
(***************************************************************************)
(* Proofs about SearchResource, for any queries, collections and number of *)
(* changes: only the active dispatch is live, a cleared resource stays     *)
(* empty, a resource at rest shows its current inputs, and the resource    *)
(* implements LatestWins.                                                  *)
(*                                                                         *)
(* The three promises hold together because of what ties the fields to     *)
(* each other: what is shown is a function of the controller and of what   *)
(* is settled (ShownIsDerived), dispatches start in the order of making    *)
(* (InOrder), timer and controller exclude each other, and the dispatch    *)
(* last made is the one for the observed inputs (AskedForObserved).        *)
(***************************************************************************)
EXTENDS SearchResource, TLAPS

\* What the resource shows follows from the controller and what it settled on.
ShownIsDerived ==
  /\ controller # None => shown.status = "loading" /\ shown.error = None
  /\ controller = None => shown.status = settled.status /\ shown.error = settled.error
  /\ settled.status = "success" <=> shown.items # None
  /\ settled.status = "error" <=> settled.error # None

\* The controller's dispatch is not aborted, and no other waits unaborted.
OneSignal ==
  /\ OnlyActiveIsLive
  /\ controller \notin aborted
  /\ timer = None \/ controller = None

\* Numbers are given out in order, and a dispatch on the timer is the newest.
InOrder ==
  /\ \A d, e \in Dispatch : e < d /\ place[d] # "unmade" => place[e] # "unmade"
  /\ timer # None => \A e \in Dispatch : place[e] \in {"waiting", "answered"} => e < timer

\* A cleared resource has forgotten what it settled on and stopped its work.
ClearedIsStopped == cleared => stopped /\ settled = [status |-> "idle", error |-> None]

ShownFrom(d) ==
  shown \in {[status |-> "success", error |-> None, items |-> d],
             [status |-> "error", error |-> d, items |-> None]}

\* Unless it was stopped, the resource works on, or shows the outcome of, a
\* dispatch for the inputs it last observed; and those are the current ones
\* unless the effect is about to run.
AskedForObserved ==
  /\ ~changed => observed = Current
  /\ ~stopped /\ observed # Unobserved =>
       \E d \in Dispatch :
         /\ snapshot[d] = observed
         /\ \/ timer = d
            \/ controller = d
            \/ Quiet /\ place[d] = "answered" /\ ShownFrom(d)

IInv ==
  /\ TypeOK
  /\ ShownIsDerived
  /\ OneSignal
  /\ InOrder
  /\ ClearedStaysEmpty
  /\ ClearedIsStopped
  /\ AskedForObserved

-----------------------------------------------------------------------------

LEMMA NumbersArePositive ==
  /\ None \notin Dispatch
  /\ Dispatch \subseteq Nat
BY SearchAssumption DEF None, Dispatch

LEMMA CurrentIsSnapshot ==
  ASSUME TypeOK
  PROVE  /\ Current \in Snapshot
         /\ \A q \in Query : SnapshotOf(q) \in Snapshot /\ SnapshotOf(q) # Unobserved
BY UndefinedAssumption DEF TypeOK, Current, SnapshotOf, Snapshot, Unobserved

LEMMA InitInv == Init => IInv
<1> SUFFICES ASSUME Init PROVE IInv OBVIOUS
<1>1. TypeOK
  <2>1. Unobserved \in Snapshot
    BY DEF Unobserved, Snapshot
  <2>2. /\ settled \in [status : {"idle", "success", "error"}, error : MaybeDispatch]
        /\ shown \in [status : {"idle", "loading", "success", "error"},
                      error : MaybeDispatch, items : MaybeDispatch]
    BY DEF Init, MaybeDispatch
  <2>3. changes \in 0 .. MaxChanges
    BY SearchAssumption DEF Init
  <2>4. QED BY <2>1, <2>2, <2>3 DEF Init, TypeOK
<1>2. /\ ShownIsDerived /\ OneSignal /\ InOrder
      /\ ClearedStaysEmpty /\ ClearedIsStopped /\ AskedForObserved
  BY DEF Init, ShownIsDerived, OneSignal, OnlyActiveIsLive, InOrder,
     ClearedStaysEmpty, ClearedIsStopped, AskedForObserved
<1>3. QED BY <1>1, <1>2 DEF IInv

-----------------------------------------------------------------------------
(* The lifecycle's steps keep what concerns the lifecycle. *)

LifecycleOK ==
  /\ timer \in {d \in Dispatch : place[d] = "made"} \cup {None}
  /\ controller \in {d \in Dispatch : place[d] = "waiting"} \cup {None}
  /\ aborted \in SUBSET {d \in Dispatch : place[d] \in {"waiting", "answered"}}
  /\ place \in [Dispatch -> {"unmade", "made", "waiting", "answered"}]
  /\ OneSignal
  /\ InOrder

LEMMA StopWorkKeeps ==
  ASSUME IInv, StopWork
  PROVE  LifecycleOK'
BY NumbersArePositive DEF IInv, TypeOK, StopWork, AbortActive, LifecycleOK, OneSignal,
   OnlyActiveIsLive, InOrder

LEMMA ScheduleKeeps ==
  ASSUME IInv, NEW d \in Dispatch, IsNext(d), Schedule(d)
  PROVE  /\ LifecycleOK'
         /\ ShownIsDerived'
<1>1. /\ \A e \in Dispatch : place[e] \in {"waiting", "answered"} => e < d
      /\ place[d] = "unmade"
      /\ \A e \in Dispatch : e < d => place[e] # "unmade"
  BY NumbersArePositive DEF IInv, TypeOK, InOrder, IsNext
<1>2. ShownIsDerived'
  BY NumbersArePositive DEF IInv, TypeOK, Schedule, OnSettled, ShownIsDerived
<1>3. /\ timer' = d /\ controller' = None /\ aborted' = aborted \cup ({controller} \ {None})
      /\ \A e \in Dispatch : place'[e] = IF e = d THEN "made" ELSE place[e]
      /\ place' \in [Dispatch -> {"unmade", "made", "waiting", "answered"}]
  BY DEF IInv, TypeOK, Schedule, AbortActive
<1>4. OneSignal'
  BY <1>1, <1>3, NumbersArePositive DEF IInv, TypeOK, OneSignal, OnlyActiveIsLive
<1>5. InOrder'
  BY <1>1, <1>3, NumbersArePositive DEF IInv, TypeOK, InOrder
<1>6. LifecycleOK'
  BY <1>1, <1>3, <1>4, <1>5 DEF IInv, TypeOK, LifecycleOK
<1>7. QED BY <1>2, <1>6

LEMMA RunKeeps ==
  ASSUME IInv, NEW d \in Dispatch, IsNext(d) \/ timer = d, Run(d)
  PROVE  /\ LifecycleOK'
         /\ ShownIsDerived'
<1>1. /\ \A e \in Dispatch : place[e] \in {"waiting", "answered"} => e < d
      /\ place[d] \in {"unmade", "made"}
      /\ \A e \in Dispatch : e < d => place[e] # "unmade"
  BY NumbersArePositive DEF IInv, TypeOK, InOrder, IsNext
<1>2. LifecycleOK'
  BY <1>1, NumbersArePositive DEF IInv, TypeOK, Run, AbortActive, LifecycleOK, OneSignal,
     OnlyActiveIsLive, InOrder
<1>3. ShownIsDerived'
  BY NumbersArePositive DEF IInv, TypeOK, Run, ShownIsDerived
<1>4. QED BY <1>2, <1>3

-----------------------------------------------------------------------------
(* One lemma per action. *)

LEMMA ChangeInv ==
  ASSUME IInv, Change, query' \in Query, items' \in Items
  PROVE  IInv'
<1>1. TypeOK'
  BY SearchAssumption DEF IInv, TypeOK, Change, lifecycle, result
<1>2. QED
  BY <1>1 DEF IInv, Change, lifecycle, result, ShownIsDerived, OneSignal, OnlyActiveIsLive,
     InOrder, ClearedStaysEmpty, ClearedIsStopped, AskedForObserved, Quiet, ShownFrom

LEMMA EffectIgnoresInv == ASSUME IInv, EffectIgnores PROVE IInv'
<1>1. TypeOK'
  BY CurrentIsSnapshot DEF IInv, TypeOK, EffectIgnores, lifecycle, result
<1>2. Current' = Current
  BY DEF EffectIgnores, Current, SnapshotOf
<1>3. AskedForObserved'
  <2>1. observed # Current => stopped
    BY DEF IInv, EffectIgnores, Ignores, ClearedIsStopped
  <2>2. QED
    BY <1>2, <2>1 DEF IInv, EffectIgnores, lifecycle, result, AskedForObserved, Quiet, ShownFrom
<1>4. QED
  BY <1>1, <1>3 DEF IInv, EffectIgnores, lifecycle, result, ShownIsDerived, OneSignal,
     OnlyActiveIsLive, InOrder, ClearedStaysEmpty, ClearedIsStopped

\* A dispatch was made for the current inputs and scheduled or run.
LEMMA AskedInv ==
  ASSUME IInv, NEW d \in Dispatch, cleared' = FALSE, stopped' = FALSE, Current' = Current,
         observed' = Current, snapshot' = [snapshot EXCEPT ![d] = Current],
         timer' = d \/ controller' = d, TypeOK', LifecycleOK', ShownIsDerived'
  PROVE  IInv'
<1>1. snapshot'[d] = Current
  BY DEF IInv, TypeOK
<1>2. AskedForObserved'
  BY <1>1 DEF AskedForObserved
<1>3. QED
  BY <1>2 DEF IInv, LifecycleOK, ClearedStaysEmpty, ClearedIsStopped

LEMMA EffectDispatchesInv ==
  ASSUME IInv, NEW d \in Dispatch, EffectDispatches(d)
  PROVE  IInv'
<1>1. LifecycleOK' /\ ShownIsDerived' /\ (timer' = d \/ controller' = d)
  BY ScheduleKeeps, RunKeeps DEF EffectDispatches, Schedule, Run
<1>2. Current' = Current
  BY DEF EffectDispatches, Current, SnapshotOf
<1>3. settled' = settled /\ shown' \in [status : {"idle", "loading", "success", "error"},
                                       error : MaybeDispatch, items : MaybeDispatch]
  BY DEF IInv, TypeOK, EffectDispatches, Schedule, Run, OnSettled, None, MaybeDispatch
<1>4. TypeOK'
  BY <1>1, <1>3, CurrentIsSnapshot DEF IInv, TypeOK, LifecycleOK, EffectDispatches
<1>5. QED
  BY <1>1, <1>2, <1>4, AskedInv DEF EffectDispatches

LEMMA RefreshInv ==
  ASSUME IInv, NEW d \in Dispatch, Refresh(d)
  PROVE  IInv'
<1>1. LifecycleOK' /\ ShownIsDerived' /\ controller' = d
  BY RunKeeps DEF Refresh, Run
<1>2. Current' = Current
  BY DEF Refresh, Current, SnapshotOf
<1>3. settled' = settled /\ shown' \in [status : {"idle", "loading", "success", "error"},
                                       error : MaybeDispatch, items : MaybeDispatch]
  BY DEF IInv, TypeOK, Refresh, Run, None, MaybeDispatch
<1>4. TypeOK'
  <2>1. changes' \in 0 .. MaxChanges
    BY SearchAssumption DEF IInv, TypeOK, Refresh
  <2>2. QED
    BY <1>1, <1>3, <2>1, CurrentIsSnapshot DEF IInv, TypeOK, LifecycleOK, Refresh
<1>5. QED
  BY <1>1, <1>2, <1>4, AskedInv DEF Refresh

LEMMA TimerFiresInv == ASSUME IInv, TimerFires PROVE IInv'
<1>1. timer \in Dispatch
  BY DEF IInv, TypeOK, TimerFires
<1>2. LifecycleOK' /\ ShownIsDerived' /\ controller' = timer
  BY <1>1, RunKeeps DEF TimerFires, Run
<1>3. settled' = settled /\ shown' \in [status : {"idle", "loading", "success", "error"},
                                       error : MaybeDispatch, items : MaybeDispatch]
  BY DEF IInv, TypeOK, TimerFires, Run, None, MaybeDispatch
<1>4. TypeOK'
  BY <1>2, <1>3 DEF IInv, TypeOK, LifecycleOK, TimerFires, inputs
<1>5. ~cleared
  BY DEF IInv, TimerFires, ClearedStaysEmpty
<1>6. AskedForObserved'
  <2>1. Current' = Current
    BY DEF TimerFires, inputs, Current, SnapshotOf
  <2>2. ~stopped /\ observed # Unobserved => snapshot[timer] = observed
    BY <1>1, NumbersArePositive DEF IInv, OneSignal, AskedForObserved, Quiet, TimerFires
  <2>3. QED
    BY <1>1, <1>2, <2>1, <2>2 DEF IInv, TimerFires, inputs, AskedForObserved
<1>7. QED
  BY <1>2, <1>4, <1>5, <1>6 DEF IInv, LifecycleOK, TimerFires, ClearedStaysEmpty, ClearedIsStopped

LEMMA AnswerInv ==
  ASSUME IInv, NEW d \in Dispatch, NEW status \in {"success", "error"}, Answer(d, status)
  PROVE  IInv'
<1>1. Current' = Current
  BY DEF Answer, inputs, Current, SnapshotOf
<1>2. LifecycleOK'
  BY NumbersArePositive DEF IInv, TypeOK, Answer, IsActive, Publish, LifecycleOK, OneSignal,
     OnlyActiveIsLive, InOrder
<1>3. CASE IsActive(d)
  <2>1. /\ controller = d /\ controller' = None /\ timer' = timer /\ timer = None
        /\ settled' = [status |-> status, error |-> IF status = "error" THEN d ELSE None]
        /\ shown' = [status |-> status, error |-> IF status = "error" THEN d ELSE None,
                     items |-> IF status = "success" THEN d ELSE None]
    BY <1>3, NumbersArePositive DEF IInv, OneSignal, Answer, IsActive, Publish
  <2>2. TypeOK'
    BY <2>1, <1>2 DEF IInv, TypeOK, LifecycleOK, Answer, inputs, MaybeDispatch
  <2>3. ShownIsDerived'
    BY <2>1, NumbersArePositive DEF ShownIsDerived
  <2>4. ~cleared
    BY <2>1, NumbersArePositive DEF IInv, ClearedStaysEmpty
  <2>5. AskedForObserved'
    <3>1. ShownFrom(d)' /\ Quiet' /\ place'[d] = "answered"
      BY <2>1 DEF ShownFrom, Quiet, Answer, IInv, TypeOK
    <3>2. ~stopped /\ observed # Unobserved => snapshot[d] = observed
      BY <2>1, NumbersArePositive DEF IInv, AskedForObserved, Quiet
    <3>3. QED
      BY <1>1, <3>1, <3>2 DEF IInv, AskedForObserved, Answer, inputs
  <2>6. QED
    BY <1>2, <2>2, <2>3, <2>4, <2>5 DEF IInv, LifecycleOK, Answer, ClearedStaysEmpty, ClearedIsStopped
<1>4. CASE ~IsActive(d)
  <2>1. UNCHANGED <<controller, timer, settled, shown, cleared, stopped, changed, observed, snapshot>>
    BY <1>4 DEF Answer, result, inputs
  <2>2. TypeOK'
    BY <2>1, <1>2 DEF IInv, TypeOK, LifecycleOK, Answer, inputs
  <2>3. AskedForObserved'
    <3>1. \A e \in Dispatch : place[e] = "answered" => place'[e] = "answered"
      BY DEF Answer, IInv, TypeOK
    <3>2. QED BY <1>1, <2>1, <3>1 DEF IInv, AskedForObserved, Quiet, ShownFrom
  <2>4. QED
    BY <1>2, <2>1, <2>2, <2>3 DEF IInv, LifecycleOK, ShownIsDerived, ClearedStaysEmpty, ClearedIsStopped
<1>5. QED BY <1>3, <1>4

\* Cancel and destruction: what was settled is shown again.
LEMMA SettledAgain ==
  ASSUME IInv, StopWork, shown' = OnSettled(shown), settled' = settled
  PROVE  /\ ShownIsDerived'
         /\ shown' \in [status : {"idle", "loading", "success", "error"},
                        error : MaybeDispatch, items : MaybeDispatch]
         /\ ClearedStaysEmpty /\ cleared' = cleared => ClearedStaysEmpty'
BY NumbersArePositive DEF IInv, TypeOK, StopWork, OnSettled, ShownIsDerived, ClearedStaysEmpty,
   ClearedIsStopped

LEMMA CancelInv == ASSUME IInv, Cancel PROVE IInv'
<1>1. LifecycleOK' /\ ShownIsDerived' /\ ClearedStaysEmpty'
  BY StopWorkKeeps, SettledAgain DEF Cancel, IInv
<1>2. TypeOK'
  BY <1>1, SettledAgain, CurrentIsSnapshot DEF IInv, TypeOK, LifecycleOK, Cancel, inputs
<1>3. Current' = Current
  BY DEF Cancel, inputs, Current, SnapshotOf
<1>4. QED
  BY <1>1, <1>2, <1>3 DEF IInv, LifecycleOK, Cancel, inputs, ClearedIsStopped, AskedForObserved

LEMMA DestroyInv == ASSUME IInv, Destroy PROVE IInv'
<1>1. LifecycleOK' /\ ShownIsDerived' /\ ClearedStaysEmpty'
  BY StopWorkKeeps, SettledAgain DEF Destroy, IInv
<1>2. TypeOK'
  BY <1>1, SettledAgain DEF IInv, TypeOK, LifecycleOK, Destroy
<1>3. Current' = Current
  BY DEF Destroy, Current, SnapshotOf
<1>4. QED
  BY <1>1, <1>2, <1>3 DEF IInv, LifecycleOK, Destroy, ClearedIsStopped, AskedForObserved

LEMMA ForgetInv ==
  ASSUME IInv, NEW q \in Query, Forget(q), query' = q, changed' \in BOOLEAN
  PROVE  IInv'
<1>1. LifecycleOK'
  BY StopWorkKeeps DEF Forget
<1>2. Current' = SnapshotOf(q)
  BY DEF Forget, Current, SnapshotOf
<1>3. TypeOK'
  BY <1>1, CurrentIsSnapshot DEF IInv, TypeOK, LifecycleOK, Forget, MaybeDispatch
<1>4. ShownIsDerived' /\ ClearedStaysEmpty' /\ ClearedIsStopped'
  BY DEF Forget, StopWork, ShownIsDerived, ClearedStaysEmpty, ClearedIsStopped
<1>5. AskedForObserved'
  BY <1>2 DEF Forget, AskedForObserved
<1>6. QED BY <1>1, <1>3, <1>4, <1>5 DEF IInv, LifecycleOK

\* Every step keeps the invariant.
LEMMA StepInv == ASSUME IInv, [Next]_vars PROVE IInv'
<1>1. CASE \E q \in Query : SetQuery(q)
  BY <1>1, ChangeInv DEF SetQuery, IInv, TypeOK
<1>2. CASE \E i \in Items : SetItems(i)
  BY <1>2, ChangeInv DEF SetItems, IInv, TypeOK
<1>3. CASE ClearResults
  BY <1>3, ForgetInv DEF ClearResults, IInv, TypeOK
<1>4. CASE Reset
  BY <1>4, ForgetInv, SearchAssumption DEF Reset, IInv, TypeOK
<1>5. CASE UNCHANGED vars
  BY <1>5 DEF vars, inputs, lifecycle, result, IInv, TypeOK, ShownIsDerived, OneSignal,
     OnlyActiveIsLive, InOrder, ClearedStaysEmpty, ClearedIsStopped, AskedForObserved,
     Current, SnapshotOf, Quiet, ShownFrom
<1>6. QED
  BY <1>1, <1>2, <1>3, <1>4, <1>5, EffectIgnoresInv, TimerFiresInv, EffectDispatchesInv,
     RefreshInv, AnswerInv, CancelInv, DestroyInv DEF Next

\* The inductive invariant holds in every reachable state.
THEOREM IInvHolds == Spec => []IInv
<1>1. Init => IInv
  BY InitInv
<1>2. IInv /\ [Next]_vars => IInv'
  BY StepInv
<1>3. QED BY <1>1, <1>2, PTL DEF Spec

\* The resource and its lifecycle keep their types: a timer runs a dispatch
\* that was made, a controller belongs to one that waits.
THEOREM TypeCorrect == Spec => []TypeOK
<1>1. IInv => TypeOK
  BY DEF IInv
<1>2. QED BY <1>1, IInvHolds, PTL

\* However dispatches are superseded and stopped, the only one that waits with
\* a live signal is the one whose answer is wanted.
THEOREM LiveIsActive == Spec => []OnlyActiveIsLive
<1>1. IInv => OnlyActiveIsLive
  BY DEF IInv, OneSignal
<1>2. QED BY <1>1, IInvHolds, PTL

\* A cleared resource stays empty until a new query or a refresh.
THEOREM ClearedIsEmpty == Spec => []ClearedStaysEmpty
<1>1. IInv => ClearedStaysEmpty
  BY DEF IInv
<1>2. QED BY <1>1, IInvHolds, PTL

\* At rest and not stopped, the resource shows the outcome for the inputs of
\* this moment.
THEOREM RestIsCurrent == Spec => []RestShowsCurrentInputs
<1>1. ASSUME IInv PROVE RestShowsCurrentInputs
  <2>1. Current # Unobserved
    <3>1. TypeOK /\ query \in Query
      BY <1>1 DEF IInv, TypeOK
    <3>2. QED BY <3>1, CurrentIsSnapshot DEF Current
  <2>2. SUFFICES ASSUME Quiet, ~changed, ~stopped
                 PROVE  \E d \in Dispatch :
                          place[d] = "answered" /\ snapshot[d] = Current /\ ShownFrom(d)
    BY DEF RestShowsCurrentInputs, ShownFrom
  <2>3. observed = Current
    BY <1>1, <2>2 DEF IInv, AskedForObserved
  <2>4. PICK d \in Dispatch :
          /\ snapshot[d] = observed
          /\ timer = d \/ controller = d \/ (place[d] = "answered" /\ ShownFrom(d))
    BY <1>1, <2>1, <2>2, <2>3 DEF IInv, AskedForObserved
  <2>5. timer # d /\ controller # d
    BY <2>2, NumbersArePositive DEF Quiet
  <2>6. QED BY <2>3, <2>4, <2>5
<1>2. IInv => RestShowsCurrentInputs
  BY <1>1
<1>3. QED BY <1>2, IInvHolds, PTL

-----------------------------------------------------------------------------
(* Refinement. *)

LEMMA InitRefines == Init => Contract!Init
BY DEF Init, Contract!Init, Contract!View, Contract!Idle

\* Every step of the resource is one of LatestWins or stutters.
LEMMA StepRefines ==
  ASSUME IInv, IInv', [Next]_vars
  PROVE  [Contract!Next]_(Contract!vars)
<1> DEFINE Started == {d \in Dispatch : place[d] \in {"waiting", "answered"}}
           Outcome == [kind |-> settled.status,
                       by |-> IF settled.status = "success" THEN shown.items ELSE settled.error]
<1>1. shown' = Contract!View(controller', Outcome')
  BY DEF IInv, TypeOK, ShownIsDerived, Contract!View
<1>2. ASSUME UNCHANGED <<place, controller, settled, shown>>
      PROVE  UNCHANGED Contract!vars
  BY <1>2 DEF Contract!vars
<1>3. ASSUME NEW d \in Dispatch, Run(d), IsNext(d) \/ timer = d
      PROVE  Contract!Next
  <2>1. \A e \in Started : e < d
    BY <1>3, NumbersArePositive DEF IInv, InOrder, IsNext
  <2>2. Started' = Started \cup {d} /\ controller' = d /\ Outcome' = Outcome
    BY <1>3 DEF Run, IInv, TypeOK
  <2>3. Contract!Start(d)
    BY <1>1, <2>1, <2>2 DEF Contract!Start
  <2>4. QED BY <2>3 DEF Contract!Next
<1>4. ASSUME controller' = None, Started' = Started, Outcome' = Outcome
      PROVE  Contract!Next
  <2>1. Contract!Stop
    BY <1>1, <1>4 DEF Contract!Stop
  <2>2. QED BY <2>1 DEF Contract!Next
<1>5. ASSUME StopWork, shown' = OnSettled(shown), settled' = settled
      PROVE  Contract!Next
  <2>1. shown'.items = shown.items
    BY <1>5 DEF OnSettled, IInv, TypeOK
  <2>2. QED BY <1>4, <1>5, <2>1 DEF StopWork
<1>6. ASSUME NEW q, Forget(q)
      PROVE  Contract!Next
  <2>1. Outcome' = Contract!Idle /\ controller' = None /\ Started' = Started
    BY <1>6 DEF Forget, StopWork, Contract!Idle
  <2>2. Contract!Clear
    BY <1>1, <2>1 DEF Contract!Clear
  <2>3. QED BY <2>2 DEF Contract!Next
<1>7. CASE \E d \in Dispatch : EffectDispatches(d)
  <2>1. PICK d \in Dispatch : EffectDispatches(d)
    BY <1>7
  <2>2. CASE Run(d)
    BY <1>3, <2>1, <2>2 DEF EffectDispatches
  <2>3. CASE Schedule(d)
    <3>1. Started' = Started /\ controller' = None /\ settled' = settled
      BY <2>1, <2>3 DEF EffectDispatches, IsNext, Schedule, IInv, TypeOK
    <3>2. shown'.items = shown.items
      BY <2>3 DEF Schedule, OnSettled, IInv, TypeOK
    <3>3. QED BY <1>4, <3>1, <3>2
  <2>4. QED BY <2>1, <2>2, <2>3 DEF EffectDispatches
<1>8. CASE TimerFires
  BY <1>3, <1>8 DEF TimerFires, IInv, TypeOK
<1>9. CASE \E d \in Dispatch : Refresh(d)
  BY <1>3, <1>9 DEF Refresh
<1>10. CASE \E d \in Dispatch, status \in {"success", "error"} : Answer(d, status)
  <2>1. PICK d \in Dispatch, status \in {"success", "error"} : Answer(d, status)
    BY <1>10
  <2>2. Started' = Started
    BY <2>1 DEF Answer, IInv, TypeOK
  <2>3. CASE IsActive(d)
    <3>1. /\ controller = d /\ controller # None /\ controller' = None
          /\ Outcome' = [kind |-> status, by |-> d]
      BY <2>1, <2>3, NumbersArePositive DEF Answer, IsActive, Publish
    <3>2. Contract!Publish(status)
      BY <1>1, <2>2, <3>1 DEF Contract!Publish
    <3>3. QED BY <3>2 DEF Contract!Next
  <2>4. CASE ~IsActive(d)
    BY <2>1, <2>2, <2>4 DEF Answer, result, Contract!vars
  <2>5. QED BY <2>3, <2>4
<1>11. CASE Cancel \/ Destroy
  BY <1>5, <1>11 DEF Cancel, Destroy
<1>12. CASE ClearResults \/ Reset
  BY <1>6, <1>12 DEF ClearResults, Reset
<1>13. CASE EffectIgnores \/ (\E q \in Query : SetQuery(q)) \/ (\E i \in Items : SetItems(i))
  BY <1>2, <1>13 DEF EffectIgnores, SetQuery, SetItems, Change, lifecycle, result
<1>14. CASE UNCHANGED vars
  BY <1>2, <1>14 DEF vars, lifecycle, result
<1>15. QED
  BY <1>7, <1>8, <1>9, <1>10, <1>11, <1>12, <1>13, <1>14 DEF Next

\* The resource implements LatestWins: at most one dispatch is wanted, only its
\* outcome is published, and what is shown is a function of both.
THEOREM ImplementsLatestWins == Spec => FollowsLatestWins
<1>1. Init => Contract!Init
  BY InitRefines
<1>2. IInv /\ IInv' /\ [Next]_vars => [Contract!Next]_(Contract!vars)
  BY StepRefines
<1>3. QED
  BY <1>1, <1>2, IInvHolds, PTL DEF Spec, FollowsLatestWins, Contract!Spec
=============================================================================
