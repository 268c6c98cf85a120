--------------------------- MODULE SearchResource ---------------------------
(***************************************************************************)
(* A Search Resource (core/search-resource.ts) over the debounce,          *)
(* cancellation and stale-result lifecycle it owns                         *)
(* (internal/core/async-resource-lifecycle.ts).                            *)
(*                                                                         *)
(* The caller writes the query and, for a local resource, the collection;  *)
(* an effect notices later.  refresh, cancel, clearResults and reset may   *)
(* come before the effect, in the debounce window, while a source works,   *)
(* or after the resource was destroyed, and the source may answer a        *)
(* dispatch nobody wants any more.                                         *)
(*                                                                         *)
(* A dispatch is the closure made for one snapshot of the inputs, numbered *)
(* in the order of making.  The code's generation number changes with its  *)
(* controller and never without it while a dispatch is active, so the      *)
(* controller (here the dispatch it belongs to) decides alone.             *)
(***************************************************************************)
EXTENDS Naturals

CONSTANTS
  Query,      \* the queries a user may type
  Empty,      \* the empty query
  Items,      \* the collections a local resource may be given
  MaxChanges  \* bound on changes of the inputs and calls of refresh

ASSUME SearchAssumption == MaxChanges \in Nat /\ Empty \in Query

None == 0
Dispatch == 1 .. MaxChanges + 1
MaybeDispatch == Dispatch \cup {None}

Undefined == "undefined"
Unobserved == [query |-> Undefined, items |-> Undefined]

ASSUME UndefinedAssumption == Undefined \notin Query

VARIABLES
  async,      \* isAsyncOptions: a source, and no local collection
  query,      \* options.query
  items,      \* options.items
  changed,    \* the effect has been notified and has not run
  destroyed,  \* the injection context is gone, and the effect with it
  observed,   \* lastObservedSnapshot
  cleared,    \* cleared
  timer,      \* lifecycle.timer: the dispatch it will run, or None
  controller, \* lifecycle.controller: the dispatch it belongs to, or None
  aborted,    \* dispatches whose controller is aborted
  place,      \* per dispatch: unmade, made, waiting for its source, answered
  snapshot,   \* per dispatch: the inputs it was made for
  settled,    \* settledStatus and settledError
  shown,      \* status, error and items, the latter by the dispatch they are of
  changes,    \* changes and refreshes so far
  stopped     \* history: work was stopped since the last dispatch was made

inputs == <<async, query, items, changed, destroyed, changes>>
lifecycle == <<timer, controller, aborted, place>>
result == <<settled, shown>>
vars == <<inputs, observed, cleared, lifecycle, snapshot, result, stopped>>

Snapshot == [query : Query \cup {Undefined}, items : Items \cup {Undefined}]

Made == {d \in Dispatch : place[d] # "unmade"}

\* Type invariant: a timer runs a dispatch that was made, a controller belongs
\* to one that waits.
TypeOK ==
  /\ {async, changed, destroyed, cleared, stopped} \subseteq BOOLEAN
  /\ query \in Query
  /\ items \in Items
  /\ observed \in Snapshot
  /\ place \in [Dispatch -> {"unmade", "made", "waiting", "answered"}]
  /\ timer \in {d \in Dispatch : place[d] = "made"} \cup {None}
  /\ controller \in {d \in Dispatch : place[d] = "waiting"} \cup {None}
  /\ aborted \in SUBSET {d \in Dispatch : place[d] \in {"waiting", "answered"}}
  /\ snapshot \in [Dispatch -> Snapshot]
  /\ settled \in [status : {"idle", "success", "error"}, error : MaybeDispatch]
  /\ shown \in [status : {"idle", "loading", "success", "error"},
                error : MaybeDispatch, items : MaybeDispatch]
  /\ changes \in 0 .. MaxChanges

Init ==
  /\ async \in BOOLEAN
  /\ query \in Query
  /\ items \in Items
  /\ changed = TRUE
  /\ destroyed = FALSE
  /\ observed = Unobserved
  /\ cleared = FALSE
  /\ timer = None
  /\ controller = None
  /\ aborted = {}
  /\ place = [d \in Dispatch |-> "unmade"]
  /\ snapshot = [d \in Dispatch |-> Unobserved]
  /\ settled = [status |-> "idle", error |-> None]
  /\ shown = [status |-> "idle", error |-> None, items |-> None]
  /\ changes = 0
  /\ stopped = FALSE

-----------------------------------------------------------------------------
(* The lifecycle, with the callbacks the resource gives it. *)

\* Fault: a superseded dispatch leaves the resource loading.
OnSettled_Not(s) == s

\* onSettled: a resource that is loading shows what it had settled on.
OnSettled(s) ==
  IF s.status = "loading"
    THEN [s EXCEPT !.error = settled.error, !.status = settled.status]
    ELSE s

AbortActive == aborted' = aborted \cup ({controller} \ {None})

\* clearTimer and supersedeActive; cancel settles with or without a controller.
StopWork ==
  /\ timer' = None
  /\ controller' = None
  /\ AbortActive
  /\ UNCHANGED place

Schedule(d) ==
  /\ timer' = d
  /\ controller' = None
  /\ AbortActive
  /\ place' = [place EXCEPT ![d] = "made"]
  /\ shown' = IF controller = None THEN shown ELSE OnSettled(shown)
  /\ UNCHANGED settled

\* Fault: a pending debounce survives an immediate run.
Run_KeepsTimer(d) ==
  /\ timer' = IF timer = d THEN None ELSE timer
  /\ controller' = d
  /\ AbortActive
  /\ place' = [place EXCEPT ![d] = "waiting"]
  /\ shown' = [shown EXCEPT !.status = "loading", !.error = None]
  /\ UNCHANGED settled

\* run up to the await of the dispatch: supersede, then onStart.
Run(d) ==
  /\ timer' = None
  /\ controller' = d
  /\ AbortActive
  /\ place' = [place EXCEPT ![d] = "waiting"]
  /\ shown' = [shown EXCEPT !.status = "loading", !.error = None]
  /\ UNCHANGED settled

\* Fault: every answer counts.
IsActive_Always(d) == TRUE

IsActive(d) == d = controller /\ d \notin aborted

-----------------------------------------------------------------------------
(* The caller's signals. *)

Change ==
  /\ changes < MaxChanges
  /\ changes' = changes + 1
  /\ changed' = TRUE
  /\ UNCHANGED <<async, destroyed, observed, cleared, lifecycle, snapshot,
                 result, stopped>>

SetQuery(q) ==
  /\ query # q
  /\ query' = q
  /\ UNCHANGED items
  /\ Change

SetItems(i) ==
  /\ ~async
  /\ items # i
  /\ items' = i
  /\ UNCHANGED query
  /\ Change

-----------------------------------------------------------------------------
(* The effect. *)

SnapshotOf(q) == [query |-> q, items |-> IF async THEN Undefined ELSE items]

\* readSearchSnapshot.
Current == SnapshotOf(query)

QueryChanged == observed # Unobserved /\ observed.query # query

\* The number of the next dispatch: one more than were made.
IsNext(d) == place[d] = "unmade" /\ \A e \in Dispatch : e < d => place[e] # "unmade"

\* hasSameReactiveInputs, or a cleared resource and no new query.
Ignores == observed = Current \/ (cleared /\ ~QueryChanged)

EffectIgnores ==
  /\ changed /\ ~destroyed
  /\ Ignores
  /\ changed' = FALSE
  /\ observed' = Current
  /\ UNCHANGED <<async, query, items, destroyed, changes, cleared, lifecycle,
                 snapshot, result, stopped>>

\* The effect makes a dispatch: debounced for a source, at once otherwise.
EffectDispatches(d) ==
  /\ changed /\ ~destroyed
  /\ ~Ignores
  /\ IsNext(d)
  /\ changed' = FALSE
  /\ observed' = Current
  /\ cleared' = FALSE
  /\ snapshot' = [snapshot EXCEPT ![d] = Current]
  /\ stopped' = FALSE
  /\ IF async THEN Schedule(d) ELSE Run(d)
  /\ UNCHANGED <<async, query, items, destroyed, changes>>

TimerFires ==
  /\ timer # None
  /\ Run(timer)
  /\ UNCHANGED <<inputs, observed, cleared, snapshot, stopped>>

-----------------------------------------------------------------------------
(* The source answers, wanted or not. *)

\* onSuccess or onError, then the finally block.
Publish(d, status) ==
  /\ settled' = [status |-> status, error |-> IF status = "error" THEN d ELSE None]
  /\ shown' = [status |-> status, error |-> IF status = "error" THEN d ELSE None,
               items |-> IF status = "success" THEN d ELSE None]
  /\ controller' = None

Answer(d, status) ==
  /\ place[d] = "waiting"
  /\ place' = [place EXCEPT ![d] = "answered"]
  /\ IF IsActive(d) THEN Publish(d, status) ELSE UNCHANGED <<controller, result>>
  /\ UNCHANGED <<inputs, observed, cleared, timer, aborted, snapshot, stopped>>

-----------------------------------------------------------------------------
(* The resource's operations. *)

Refresh(d) ==
  /\ changes < MaxChanges
  /\ changes' = changes + 1
  /\ IsNext(d)
  /\ cleared' = FALSE
  /\ observed' = Current
  /\ snapshot' = [snapshot EXCEPT ![d] = Current]
  /\ stopped' = FALSE
  /\ Run(d)
  /\ UNCHANGED <<async, query, items, changed, destroyed>>

Cancel ==
  /\ StopWork
  /\ shown' = OnSettled(shown)
  /\ observed' = Current
  /\ stopped' = TRUE
  /\ UNCHANGED <<inputs, cleared, snapshot, settled>>

\* Fault: the work goes on behind the cleared results.
Forget_KeepsWork(q) ==
  /\ UNCHANGED lifecycle
  /\ settled' = [status |-> "idle", error |-> None]
  /\ shown' = [status |-> "idle", error |-> None, items |-> None]
  /\ cleared' = TRUE
  /\ observed' = SnapshotOf(q)
  /\ stopped' = TRUE
  /\ UNCHANGED <<async, items, destroyed, changes, snapshot>>

\* clearResults, with the query its caller leaves behind.
Forget(q) ==
  /\ StopWork
  /\ settled' = [status |-> "idle", error |-> None]
  /\ shown' = [status |-> "idle", error |-> None, items |-> None]
  /\ cleared' = TRUE
  /\ observed' = SnapshotOf(q)
  /\ stopped' = TRUE
  /\ UNCHANGED <<async, items, destroyed, changes, snapshot>>

ClearResults ==
  /\ Forget(query)
  /\ UNCHANGED <<query, changed>>

\* reset writes the query; its own write notifies the effect.
Reset ==
  /\ Forget(Empty)
  /\ query' = Empty
  /\ changed' = (changed \/ query # Empty)

Destroy ==
  /\ ~destroyed
  /\ destroyed' = TRUE
  /\ StopWork
  /\ shown' = OnSettled(shown)
  /\ stopped' = TRUE
  /\ UNCHANGED <<async, query, items, changed, changes, observed, cleared,
                 snapshot, settled>>

-----------------------------------------------------------------------------

Next ==
  \/ \E q \in Query : SetQuery(q)
  \/ \E i \in Items : SetItems(i)
  \/ EffectIgnores
  \/ TimerFires
  \/ \E d \in Dispatch :
       \/ EffectDispatches(d)
       \/ Refresh(d)
       \/ \E status \in {"success", "error"} : Answer(d, status)
  \/ Cancel \/ ClearResults \/ Reset \/ Destroy

Spec == Init /\ [][Next]_vars

\* Change detection runs, timers fire, and a source answers the dispatch whose
\* signal is not aborted; it need not answer any other.
FairSpec ==
  /\ Spec
  /\ WF_vars(EffectIgnores \/ \E d \in Dispatch : EffectDispatches(d))
  /\ WF_vars(TimerFires)
  /\ WF_vars(\E status \in {"success", "error"} :
               controller # None /\ Answer(controller, status))

-----------------------------------------------------------------------------
(* Safety. *)

\* "Aborts when this resource dispatch is cancelled or superseded": a dispatch
\* that still waits with a live signal is the one whose answer is wanted.
OnlyActiveIsLive ==
  \A d \in Dispatch : place[d] = "waiting" /\ d \notin aborted => d = controller

\* "The resource stays cleared until a later query change or an explicit
\* refresh()": nothing runs, nothing is due to run, and nothing is shown.
ClearedStaysEmpty ==
  cleared => /\ timer = None /\ controller = None
             /\ shown = [status |-> "idle", error |-> None, items |-> None]

Quiet == timer = None /\ controller = None

\* Whatever was typed, flushed, refreshed, superseded and answered late: a
\* resource that has come to rest and was not stopped shows the outcome of the
\* dispatch made for the inputs of this moment.
RestShowsCurrentInputs ==
  Quiet /\ ~changed /\ ~stopped =>
    \E d \in Dispatch :
      /\ place[d] = "answered" /\ snapshot[d] = Current
      /\ shown \in {[status |-> "success", error |-> None, items |-> d],
                    [status |-> "error", error |-> d, items |-> None]}

\* "Items from the newest successful search": see LatestWins.
Contract == INSTANCE LatestWins WITH
  started <- {d \in Dispatch : place[d] \in {"waiting", "answered"}},
  wanted <- controller,
  outcome <- [kind |-> settled.status,
              by |-> IF settled.status = "success" THEN shown.items ELSE settled.error],
  view <- shown
FollowsLatestWins == Contract!Spec

(* Liveness. *)

\* A change of the inputs comes to rest: noticed, debounced, dispatched and
\* settled, or stopped on the way, and never loading for good.
ChangesSettle ==
  changed ~> destroyed \/ (~changed /\ Quiet /\ shown.status # "loading")
=============================================================================
