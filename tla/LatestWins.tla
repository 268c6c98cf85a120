----------------------------- MODULE LatestWins -----------------------------
(***************************************************************************)
(* What a Search Resource promises of its dispatches: at most one is       *)
(* wanted, only the wanted one publishes an outcome, and what the resource *)
(* shows is at every moment a function of the wanted dispatch and of the   *)
(* last outcome.  Dispatches start in the order in which they were made.   *)
(***************************************************************************)
EXTENDS Naturals

CONSTANTS Dispatch, None

VARIABLES
  started,   \* the dispatches that ever started
  wanted,    \* the one whose outcome is wanted, or None
  outcome,   \* the last outcome: its kind and the dispatch it is from
  view       \* what status, error and items show

vars == <<started, wanted, outcome, view>>

Idle == [kind |-> "idle", by |-> None]

\* While a dispatch is wanted the resource is loading, keeps the items of the
\* last success and shows no error.
View(w, o) ==
  [status |-> IF w # None THEN "loading" ELSE o.kind,
   error  |-> IF w = None /\ o.kind = "error" THEN o.by ELSE None,
   items  |-> IF o.kind = "success" THEN o.by ELSE None]

Init ==
  /\ started = {}
  /\ wanted = None
  /\ outcome = Idle
  /\ view = View(None, Idle)

Start(d) ==
  /\ \A e \in started : e < d
  /\ started' = started \cup {d}
  /\ wanted' = d
  /\ view' = View(d, outcome)
  /\ UNCHANGED outcome

\* Nothing is wanted any more: the resource shows the last outcome again.
Stop ==
  /\ wanted' = None
  /\ view' = View(None, outcome)
  /\ UNCHANGED <<started, outcome>>

Publish(kind) ==
  /\ wanted # None
  /\ outcome' = [kind |-> kind, by |-> wanted]
  /\ wanted' = None
  /\ view' = View(None, outcome')
  /\ UNCHANGED started

Clear ==
  /\ wanted' = None
  /\ outcome' = Idle
  /\ view' = View(None, Idle)
  /\ UNCHANGED started

Next ==
  \/ \E d \in Dispatch : Start(d)
  \/ Stop
  \/ \E kind \in {"success", "error"} : Publish(kind)
  \/ Clear

Spec == Init /\ [][Next]_vars
=============================================================================
