----------------------------- MODULE MainPolicy -----------------------------
(***************************************************************************)
(* Restoring the protected-main policy: tools/policy/main-policy.mjs (the  *)
(* comparison and the plan), restore-main-policy.mjs (the command) and     *)
(* gitlab-api.mjs (its reads and writes).                                  *)
(*                                                                         *)
(* The command reads the four surfaces one request after the other, turns  *)
(* the drift it saw into requests, and sends them in order, stopping at    *)
(* the first that fails.  Protection rules have no full update, so a       *)
(* drifted rule is deleted and created again: between the two the ref is   *)
(* unprotected.  Several maintainers may run the command while others      *)
(* change the project by hand.                                             *)
(*                                                                         *)
(*   live    per item, how the project stands against the policy           *)
(*   seen    per command, what it has read of each item so far             *)
(*   step    per command: idle, the item to read next, apply, or verify    *)
(*   todo    per command, the requests left to send                        *)
(*   fresh   per command, the rule whose deletion is the last request sent *)
(*   gap     per rule, the command that deleted it, while it is missing    *)
(*   told    rules some command reported as unprotected, while missing     *)
(*   lost    a carried-out deletion has once been answered with an error   *)
(*   edits, faults   hand edits and failing requests so far (bounded)      *)
(***************************************************************************)
EXTENDS Naturals, Sequences

CONSTANTS
  Restorer,         \* the runs of the command by several maintainers
  Nobody,           \* none of them
  MaxEdits,         \* bound on changes made by hand
  MaxPolicyFaults   \* bound on requests that fail on the way

VARIABLES live, seen, step, todo, fresh, gap, told, lost, edits, faults

vars == <<live, seen, step, todo, fresh, gap, told, lost, edits, faults>>

\* The settings, the one recorded branch rule, the one recorded tag rule, the
\* state labels, in the order they are read and repaired.
Order == <<"project", "main", "v*", "label">>
Item == {"project", "main", "v*", "label"}
Rule == {"main", "v*"}

\* How an item can stand: drift in a branch rule's flags alone is "flags"; more
\* than one rule under the name is "ambiguous".
State(i) ==
  CASE i = "project" -> {"exact", "drifted"}
    [] i = "label" -> {"exact", "drifted", "missing"}
    [] i = "v*" -> {"exact", "drifted", "missing", "ambiguous"}
    [] i = "main" -> {"exact", "flags", "drifted", "missing", "ambiguous"}

Unread == [i \in Item |-> "exact"]
Request == [method : {"PUT", "PATCH", "DELETE", "POST"}, item : Item]
Req(m, i) == [method |-> m, item |-> i]

----------------------------------------------------------------------------
\* Fault: a drifted rule is created anew without deleting the old one.
Repair_CreatesOver(i, s) ==
  CASE s \in {"exact", "ambiguous"} -> <<>>
    [] s = "flags" -> <<Req("PATCH", i)>>
    [] s = "missing" \/ (s = "drifted" /\ i \in Rule) -> <<Req("POST", i)>>
    [] OTHER -> <<Req("PUT", i)>>

(* mainPolicyRestorePlan: ambiguous rules are reported and left alone. *)
Repair(i, s) ==
  CASE s \in {"exact", "ambiguous"} -> <<>>
    [] s = "missing" -> <<Req("POST", i)>>
    [] s = "flags" -> <<Req("PATCH", i)>>
    [] s = "drifted" /\ i \in Rule -> <<Req("DELETE", i), Req("POST", i)>>
    [] OTHER -> <<Req("PUT", i)>>

RestorePlan(s) ==
  Repair("project", s["project"]) \o Repair("main", s["main"])
    \o Repair("v*", s["v*"]) \o Repair("label", s["label"])

\* What the API answers to a request, and what the item becomes: POST is refused
\* when the rule exists, everything else when it does not; a deletion by name
\* leaves the other of two rules; a flag update leaves access levels alone.
Accepts(q, s) == (q.method = "POST") = (s = "missing")

Outcomes(q, s) ==
  CASE q.method = "DELETE" ->
         IF s = "ambiguous" THEN State(q.item) \ {"missing", "ambiguous"} ELSE {"missing"}
    [] q.method = "PATCH" -> {IF s = "flags" THEN "exact" ELSE s}
    [] OTHER -> {"exact"}

----------------------------------------------------------------------------
Init ==
  /\ live = [i \in Item |-> "exact"]
  /\ seen = [r \in Restorer |-> Unread]
  /\ step = [r \in Restorer |-> 0]
  /\ todo = [r \in Restorer |-> <<>>]
  /\ fresh = [r \in Restorer |-> Nobody]
  /\ gap = [i \in Rule |-> Nobody]
  /\ told = {}
  /\ lost = FALSE
  /\ edits = 0
  /\ faults = 0

Apply == Len(Order) + 1
Idle == 0

\* readPolicySurfaces, one request at a time; the last read yields the plan.
\* Step 0 starts the command; steps 1 to 4 read the surfaces.
Read(r) ==
  /\ step[r] < Apply
  /\ LET i == IF step[r] = Idle THEN 1 ELSE step[r]
         now == [seen[r] EXCEPT ![Order[i]] = live[Order[i]]]
         plan == RestorePlan(now)
     IN IF i < Len(Order)
          THEN /\ step' = [step EXCEPT ![r] = i + 1]
               /\ seen' = [seen EXCEPT ![r] = now]
               /\ UNCHANGED todo
          ELSE /\ step' = [step EXCEPT ![r] = IF plan = <<>> THEN Idle ELSE Apply]
               /\ seen' = [seen EXCEPT ![r] = Unread]
               /\ todo' = [todo EXCEPT ![r] = plan]
  /\ UNCHANGED <<live, fresh, gap, told, lost, edits, faults>>

Becomes(i, s) ==
  /\ live' = [live EXCEPT ![i] = s]
  /\ told' = IF s = "missing" THEN told ELSE told \ {i}

\* One request carried out and answered.
Send(r) ==
  LET q == Head(todo[r]) IN
  /\ step[r] = Apply /\ todo[r] # <<>>
  /\ Accepts(q, live[q.item])
  /\ \E s \in Outcomes(q, live[q.item]) :
       /\ Becomes(q.item, s)
       /\ gap' = IF q.item \notin Rule THEN gap
                 ELSE [gap EXCEPT ![q.item] = IF s = "missing" THEN r ELSE Nobody]
  /\ todo' = [todo EXCEPT ![r] = Tail(@)]
  /\ fresh' = [fresh EXCEPT ![r] = IF q.method = "DELETE" THEN q.item ELSE Nobody]
  /\ UNCHANGED <<seen, step, lost, edits, faults>>

\* Fault: the failed deletion is taken for the dangerous request.
Orphaned_Deletion(r) ==
  LET q == Head(todo[r]) IN
  IF q.method = "DELETE" /\ q.item \in Rule THEN {q.item} ELSE {}

\* The catch block: a creation that fails right after its rule was deleted names
\* the unprotected ref; the rest of the plan is dropped.
Orphaned(r) ==
  LET q == Head(todo[r]) IN
  IF q.method = "POST" /\ fresh[r] = q.item THEN {q.item} ELSE {}

Stop(r) ==
  /\ todo' = [todo EXCEPT ![r] = <<>>]
  /\ step' = [step EXCEPT ![r] = Idle]
  /\ fresh' = [fresh EXCEPT ![r] = Nobody]

\* The request is refused, by the API or on the way.
Refused(r) ==
  LET q == Head(todo[r]) IN
  /\ step[r] = Apply /\ todo[r] # <<>>
  /\ \/ ~Accepts(q, live[q.item]) /\ faults' = faults
     \/ faults < MaxPolicyFaults /\ faults' = faults + 1
  /\ told' = told \union {i \in Orphaned(r) : live[i] = "missing"}
  /\ Stop(r)
  /\ UNCHANGED <<live, seen, gap, lost, edits>>

\* The request is carried out and the answer is lost.
AnswerLost(r) ==
  LET q == Head(todo[r]) IN
  /\ step[r] = Apply /\ todo[r] # <<>>
  /\ Accepts(q, live[q.item])
  /\ faults < MaxPolicyFaults /\ faults' = faults + 1
  /\ \E s \in Outcomes(q, live[q.item]) :
       /\ Becomes(q.item, s)
       /\ gap' = IF q.item \notin Rule THEN gap
                 ELSE [gap EXCEPT ![q.item] = IF s = "missing" THEN r ELSE Nobody]
  /\ lost' = (lost \/ q.method = "DELETE")
  /\ Stop(r)
  /\ UNCHANGED <<seen, edits>>

\* The plan is sent: the surfaces are read once more, and the command ends.
Verify(r) ==
  /\ step[r] = Apply /\ todo[r] = <<>>
  /\ Stop(r)
  /\ UNCHANGED <<live, seen, gap, told, lost, edits, faults>>

\* A maintainer changes the project by hand.
Edit(i, s) ==
  /\ edits < MaxEdits /\ edits' = edits + 1
  /\ s \in State(i) \ {live[i]}
  /\ Becomes(i, s)
  /\ gap' = IF i \in Rule THEN [gap EXCEPT ![i] = Nobody] ELSE gap
  /\ UNCHANGED <<seen, step, todo, fresh, lost, faults>>

----------------------------------------------------------------------------
Next ==
  \/ \E r \in Restorer : Read(r) \/ Send(r) \/ Refused(r) \/ AnswerLost(r) \/ Verify(r)
  \/ \E i \in Item : \E s \in State(i) : Edit(i, s)

\* A run of the command goes on, and maintainers run it again.
Command(r) == Read(r) \/ Send(r) \/ Verify(r) \/ Refused(r)

Spec == Init /\ [][Next]_vars

FairSpec == Spec /\ \A r \in Restorer : WF_vars(Command(r))

----------------------------------------------------------------------------
(* Re-running is safe and completes the repair: wherever earlier commands    *)
(* stopped, and however several of them overlapped, every item ends as the   *)
(* policy records it, but for names that carry two rules.                    *)
RerunHeals == <>[](\A i \in Item : live[i] \in {"exact", "ambiguous"})

(* A ref the restoration itself left unprotected is one it is about to       *)
(* protect again, with its very next request, or one it told the maintainer  *)
(* about; only a deletion whose answer was lost escapes.                     *)
GapIsTold ==
  \A i \in Rule :
    (live[i] = "missing" /\ gap[i] # Nobody /\ ~lost) =>
      \/ i \in told
      \/ /\ todo[gap[i]] # <<>>
         /\ Head(todo[gap[i]]) = Req("POST", i)
=============================================================================
