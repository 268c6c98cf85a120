-------------------------- MODULE MainPolicyProofs --------------------------
(***************************************************************************)
(* The restoration never leaves a ref unprotected in silence: for every    *)
(* number of overlapping runs of the command, of hand edits and of failing *)
(* requests.  The strengthening says that in every list of requests left   *)
(* to send a deletion is followed by the creation of the same rule, and    *)
(* that the command which opened a gap still remembers its deletion.       *)
(***************************************************************************)
EXTENDS MainPolicy, SequenceTheorems, TLAPS

Standing == {"exact", "flags", "drifted", "missing", "ambiguous"}

TypeOK ==
  /\ live \in [Item -> Standing]
  /\ seen \in [Restorer -> [Item -> Standing]]
  /\ step \in [Restorer -> 0 .. Apply]
  /\ todo \in [Restorer -> Seq(Request)]
  /\ fresh \in [Restorer -> Rule \union {Nobody}]
  /\ gap \in [Rule -> Restorer \union {Nobody}]
  /\ told \subseteq Item

\* A deletion is followed by the creation of the rule it deletes.
Paired(s) ==
  \A n \in 1 .. Len(s) :
    s[n].method = "DELETE" =>
      /\ s[n].item \in Rule
      /\ n + 1 <= Len(s) /\ s[n + 1] = Req("POST", s[n].item)

PlansArePaired == \A r \in Restorer : Paired(todo[r])

\* Only a command that applies its plan has requests left.
OnlyApplying == \A r \in Restorer : todo[r] # <<>> => step[r] = Apply

\* The creation that closes a gap is the next request, and its failure would
\* be recognised as one that leaves the ref unprotected.
GapIsRemembered ==
  \A i \in Rule :
    (live[i] = "missing" /\ gap[i] # Nobody /\ ~lost /\ i \notin told) =>
      /\ todo[gap[i]] # <<>>
      /\ Head(todo[gap[i]]) = Req("POST", i)
      /\ fresh[gap[i]] = i

IInv == TypeOK /\ PlansArePaired /\ OnlyApplying /\ GapIsRemembered

-----------------------------------------------------------------------------
(* Plans. *)

\* What one drifted item calls for.
LEMMA RepairIsPaired ==
  ASSUME NEW i \in Item, NEW s \in Standing
  PROVE  Repair(i, s) \in Seq(Request) /\ Paired(Repair(i, s))
  <1> USE DEF Request, Req
  <1>1. CASE s \in {"exact", "ambiguous"}
    BY <1>1 DEF Repair, Paired
  <1>2. CASE s = "missing"
    BY <1>2 DEF Repair, Paired
  <1>3. CASE s = "flags"
    BY <1>3 DEF Repair, Paired
  <1>4. CASE s = "drifted" /\ i \in Rule
    <2>1. Repair(i, s) = <<Req("DELETE", i), Req("POST", i)>>
      BY <1>4 DEF Repair
    <2>2. /\ Len(Repair(i, s)) = 2
          /\ Repair(i, s)[1] = Req("DELETE", i) /\ Repair(i, s)[2] = Req("POST", i)
      BY <2>1
    <2>3. Paired(Repair(i, s))
      BY <1>4, <2>2 DEF Paired
    <2> QED
      BY <2>1, <2>3
  <1>5. CASE s = "drifted" /\ i \notin Rule
    <2>1. Repair(i, s) = <<Req("PUT", i)>>
      BY <1>5 DEF Repair
    <2> QED
      BY <2>1 DEF Paired
  <1> QED
    BY <1>1, <1>2, <1>3, <1>4, <1>5 DEF Standing

\* Repairs of several items in a row keep each deletion before its creation.
LEMMA PairedConcat ==
  ASSUME NEW s \in Seq(Request), Paired(s), NEW t \in Seq(Request), Paired(t)
  PROVE  s \o t \in Seq(Request) /\ Paired(s \o t)
  <1>1. s \o t \in Seq(Request) /\ Len(s \o t) = Len(s) + Len(t)
    OBVIOUS
  <1>2. \A n \in 1 .. Len(s) : (s \o t)[n] = s[n]
    OBVIOUS
  <1>3. \A n \in Len(s) + 1 .. Len(s) + Len(t) : (s \o t)[n] = t[n - Len(s)]
    OBVIOUS
  <1>4. ASSUME NEW n \in 1 .. Len(s \o t), (s \o t)[n].method = "DELETE"
        PROVE  /\ (s \o t)[n].item \in Rule
               /\ n + 1 <= Len(s \o t) /\ (s \o t)[n + 1] = Req("POST", (s \o t)[n].item)
    <2>1. CASE n <= Len(s)
      BY <1>1, <1>2, <1>4, <2>1 DEF Paired
    <2>2. CASE n > Len(s)
      <3>1. /\ n - Len(s) \in 1 .. Len(t) /\ (s \o t)[n] = t[n - Len(s)]
        BY <1>1, <1>3, <2>2
      <3>2. /\ t[n - Len(s)].item \in Rule
            /\ n - Len(s) + 1 <= Len(t)
            /\ t[n - Len(s) + 1] = Req("POST", t[n - Len(s)].item)
        BY <1>4, <3>1 DEF Paired
      <3>3. (s \o t)[n + 1] = t[n + 1 - Len(s)]
        BY <1>1, <1>3, <2>2, <3>2
      <3> QED
        BY <1>1, <3>1, <3>2, <3>3
    <2> QED
      BY <1>1, <2>1, <2>2
  <1> QED
    BY <1>1, <1>4 DEF Paired

LEMMA PlanIsPaired ==
  ASSUME NEW s \in [Item -> Standing]
  PROVE  RestorePlan(s) \in Seq(Request) /\ Paired(RestorePlan(s))
  <1>1. \A i \in Item : Repair(i, s[i]) \in Seq(Request) /\ Paired(Repair(i, s[i]))
    BY RepairIsPaired
  <1> QED
    BY <1>1, PairedConcat DEF RestorePlan, Item

\* Sending the first request leaves the rest in order.
LEMMA PairedTail ==
  ASSUME NEW s \in Seq(Request), s # <<>>, Paired(s)
  PROVE  /\ Tail(s) \in Seq(Request) /\ Paired(Tail(s))
         /\ Head(s) \in Request
         /\ Head(s).method = "DELETE" =>
              /\ Head(s).item \in Rule
              /\ Tail(s) # <<>> /\ Head(Tail(s)) = Req("POST", Head(s).item)
  <1>1. /\ Tail(s) \in Seq(Request) /\ Len(Tail(s)) = Len(s) - 1
        /\ \A n \in 1 .. Len(s) - 1 : Tail(s)[n] = s[n + 1]
        /\ Len(s) >= 1 /\ Head(s) = s[1] /\ s[1] \in Request
    OBVIOUS
  <1>2. Paired(Tail(s))
    <2> SUFFICES ASSUME NEW n \in 1 .. Len(Tail(s)), Tail(s)[n].method = "DELETE"
        PROVE  /\ Tail(s)[n].item \in Rule /\ n + 1 <= Len(Tail(s))
               /\ Tail(s)[n + 1] = Req("POST", Tail(s)[n].item)
      BY DEF Paired
    <2>1. /\ n \in 1 .. Len(s) - 1 /\ Len(s) \in Nat
          /\ n + 1 \in 1 .. Len(s) /\ Tail(s)[n] = s[n + 1]
      BY <1>1
    <2>2. /\ s[n + 1].item \in Rule /\ n + 2 <= Len(s)
          /\ s[n + 2] = Req("POST", s[n + 1].item)
      BY <2>1 DEF Paired
    <2> QED
      BY <1>1, <2>1, <2>2
  <1>3. ASSUME Head(s).method = "DELETE"
        PROVE  /\ Head(s).item \in Rule
               /\ Tail(s) # <<>> /\ Head(Tail(s)) = Req("POST", Head(s).item)
    <2>1. s[1].item \in Rule /\ 2 <= Len(s) /\ s[2] = Req("POST", s[1].item)
      BY <1>1, <1>3 DEF Paired
    <2>2. 1 \in 1 .. Len(s) - 1 /\ Len(Tail(s)) # 0
      BY <1>1, <2>1
    <2>3. Tail(s) # <<>>
      <3>1. Len(<<>>) = 0
        OBVIOUS
      <3> QED
        BY <2>2, <3>1
    <2>4. Head(Tail(s)) = s[2]
      BY <1>1, <2>2, <2>3
    <2> QED
      BY <1>1, <2>1, <2>3, <2>4
  <1> QED
    BY <1>1, <1>2, <1>3

-----------------------------------------------------------------------------
(* Steps. *)

LEMMA StepNumbers == Len(Order) = 4 /\ Apply = 5 /\ Idle = 0 /\ \A n \in 1 .. 4 : Order[n] \in Item
  BY DEF Order, Apply, Idle, Item

LEMMA ReadPreservesIInv ==
  ASSUME IInv, NEW r \in Restorer, Read(r)
  PROVE  IInv'
  <1> DEFINE i == IF step[r] = Idle THEN 1 ELSE step[r]
             now == [seen[r] EXCEPT ![Order[i]] = live[Order[i]]]
             plan == RestorePlan(now)
  <1>1. step[r] \in 0 .. 4 /\ todo[r] = <<>> /\ i \in 1 .. 4
    BY StepNumbers DEF Read, IInv, TypeOK, OnlyApplying
  <1>2. now \in [Item -> Standing]
    BY <1>1, StepNumbers DEF IInv, TypeOK
  <1>3. plan \in Seq(Request) /\ Paired(plan)
    BY <1>2, PlanIsPaired
  <1>4. /\ UNCHANGED <<live, fresh, gap, told, lost>>
        /\ \/ /\ i < 4 /\ step' = [step EXCEPT ![r] = i + 1]
              /\ seen' = [seen EXCEPT ![r] = now] /\ todo' = todo
           \/ /\ step' = [step EXCEPT ![r] = IF plan = <<>> THEN Idle ELSE Apply]
              /\ seen' = [seen EXCEPT ![r] = Unread]
              /\ todo' = [todo EXCEPT ![r] = plan]
    BY StepNumbers DEF Read
  <1> HIDE DEF i, now, plan
  <1>5. TypeOK'
    <2>1. Unread \in [Item -> Standing]
      BY DEF Unread, Standing
    <2>2. seen' \in [Restorer -> [Item -> Standing]]
      BY <1>2, <1>4, <2>1 DEF IInv, TypeOK
    <2>3. step' \in [Restorer -> 0 .. Apply]
      <3>1. /\ (IF plan = <<>> THEN Idle ELSE Apply) \in 0 .. Apply
            /\ i < 4 => i + 1 \in 0 .. Apply
        BY <1>1, StepNumbers
      <3> QED
        BY <1>4, <3>1 DEF IInv, TypeOK
    <2>4. todo' \in [Restorer -> Seq(Request)]
      BY <1>3, <1>4 DEF IInv, TypeOK
    <2> QED
      BY <1>4, <2>2, <2>3, <2>4 DEF IInv, TypeOK
  <1>6. PlansArePaired'
    BY <1>3, <1>4 DEF IInv, PlansArePaired, TypeOK
  <1>7. OnlyApplying'
    BY <1>1, <1>4, StepNumbers DEF IInv, OnlyApplying, TypeOK
  <1>8. GapIsRemembered'
    BY <1>1, <1>4 DEF IInv, GapIsRemembered, TypeOK
  <1> QED
    BY <1>5, <1>6, <1>7, <1>8 DEF IInv

\* What a request makes of its item: only a deletion makes a rule go missing.
LEMMA OnlyDeletionsUnprotect ==
  ASSUME IInv, NEW q \in Request, Accepts(q, live[q.item]),
         NEW s \in Outcomes(q, live[q.item])
  PROVE  /\ s \in Standing
         /\ s = "missing" => q.method = "DELETE"
  <1>1. CASE q.method = "DELETE"
    <2>1. s \in State(q.item) \/ s = "missing"
      BY <1>1 DEF Outcomes
    <2>2. State(q.item) \subseteq Standing
      BY DEF State, Standing, Request, Item
    <2> QED
      BY <1>1, <2>1, <2>2 DEF Standing
  <1>2. CASE q.method = "PATCH"
    <2>1. live[q.item] # "missing" /\ live[q.item] \in Standing
      BY <1>2 DEF Accepts, IInv, TypeOK, Request
    <2> QED
      BY <1>2, <2>1 DEF Outcomes, Standing
  <1>3. CASE q.method \in {"PUT", "POST"}
    BY <1>3 DEF Outcomes, Standing
  <1> QED
    BY <1>1, <1>2, <1>3 DEF Request

\* The request at the head of a plan.
LEMMA HeadOfPlan ==
  ASSUME IInv, NEW r \in Restorer, todo[r] # <<>>
  PROVE  /\ Head(todo[r]) \in Request
         /\ Tail(todo[r]) \in Seq(Request) /\ Paired(Tail(todo[r]))
         /\ Head(todo[r]).method = "DELETE" =>
              /\ Head(todo[r]).item \in Rule
              /\ Tail(todo[r]) # <<>>
              /\ Head(Tail(todo[r])) = Req("POST", Head(todo[r]).item)
  BY PairedTail DEF IInv, TypeOK, PlansArePaired

LEMMA SendPreservesIInv ==
  ASSUME IInv, NEW r \in Restorer, Send(r)
  PROVE  IInv'
  <1> DEFINE q == Head(todo[r])
  <1>1. /\ todo[r] # <<>> /\ step[r] = Apply /\ Accepts(q, live[q.item])
    BY DEF Send
  <1>2. PICK s \in Outcomes(q, live[q.item]) :
          /\ Becomes(q.item, s)
          /\ gap' = IF q.item \notin Rule THEN gap
                    ELSE [gap EXCEPT ![q.item] = IF s = "missing" THEN r ELSE Nobody]
    BY DEF Send
  <1>3. /\ todo' = [todo EXCEPT ![r] = Tail(@)]
        /\ fresh' = [fresh EXCEPT ![r] = IF q.method = "DELETE" THEN q.item ELSE Nobody]
        /\ UNCHANGED <<seen, step, lost>>
    BY DEF Send
  <1>4. q \in Request /\ Tail(todo[r]) \in Seq(Request) /\ Paired(Tail(todo[r]))
    BY <1>1, HeadOfPlan
  <1>5. q.method = "DELETE" => /\ q.item \in Rule /\ Tail(todo[r]) # <<>>
                               /\ Head(Tail(todo[r])) = Req("POST", q.item)
    BY <1>1, HeadOfPlan
  <1>6. s \in Standing /\ (s = "missing" => q.method = "DELETE")
    BY <1>1, <1>4, OnlyDeletionsUnprotect
  <1>7. live' = [live EXCEPT ![q.item] = s]
        /\ told' = IF s = "missing" THEN told ELSE told \ {q.item}
    BY <1>2 DEF Becomes
  <1>8. q.item \in Item
    BY <1>4 DEF Request
  <1>9. \A i \in Rule : Head(todo[r]) = Req("POST", i) => q.item = i /\ q.method = "POST"
    BY DEF Req
  <1> HIDE DEF q
  <1>10. TypeOK'
    <2>1. /\ live' \in [Item -> Standing] /\ told' \subseteq Item
          /\ gap' \in [Rule -> Restorer \union {Nobody}]
          /\ fresh' \in [Restorer -> Rule \union {Nobody}]
      BY <1>2, <1>3, <1>5, <1>6, <1>7, <1>8 DEF IInv, TypeOK
    <2>2. todo' \in [Restorer -> Seq(Request)]
      BY <1>3, <1>4 DEF IInv, TypeOK
    <2> QED
      BY <1>3, <2>1, <2>2 DEF IInv, TypeOK
  <1>11. PlansArePaired' /\ OnlyApplying'
    BY <1>1, <1>3, <1>4 DEF IInv, PlansArePaired, OnlyApplying, TypeOK
  <1>12. GapIsRemembered'
    <2> SUFFICES ASSUME NEW i \in Rule, live'[i] = "missing", gap'[i] # Nobody, ~lost, i \notin told'
        PROVE  todo'[gap'[i]] # <<>> /\ Head(todo'[gap'[i]]) = Req("POST", i) /\ fresh'[gap'[i]] = i
      BY <1>3 DEF GapIsRemembered
    <2>1. i \in Item
      BY DEF Rule, Item
    <2>2. CASE i = q.item
      <3>1. s = "missing" /\ q.method = "DELETE" /\ gap'[i] = r
        BY <1>2, <1>6, <1>7, <1>8, <2>2 DEF IInv, TypeOK
      <3> QED
        BY <1>3, <1>5, <2>2, <3>1 DEF IInv, TypeOK
    <2>3. CASE i # q.item
      <3>1. /\ live[i] = "missing" /\ gap'[i] = gap[i] /\ i \notin told
        BY <1>2, <1>7, <1>8, <2>1, <2>3 DEF IInv, TypeOK
      <3>2. todo[gap[i]] # <<>> /\ Head(todo[gap[i]]) = Req("POST", i) /\ fresh[gap[i]] = i
        BY <3>1 DEF IInv, GapIsRemembered
      <3>3. gap[i] # r
        BY <1>9, <2>3, <3>2
      <3>4. gap[i] \in Restorer
        BY <3>1 DEF IInv, TypeOK
      <3> QED
        BY <1>3, <3>1, <3>2, <3>3, <3>4 DEF IInv, TypeOK
    <2> QED
      BY <2>2, <2>3
  <1> QED
    BY <1>10, <1>11, <1>12 DEF IInv

\* A command that stops forgets its plan.
LEMMA StopKeepsPlans ==
  ASSUME IInv, NEW r \in Restorer, Stop(r)
  PROVE  /\ step' \in [Restorer -> 0 .. Apply]
         /\ todo' \in [Restorer -> Seq(Request)]
         /\ fresh' \in [Restorer -> Rule \union {Nobody}]
         /\ PlansArePaired' /\ OnlyApplying'
         /\ \A m \in Restorer : m # r => todo'[m] = todo[m] /\ fresh'[m] = fresh[m]
  <1>1. Paired(<<>>) /\ <<>> \in Seq(Request)
    BY DEF Paired
  <1> QED
    BY <1>1, StepNumbers DEF Stop, IInv, TypeOK, PlansArePaired, OnlyApplying

LEMMA RefusedPreservesIInv ==
  ASSUME IInv, NEW r \in Restorer, Refused(r)
  PROVE  IInv'
  <1>1. /\ Stop(r) /\ UNCHANGED <<live, seen, gap, lost>> /\ todo[r] # <<>>
        /\ told' = told \union {i \in Orphaned(r) : live[i] = "missing"}
    BY DEF Refused
  <1>2. Head(todo[r]) \in Request
    BY <1>1, HeadOfPlan
  <1>3. told' \subseteq Item
    <2>1. \A i \in Orphaned(r) : i = fresh[r] /\ i = Head(todo[r]).item
      BY DEF Orphaned
    <2> QED
      BY <1>1, <1>2, <2>1 DEF IInv, TypeOK, Request
  <1>4. TypeOK' /\ PlansArePaired' /\ OnlyApplying'
    BY <1>1, <1>3, StopKeepsPlans DEF IInv, TypeOK
  <1>5. GapIsRemembered'
    <2> SUFFICES ASSUME NEW i \in Rule, live[i] = "missing", gap[i] # Nobody, ~lost, i \notin told'
        PROVE  todo'[gap[i]] # <<>> /\ Head(todo'[gap[i]]) = Req("POST", i) /\ fresh'[gap[i]] = i
      BY <1>1 DEF GapIsRemembered
    <2>1. todo[gap[i]] # <<>> /\ Head(todo[gap[i]]) = Req("POST", i) /\ fresh[gap[i]] = i
      BY <1>1 DEF IInv, GapIsRemembered
    <2>2. gap[i] # r
      BY <1>1, <2>1 DEF Orphaned, Req
    <2>3. gap[i] \in Restorer
      BY DEF IInv, TypeOK
    <2> QED
      BY <1>1, <2>1, <2>2, <2>3, StopKeepsPlans
  <1> QED
    BY <1>4, <1>5 DEF IInv
LEMMA AnswerLostPreservesIInv ==
  ASSUME IInv, NEW r \in Restorer, AnswerLost(r)
  PROVE  IInv'
  <1> DEFINE q == Head(todo[r])
  <1>1. /\ Stop(r) /\ UNCHANGED seen /\ todo[r] # <<>>
        /\ Accepts(q, live[q.item]) /\ lost' = (lost \/ q.method = "DELETE")
    BY DEF AnswerLost
  <1>2. PICK s \in Outcomes(q, live[q.item]) :
          /\ Becomes(q.item, s)
          /\ gap' = IF q.item \notin Rule THEN gap
                    ELSE [gap EXCEPT ![q.item] = IF s = "missing" THEN r ELSE Nobody]
    BY DEF AnswerLost
  <1>3. q \in Request /\ q.item \in Item
    BY <1>1, HeadOfPlan DEF Request
  <1>4. s \in Standing /\ (s = "missing" => q.method = "DELETE")
    BY <1>1, <1>3, OnlyDeletionsUnprotect
  <1>5. live' = [live EXCEPT ![q.item] = s]
        /\ told' = IF s = "missing" THEN told ELSE told \ {q.item}
    BY <1>2 DEF Becomes
  <1>6. \A i \in Rule : q = Req("POST", i) => q.item = i
    BY DEF Req
  <1>7. \A i \in Rule : q = Head(todo[r])
    OBVIOUS
  <1> HIDE DEF q
  <1>8. TypeOK'
    <2>1. /\ live' \in [Item -> Standing] /\ told' \subseteq Item
          /\ gap' \in [Rule -> Restorer \union {Nobody}]
      BY <1>2, <1>3, <1>4, <1>5 DEF IInv, TypeOK
    <2> QED
      BY <1>1, <2>1, StopKeepsPlans DEF IInv, TypeOK
  <1>9. PlansArePaired' /\ OnlyApplying'
    BY <1>1, StopKeepsPlans
  <1>10. GapIsRemembered'
    <2> SUFFICES ASSUME NEW i \in Rule, live'[i] = "missing", gap'[i] # Nobody, ~lost', i \notin told'
        PROVE  todo'[gap'[i]] # <<>> /\ Head(todo'[gap'[i]]) = Req("POST", i) /\ fresh'[gap'[i]] = i
      BY DEF GapIsRemembered
    <2>1. i \in Item
      BY DEF Rule, Item
    <2>2. i # q.item
      BY <1>1, <1>3, <1>4, <1>5 DEF IInv, TypeOK
    <2>3. /\ live[i] = "missing" /\ gap'[i] = gap[i] /\ i \notin told /\ ~lost
      BY <1>1, <1>2, <1>3, <1>5, <2>1, <2>2 DEF IInv, TypeOK
    <2>4. todo[gap[i]] # <<>> /\ Head(todo[gap[i]]) = Req("POST", i) /\ fresh[gap[i]] = i
      BY <2>3 DEF IInv, GapIsRemembered
    <2>5. gap[i] # r /\ gap[i] \in Restorer
      BY <1>6, <1>7, <2>2, <2>3, <2>4 DEF IInv, TypeOK
    <2> QED
      BY <1>1, <2>3, <2>4, <2>5, StopKeepsPlans
  <1> QED
    BY <1>8, <1>9, <1>10 DEF IInv

LEMMA VerifyPreservesIInv ==
  ASSUME IInv, NEW r \in Restorer, Verify(r)
  PROVE  IInv'
  <1>1. Stop(r) /\ todo[r] = <<>> /\ UNCHANGED <<live, seen, gap, told, lost>>
    BY DEF Verify
  <1>2. TypeOK' /\ PlansArePaired' /\ OnlyApplying'
    BY <1>1, StopKeepsPlans DEF IInv, TypeOK
  <1>3. GapIsRemembered'
    <2> SUFFICES ASSUME NEW i \in Rule, live[i] = "missing", gap[i] # Nobody, ~lost, i \notin told
        PROVE  todo'[gap[i]] # <<>> /\ Head(todo'[gap[i]]) = Req("POST", i) /\ fresh'[gap[i]] = i
      BY <1>1 DEF GapIsRemembered
    <2>1. todo[gap[i]] # <<>> /\ Head(todo[gap[i]]) = Req("POST", i) /\ fresh[gap[i]] = i
      BY DEF IInv, GapIsRemembered
    <2>2. gap[i] # r /\ gap[i] \in Restorer
      BY <1>1, <2>1 DEF IInv, TypeOK
    <2> QED
      BY <1>1, <2>1, <2>2, StopKeepsPlans
  <1> QED
    BY <1>2, <1>3 DEF IInv

\* What a maintainer removes by hand is no gap of a command.
LEMMA EditPreservesIInv ==
  ASSUME IInv, NEW i \in Item, NEW s \in State(i), Edit(i, s)
  PROVE  IInv'
  <1>1. s \in Standing
    BY DEF State, Standing, Item
  <1>2. /\ live' = [live EXCEPT ![i] = s]
        /\ told' = IF s = "missing" THEN told ELSE told \ {i}
        /\ gap' = IF i \in Rule THEN [gap EXCEPT ![i] = Nobody] ELSE gap
        /\ UNCHANGED <<seen, step, todo, fresh, lost>>
    BY DEF Edit, Becomes
  <1>3. TypeOK'
    BY <1>1, <1>2 DEF IInv, TypeOK
  <1>4. PlansArePaired' /\ OnlyApplying'
    BY <1>2 DEF IInv, PlansArePaired, OnlyApplying
  <1>5. GapIsRemembered'
    <2> SUFFICES ASSUME NEW j \in Rule, live'[j] = "missing", gap'[j] # Nobody, ~lost, j \notin told'
        PROVE  todo[gap'[j]] # <<>> /\ Head(todo[gap'[j]]) = Req("POST", j) /\ fresh[gap'[j]] = j
      BY <1>2 DEF GapIsRemembered
    <2>1. j # i /\ j \in Item
      BY <1>2 DEF IInv, TypeOK, Rule, Item
    <2>2. live[j] = "missing" /\ gap'[j] = gap[j] /\ j \notin told
      BY <1>2, <2>1 DEF IInv, TypeOK
    <2> QED
      BY <2>2 DEF IInv, GapIsRemembered
  <1> QED
    BY <1>3, <1>4, <1>5 DEF IInv

-----------------------------------------------------------------------------

\* At first the project is as recorded and no command runs.
LEMMA InitEstablishesIInv == Init => IInv
  <1> SUFFICES ASSUME Init PROVE IInv
    OBVIOUS
  <1>1. Unread \in [Item -> Standing] /\ Idle \in 0 .. Apply
    BY StepNumbers DEF Unread, Standing
  <1>2. TypeOK
    BY <1>1, StepNumbers DEF Init, TypeOK, Standing
  <1>3. PlansArePaired /\ OnlyApplying /\ GapIsRemembered
    BY DEF Init, PlansArePaired, Paired, OnlyApplying, GapIsRemembered
  <1> QED
    BY <1>2, <1>3 DEF IInv

LEMMA StepPreservesIInv == IInv /\ [Next]_vars => IInv'
  <1> SUFFICES ASSUME IInv, [Next]_vars PROVE IInv'
    OBVIOUS
  <1>1. CASE \E r \in Restorer : Read(r) \/ Send(r) \/ Refused(r) \/ AnswerLost(r) \/ Verify(r)
    BY <1>1, ReadPreservesIInv, SendPreservesIInv, RefusedPreservesIInv,
       AnswerLostPreservesIInv, VerifyPreservesIInv
  <1>2. CASE \E i \in Item : \E s \in State(i) : Edit(i, s)
    BY <1>2, EditPreservesIInv
  <1>3. CASE UNCHANGED vars
    BY <1>3 DEF vars, IInv, TypeOK, PlansArePaired, OnlyApplying, GapIsRemembered
  <1> QED
    BY <1>1, <1>2, <1>3 DEF Next

THEOREM IInvHolds == Spec => []IInv
  BY InitEstablishesIInv, StepPreservesIInv, PTL DEF Spec

-----------------------------------------------------------------------------

\* What the project and the commands hold keeps its type.
THEOREM TypeCorrect == Spec => []TypeOK
  <1>1. IInv => TypeOK
    BY DEF IInv
  <1> QED
    BY <1>1, IInvHolds, PTL

\* In every plan, however far it was sent, a deletion is followed by the
\* creation of the same rule.
THEOREM DeletionsAreFollowed == Spec => []PlansArePaired
  <1>1. IInv => PlansArePaired
    BY DEF IInv
  <1> QED
    BY <1>1, IInvHolds, PTL

\* A ref the restoration left unprotected is about to be protected again, or
\* was reported, unless the answer to a deletion was lost.
THEOREM NoSilentGap == Spec => []GapIsTold
  <1>1. IInv => GapIsTold
    BY DEF IInv, GapIsRemembered, GapIsTold
  <1> QED
    BY <1>1, IInvHolds, PTL
=============================================================================
