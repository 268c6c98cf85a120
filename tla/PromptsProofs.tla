--------------------------- MODULE PromptsProofs ---------------------------
(***************************************************************************)
(* The safety properties of Prompts hold for any number of callers,        *)
(* requests and actions.  IInv is the inductive invariant they follow      *)
(* from; its parts say where a request can be while it is unanswered.      *)
(***************************************************************************)
EXTENDS Prompts, TLAPS

Elements(q) == {q[k] : k \in DOMAIN q}

NoRepeats(q) == \A j, k \in DOMAIN q : q[j] = q[k] => j = k

(* The modal requests that wait for an answer are exactly those in the     *)
(* queue; a presented dialog is that of the first.                         *)
QueueInv ==
  /\ NoRepeats(queue)
  /\ Elements(queue) = {r \in (1..asked) \ anchored : ~Settled(r)}
  /\ openRef # 0 => (queue # <<>> /\ Head(queue) = openRef)
  /\ (~pumping /\ openRef = 0) => queue = <<>>
  /\ (pumping /\ openRef = 0) => pending = {}

(* What is on screen of a request, against what is recorded of it. *)
ViewInv ==
  /\ \A r \in Requests \ anchored :
       /\ view[r] \in {"none", "open", "closing", "gone"}
       /\ view[r] \in {"open", "closing"} => r = openRef
       /\ view[r] = "open" => closed[r] = Unset
       /\ view[r] = "closing" => closed[r] # Unset
       /\ (closed[r] # Unset /\ ~Settled(r)) => view[r] = "closing"
  /\ \A r \in anchored : Settled(r) => view[r] = "gone"
  /\ hiding \cap anchored = {}
  /\ \A r \in hiding : ~Settled(r) => (r = openRef /\ closed[r] = Unset)

(* The values that will be, and were, handed to the promises. *)
ValueInv ==
  \A r \in Requests :
    /\ picked[r] = Value(r)
    /\ r > asked => (~Settled(r) /\ closed[r] = Unset /\ view[r] = "none")
    /\ (r <= asked /\ Settled(r)) => answer[r] = picked[r]

(* The manager's handle. *)
AnchorInv ==
  /\ anchored \subseteq 1..asked
  /\ current \in anchored \cup {0}
  /\ OneAnchoredPrompt

(* Destroy callbacks and the focus. *)
CallbackInv ==
  /\ pending \subseteq watched
  /\ watched \subseteq 1..asked
  /\ \A r \in pending : owner[r] \in destroyed
  /\ \A r \in watched : ~Settled(r)
  /\ \A r \in 1..asked :
       ~Settled(r) =>
         (r \in watched <=> (owner[r] \notin destroyed \/ r \in pending))
  /\ \A r \in (1..asked) \ anchored :
       (~Settled(r) /\ owner[r] \in destroyed /\ r \notin pending)
         => (r = openRef /\ r \notin restore)
  /\ restore \subseteq 1..asked
  /\ restore \cap anchored = {}

IInv == TypeOK /\ QueueInv /\ ViewInv /\ ValueInv /\ AnchorInv /\ CallbackInv

-----------------------------------------------------------------------------

(* Removing an element leaves the others, once each, behind the same head. *)
LEMMA WithoutElement ==
  ASSUME NEW S, NEW q \in Seq(S), NEW r, NoRepeats(q)
  PROVE  /\ Without(q, r) \in Seq(S)
         /\ NoRepeats(Without(q, r))
         /\ Elements(Without(q, r)) = Elements(q) \ {r}
         /\ (q # <<>> /\ Head(q) # r) =>
              (Without(q, r) # <<>> /\ Head(Without(q, r)) = Head(q))
<1>1. CASE ~\E k \in DOMAIN q : q[k] = r
  BY <1>1 DEF Without, Elements
<1>2. CASE \E k \in DOMAIN q : q[k] = r
  <2> DEFINE k == CHOOSE k \in DOMAIN q : q[k] = r
             w == [i \in 1..(Len(q) - 1) |-> IF i < k THEN q[i] ELSE q[i + 1]]
  <2>1. k \in DOMAIN q /\ q[k] = r
    BY <1>2
  <2>2. Without(q, r) = w
    BY <1>2 DEF Without
  <2> HIDE DEF k
  <2>3. /\ Len(q) \in Nat /\ DOMAIN q = 1..Len(q)
        /\ \A i \in 1..Len(q) : q[i] \in S
    OBVIOUS
  <2>4. w \in Seq(S) /\ DOMAIN w = 1..(Len(q) - 1)
    <3>1. Len(q) - 1 \in Nat
      BY <2>1, <2>3
    <3>2. w \in [1..(Len(q) - 1) -> S]
      BY <2>1, <2>3
    <3> QED
      BY <3>1, <3>2
  <2>5. NoRepeats(w)
    BY <2>1, <2>3, <2>4 DEF NoRepeats
  <2>6. Elements(w) \subseteq Elements(q) \ {r}
    BY <2>1, <2>3, <2>4 DEF NoRepeats, Elements
  <2>7. ASSUME NEW i \in DOMAIN q, q[i] # r
        PROVE  \E j \in DOMAIN w : w[j] = q[i]
    <3>1. CASE i < k
      BY <3>1, <2>1, <2>3, <2>4
    <3>2. CASE i > k
      <4>1. i - 1 \in DOMAIN w /\ w[i - 1] = q[i]
        BY <3>2, <2>1, <2>3, <2>4
      <4> QED
        BY <4>1
    <3> QED
      BY <3>1, <3>2, <2>7, <2>1, <2>3
  <2>8. Elements(w) = Elements(q) \ {r}
    BY <2>6, <2>7 DEF Elements
  <2>9. (q # <<>> /\ Head(q) # r) => (w # <<>> /\ Head(w) = Head(q))
    BY <2>1, <2>3, <2>4
  <2> QED
    BY <2>2, <2>4, <2>5, <2>8, <2>9
<1> QED
  BY <1>1, <1>2

(* Appending a new element. *)
LEMMA AppendElement ==
  ASSUME NEW S, NEW q \in Seq(S), NEW r \in S, NoRepeats(q), r \notin Elements(q)
  PROVE  /\ Append(q, r) \in Seq(S)
         /\ NoRepeats(Append(q, r))
         /\ Elements(Append(q, r)) = Elements(q) \cup {r}
         /\ Append(q, r) # <<>>
         /\ q # <<>> => Head(Append(q, r)) = Head(q)
<1> DEFINE w == Append(q, r)
<1>1. /\ w \in Seq(S) /\ Len(q) \in Nat /\ Len(w) = Len(q) + 1
      /\ DOMAIN q = 1..Len(q) /\ DOMAIN w = 1..(Len(q) + 1)
      /\ \A i \in 1..Len(q) : w[i] = q[i]
      /\ w[Len(q) + 1] = r
  OBVIOUS
<1>2. \A i \in DOMAIN q : q[i] # r
  BY DEF Elements
<1> HIDE DEF w
<1>3. NoRepeats(w)
  BY <1>1, <1>2 DEF NoRepeats
<1>4. Elements(w) = Elements(q) \cup {r}
  <2>1. Elements(w) \subseteq Elements(q) \cup {r}
    BY <1>1 DEF Elements
  <2>2. \A i \in DOMAIN q : i \in DOMAIN w /\ w[i] = q[i]
    BY <1>1
  <2>3. Len(q) + 1 \in DOMAIN w
    BY <1>1
  <2> QED
    BY <1>1, <2>1, <2>2, <2>3 DEF Elements
<1>5. w # <<>> /\ (q # <<>> => Head(w) = Head(q))
  BY <1>1
<1> QED
  BY <1>1, <1>3, <1>4, <1>5 DEF w

LEMMA HeadIsElement ==
  ASSUME NEW S, NEW q \in Seq(S), q # <<>>
  PROVE  Head(q) \in S /\ Head(q) \in Elements(q)
  BY DEF Elements

(* What answering a waiting modal request does to the queue. *)
LEMMA SettleQueue ==
  ASSUME TypeOK, QueueInv, NEW r \in (1..asked) \ anchored, ~Settled(r),
         NEW value \in Answers,
         asked' = asked, anchored' = anchored,
         queue' = Without(queue, r),
         answer' = [answer EXCEPT ![r] = value]
  PROVE  /\ queue' \in Seq(Requests)
         /\ NoRepeats(queue')
         /\ Elements(queue') = {s \in (1..asked') \ anchored' : ~Settled(s)'}
         /\ (queue # <<>> /\ Head(queue) # r) =>
              (queue' # <<>> /\ Head(queue') = Head(queue))
<1>1. /\ queue' \in Seq(Requests)
      /\ NoRepeats(queue')
      /\ Elements(queue') = Elements(queue) \ {r}
      /\ (queue # <<>> /\ Head(queue) # r) =>
           (queue' # <<>> /\ Head(queue') = Head(queue))
  BY WithoutElement DEF TypeOK, QueueInv
<1>2. r \in Requests
  BY PromptsAssumption DEF TypeOK, Requests
<1>3. value # Unset
  BY PromptsAssumption DEF Answers
<1>4. \A s \in Requests : Settled(s)' <=> (Settled(s) \/ s = r)
  BY <1>2, <1>3 DEF TypeOK, Settled
<1>5. 1..asked \subseteq Requests
  BY PromptsAssumption DEF TypeOK, Requests
<1>6. Elements(queue) \ {r} = {s \in (1..asked') \ anchored' : ~Settled(s)'}
  BY <1>4, <1>5 DEF QueueInv
<1> QED
  BY <1>1, <1>6

(* The presented request is a modal one that waits for its answer. *)
LEMMA PresentedWaits ==
  ASSUME TypeOK, QueueInv, openRef # 0
  PROVE  openRef \in (1..asked) \ anchored /\ ~Settled(openRef)
  BY HeadIsElement DEF TypeOK, QueueInv

(* The initial state satisfies the inductive invariant. *)
LEMMA InitIInv == Init => IInv
<1> SUFFICES ASSUME Init PROVE IInv
  OBVIOUS
<1> USE PromptsAssumption DEF Init
<1>1. TypeOK
  <2>1. queue \in Seq(Requests)
    OBVIOUS
  <2>2. /\ owner \in [Requests -> Callers \cup {NoCaller}]
        /\ view \in [Requests -> {"none", "opening", "open", "closing", "gone"}]
    OBVIOUS
  <2>3. /\ closed \in [Requests -> Answers \cup {Unset}]
        /\ answer \in [Requests -> Answers \cup {Unset}]
        /\ picked \in [Requests -> Answers]
    BY DEF Answers
  <2>4. 0 \in 0..MaxRequests
    OBVIOUS
  <2> QED
    BY <2>1, <2>2, <2>3, <2>4 DEF TypeOK
<1>2. QueueInv
  BY DEF QueueInv, NoRepeats, Elements
<1>3. ViewInv
  BY DEF ViewInv
<1>4. ValueInv
  BY DEF ValueInv, Value, Settled
<1>5. AnchorInv
  BY DEF AnchorInv, OneAnchoredPrompt
<1>6. CallbackInv
  BY DEF CallbackInv
<1> QED
  BY <1>1, <1>2, <1>3, <1>4, <1>5, <1>6 DEF IInv

(* Every step keeps the inductive invariant. *)
LEMMA StepIInv ==
  ASSUME IInv, Next
  PROVE  IInv'
<1> USE PromptsAssumption
<1>0. TypeOK /\ QueueInv /\ ViewInv /\ ValueInv /\ AnchorInv /\ CallbackInv
  BY DEF IInv
<1>1. ASSUME NEW c \in Callers, AskTooLate(c)
      PROVE  IInv'
  <2>0. /\ asked + 1 \in Requests /\ asked' = asked + 1 /\ asked \in Nat
        /\ ~Settled(asked + 1)
        /\ asked + 1 \notin anchored
    BY <1>0, <1>1 DEF AskTooLate, Ask, TypeOK, ValueInv, AnchorInv, Requests
  <2>1. TypeOK'
    BY <1>0, <1>1 DEF AskTooLate, Ask, Quiet, TypeOK, Answers, Requests
  <2>2. QueueInv'
    <3>1. \A s \in 1..asked : Settled(s)' <=> Settled(s)
      BY <1>0, <1>1, <2>0 DEF AskTooLate, TypeOK, Settled, Requests
    <3>2. answer'[asked + 1] # Unset
      BY <1>0, <1>1, <2>0 DEF AskTooLate, TypeOK, Settled
    <3>3. 1..asked' = (1..asked) \cup {asked + 1}
      BY <2>0
    <3>4. {s \in (1..asked) \ anchored : ~Settled(s)}
            = {s \in (1..asked') \ anchored' : ~Settled(s)'}
      BY <1>1, <2>0, <3>1, <3>2, <3>3 DEF AskTooLate, Settled
    <3> QED
      BY <1>0, <1>1, <3>4 DEF AskTooLate, QueueInv, NoRepeats, Elements
  <2>3. ViewInv'
    BY <1>0, <1>1 DEF AskTooLate, Ask, Quiet, ViewInv, Settled,
       Requests, TypeOK, Answers, QueueInv, NoRepeats, Elements,
       ValueInv, Value, AnchorInv, OneAnchoredPrompt
  <2>4. ValueInv'
    BY <1>0, <1>1 DEF AskTooLate, Ask, Quiet, ValueInv, Value, Settled,
       Answers, TypeOK, Requests, ViewInv, QueueInv, NoRepeats,
       Elements, AnchorInv, OneAnchoredPrompt
  <2>5. AnchorInv'
    BY <1>0, <1>1 DEF AskTooLate, Ask, Quiet, AnchorInv,
       OneAnchoredPrompt, Settled, TypeOK, Answers, Requests, ViewInv,
       QueueInv, NoRepeats, Elements, ValueInv, Value
  <2>6. CallbackInv'
    BY <1>0, <1>1 DEF AskTooLate, Ask, Quiet, CallbackInv, Settled,
       Requests, TypeOK, Answers, QueueInv, NoRepeats, Elements,
       ViewInv, AnchorInv, OneAnchoredPrompt
  <2> QED
    BY <2>1, <2>2, <2>3, <2>4, <2>5, <2>6 DEF IInv
<1>2. ASSUME NEW c \in Callers, NEW delays \in BOOLEAN, AskModal(c, delays)
      PROVE  IInv'
  <2>0. /\ asked + 1 \in Requests /\ asked' = asked + 1 /\ asked \in Nat
        /\ ~Settled(asked + 1)
        /\ asked + 1 \notin anchored
    BY <1>0, <1>2 DEF AskModal, Ask, TypeOK, ValueInv, AnchorInv, Requests
  <2>1. TypeOK'
    BY <1>0, <1>2 DEF AskModal, Ask, Quiet, TypeOK, Answers, Requests
  <2>2. QueueInv'
    <3>1. \A s \in 1..(asked + 1) : Settled(s)' <=> Settled(s)
      BY <1>2 DEF AskModal, Settled
    <3>2. asked + 1 \notin Elements(queue)
      BY <1>0, <2>0 DEF QueueInv
    <3>3. /\ NoRepeats(queue')
          /\ Elements(queue') = Elements(queue) \cup {asked + 1}
          /\ queue' # <<>> /\ (queue # <<>> => Head(queue') = Head(queue))
      BY <1>0, <1>2, <2>0, <3>2, AppendElement DEF AskModal, TypeOK, QueueInv
    <3>4. 1..asked' = (1..asked) \cup {asked + 1}
      BY <2>0
    <3>5. Elements(queue') = {s \in (1..asked') \ anchored' : ~Settled(s)'}
      BY <1>0, <1>2, <2>0, <3>1, <3>3, <3>4 DEF AskModal, QueueInv
    <3> QED
      BY <1>0, <1>2, <3>3, <3>5 DEF AskModal, Quiet, QueueInv
  <2>3. ViewInv'
    BY <1>0, <1>2 DEF AskModal, Ask, Quiet, ViewInv, Settled, Requests,
       TypeOK, Answers, QueueInv, NoRepeats, Elements, ValueInv, Value,
       AnchorInv, OneAnchoredPrompt
  <2>4. ValueInv'
    BY <1>0, <1>2 DEF AskModal, Ask, Quiet, ValueInv, Value, Settled,
       Answers, TypeOK, Requests, ViewInv, QueueInv, NoRepeats,
       Elements, AnchorInv, OneAnchoredPrompt
  <2>5. AnchorInv'
    BY <1>0, <1>2 DEF AskModal, Ask, Quiet, AnchorInv,
       OneAnchoredPrompt, Settled, TypeOK, Answers, Requests, ViewInv,
       QueueInv, NoRepeats, Elements, ValueInv, Value
  <2>6. CallbackInv'
    BY <1>0, <1>2, <2>0
       DEF AskModal, Ask, Quiet, CallbackInv, TypeOK, Settled, Requests
  <2> QED
    BY <2>1, <2>2, <2>3, <2>4, <2>5, <2>6 DEF IInv
<1>3. ASSUME NEW c \in Callers, NEW delays \in BOOLEAN, AskAnchored(c, delays)
      PROVE  IInv'
  <2>0. openRef # 0 => (openRef \in (1..asked) \ anchored /\ ~Settled(openRef))
    BY <1>0, PresentedWaits
  <2>1. TypeOK'
    BY <1>0, <1>3 DEF AskAnchored, Ask, Value, Quiet, TypeOK, Answers,
       Requests
  <2>2. QueueInv'
    <3>1. /\ asked' = asked + 1 /\ asked \in Nat /\ anchored' = anchored \cup {asked + 1}
          /\ UNCHANGED <<queue, openRef, pumping, pending>>
      BY <1>0, <1>3 DEF AskAnchored, Ask, TypeOK
    <3>2. \A s \in Requests : Settled(s)' <=> (Settled(s) \/ s = current)
      BY <1>0, <1>3, PromptsAssumption
         DEF AskAnchored, TypeOK, Settled, Value, Requests
    <3>3. current \notin (1..asked) \ anchored /\ 1..asked \subseteq Requests
      BY <1>0 DEF AnchorInv, TypeOK, Requests
    <3>4. (1..asked') \ anchored' = (1..asked) \ anchored
      BY <1>0, <3>1 DEF AnchorInv
    <3>5. {s \in (1..asked) \ anchored : ~Settled(s)}
            = {s \in (1..asked') \ anchored' : ~Settled(s)'}
      BY <3>2, <3>3, <3>4
    <3> QED
      BY <1>0, <3>1, <3>5 DEF QueueInv, NoRepeats, Elements
  <2>3. ViewInv'
    <3>1. /\ asked' = asked + 1 /\ asked + 1 \in Requests /\ ~Settled(asked + 1)
          /\ asked + 1 \notin anchored /\ asked + 1 # current
      BY <1>0, <1>3 DEF AskAnchored, Ask, TypeOK, ValueInv, AnchorInv,
         Requests
    <3>2. \A s \in Requests : Settled(s)' <=> (Settled(s) \/ s = current)
      BY <1>0, <1>3, PromptsAssumption
         DEF AskAnchored, TypeOK, Settled, Value, Requests
    <3>3. /\ anchored' = anchored \cup {asked + 1}
          /\ UNCHANGED <<closed, openRef, hiding>>
          /\ \A s \in Requests : view'[s] = IF s = current THEN "gone"
                                ELSE IF s = asked + 1 THEN "opening" ELSE view[s]
      BY <1>3 DEF AskAnchored
    <3>4. current # 0 => current \in anchored
      BY <1>0 DEF AnchorInv
    <3>5. asked + 1 \notin hiding
      BY <1>0, <2>0, <3>1 DEF ViewInv, TypeOK
    <3>6. anchored \subseteq Requests /\ hiding \subseteq Requests /\ 0 \notin Requests
      BY <1>0 DEF TypeOK, Requests
    <3> QED
      BY <1>0, <2>0, <3>1, <3>2, <3>3, <3>4, <3>5, <3>6 DEF ViewInv
  <2>4. ValueInv'
    BY <1>0, <1>3 DEF AskAnchored, Ask, Value, Quiet, ValueInv, Settled,
       Answers, TypeOK, Requests, ViewInv, QueueInv, NoRepeats,
       Elements, AnchorInv, OneAnchoredPrompt
  <2>5. AnchorInv'
    BY <1>0, <1>3 DEF AskAnchored, Ask, Value, Quiet, AnchorInv,
       OneAnchoredPrompt, Settled, TypeOK, Answers, Requests, ViewInv,
       QueueInv, NoRepeats, Elements, ValueInv
  <2>6. CallbackInv'
    <3>1. /\ asked' = asked + 1 /\ asked + 1 \in Requests /\ ~Settled(asked + 1)
          /\ asked + 1 \notin watched /\ asked + 1 # current
      BY <1>0, <1>3 DEF AskAnchored, Ask, TypeOK, ValueInv, AnchorInv,
         CallbackInv,
         Requests
    <3>2. \A s \in Requests : Settled(s)' <=> (Settled(s) \/ s = current)
      BY <1>0, <1>3, PromptsAssumption
         DEF AskAnchored, TypeOK, Settled, Value, Requests
    <3>3. \A s \in Requests : s # asked + 1 => owner'[s] = owner[s]
      BY <1>3 DEF AskAnchored, Ask, TypeOK
    <3>4. owner'[asked + 1] = c /\ c \notin destroyed
      BY <1>0, <1>3, <3>1 DEF AskAnchored, Ask, TypeOK
    <3>5. 1..asked' = (1..asked) \cup {asked + 1} /\ 1..asked \subseteq Requests
      BY <1>0, <3>1 DEF TypeOK, Requests
    <3>6. pending = {} /\ pending' = {}
      BY <1>3 DEF AskAnchored, Quiet
    <3>7. /\ watched' = (watched \ {current}) \cup {asked + 1}
          /\ anchored' = anchored \cup {asked + 1}
          /\ destroyed' = destroyed /\ openRef' = openRef /\ restore' = restore
      BY <1>3 DEF AskAnchored
    <3>8. /\ \A s \in 1..asked : owner[s] = owner'[s]
          /\ asked + 1 \notin 1..asked
      BY <1>0, <3>3, <3>5 DEF TypeOK
    <3>9. \A s \in 1..asked' :
            ~Settled(s)' =>
              (s \in watched' <=> (owner'[s] \notin destroyed' \/ s \in pending'))
      BY <1>0, <3>2, <3>4, <3>5, <3>6, <3>7, <3>8 DEF CallbackInv
    <3>10. \A s \in watched' : ~Settled(s)'
      BY <1>0, <3>1, <3>2, <3>5, <3>7 DEF CallbackInv
    <3>11. \A s \in (1..asked') \ anchored' :
             (~Settled(s)' /\ owner'[s] \in destroyed' /\ s \notin pending')
               => (s = openRef' /\ s \notin restore')
      BY <1>0, <3>2, <3>5, <3>6, <3>7, <3>8 DEF CallbackInv
    <3>12. restore' \cap anchored' = {} /\ restore' \subseteq 1..asked'
      BY <1>0, <3>5, <3>7, <3>8 DEF CallbackInv
    <3> QED
      BY <1>0, <3>5, <3>6, <3>7, <3>9, <3>10, <3>11, <3>12 DEF CallbackInv
  <2> QED
    BY <2>1, <2>2, <2>3, <2>4, <2>5, <2>6 DEF IInv
<1>4. ASSUME NEW c \in Callers, Destroy(c)
      PROVE  IInv'
  <2>1. TypeOK'
    BY <1>0, <1>4 DEF Destroy, Quiet, TypeOK, Answers, Requests
  <2>2. QueueInv'
    BY <1>0, <1>4 DEF Destroy, Quiet, QueueInv, Settled, NoRepeats,
       Elements, Requests, TypeOK, Answers, CallbackInv, AnchorInv,
       OneAnchoredPrompt
  <2>3. ViewInv'
    BY <1>0, <1>4 DEF Destroy, Quiet, ViewInv, Settled, Requests,
       TypeOK, Answers, QueueInv, NoRepeats, Elements, ValueInv, Value,
       AnchorInv, OneAnchoredPrompt
  <2>4. ValueInv'
    BY <1>0, <1>4 DEF Destroy, Quiet, ValueInv, Value, Settled, Answers,
       TypeOK, Requests, ViewInv, QueueInv, NoRepeats, Elements,
       AnchorInv, OneAnchoredPrompt
  <2>5. AnchorInv'
    BY <1>0, <1>4 DEF Destroy, Quiet, AnchorInv, OneAnchoredPrompt,
       Settled, TypeOK, Answers, Requests, ViewInv, QueueInv, NoRepeats,
       Elements, ValueInv, Value
  <2>6. CallbackInv'
    BY <1>0, <1>4 DEF Destroy, Quiet, CallbackInv, Settled, Requests,
       TypeOK, Answers, QueueInv, NoRepeats, Elements, ViewInv,
       AnchorInv, OneAnchoredPrompt
  <2> QED
    BY <2>1, <2>2, <2>3, <2>4, <2>5, <2>6 DEF IInv
<1>5. ASSUME NEW r \in Requests, NEW value \in Answers, CloseModal(r, value)
      PROVE  IInv'
  <2>1. TypeOK'
    BY <1>0, <1>5 DEF CloseModal, Quiet, TypeOK, Answers, Requests
  <2>2. QueueInv'
    BY <1>0, <1>5 DEF CloseModal, Quiet, QueueInv, Settled, NoRepeats,
       Elements, Requests, TypeOK, Answers, CallbackInv, AnchorInv,
       OneAnchoredPrompt
  <2>3. ViewInv'
    BY <1>0, <1>5 DEF CloseModal, Quiet, ViewInv, Settled, Requests,
       TypeOK, Answers, QueueInv, NoRepeats, Elements, ValueInv, Value,
       AnchorInv, OneAnchoredPrompt
  <2>4. ValueInv'
    BY <1>0, <1>5 DEF CloseModal, Quiet, ValueInv, Value, Settled,
       Answers, TypeOK, Requests, ViewInv, QueueInv, NoRepeats,
       Elements, AnchorInv, OneAnchoredPrompt
  <2>5. AnchorInv'
    BY <1>0, <1>5 DEF CloseModal, Quiet, AnchorInv, OneAnchoredPrompt,
       Settled, TypeOK, Answers, Requests, ViewInv, QueueInv, NoRepeats,
       Elements, ValueInv, Value
  <2>6. CallbackInv'
    BY <1>0, <1>5 DEF CloseModal, Quiet, CallbackInv, Settled, Requests,
       TypeOK, Answers, QueueInv, NoRepeats, Elements, ViewInv,
       AnchorInv, OneAnchoredPrompt
  <2> QED
    BY <2>1, <2>2, <2>3, <2>4, <2>5, <2>6 DEF IInv
<1>6. ASSUME NEW r \in Requests, NEW value \in Actions, ChooseAnchored(r, value)
      PROVE  IInv'
  <2>1. TypeOK'
    BY <1>0, <1>6 DEF ChooseAnchored, Quiet, TypeOK, Answers, Requests
  <2>2. QueueInv'
    BY <1>0, <1>6 DEF ChooseAnchored, Quiet, QueueInv, Settled,
       NoRepeats, Elements, Requests, TypeOK, Answers, CallbackInv,
       AnchorInv, OneAnchoredPrompt
  <2>3. ViewInv'
    BY <1>0, <1>6 DEF ChooseAnchored, Quiet, ViewInv, Settled, Requests,
       TypeOK, Answers, QueueInv, NoRepeats, Elements, ValueInv, Value,
       AnchorInv, OneAnchoredPrompt
  <2>4. ValueInv'
    BY <1>0, <1>6 DEF ChooseAnchored, Quiet, ValueInv, Value, Settled,
       Answers, TypeOK, Requests, ViewInv, QueueInv, NoRepeats,
       Elements, AnchorInv, OneAnchoredPrompt
  <2>5. AnchorInv'
    BY <1>0, <1>6 DEF ChooseAnchored, Quiet, AnchorInv,
       OneAnchoredPrompt, Settled, TypeOK, Answers, Requests, ViewInv,
       QueueInv, NoRepeats, Elements, ValueInv, Value
  <2>6. CallbackInv'
    BY <1>0, <1>6 DEF ChooseAnchored, Quiet, CallbackInv, Settled,
       Requests, TypeOK, Answers, QueueInv, NoRepeats, Elements,
       ViewInv, AnchorInv, OneAnchoredPrompt
  <2> QED
    BY <2>1, <2>2, <2>3, <2>4, <2>5, <2>6 DEF IInv
<1>7. ASSUME NEW r \in Requests, DismissAnchored(r)
      PROVE  IInv'
  <2>1. TypeOK'
    BY <1>0, <1>7 DEF DismissAnchored, Quiet, TypeOK, Answers, Requests
  <2>2. QueueInv'
    BY <1>0, <1>7 DEF DismissAnchored, Quiet, QueueInv, Settled,
       NoRepeats, Elements, Requests, TypeOK, Answers, CallbackInv,
       AnchorInv, OneAnchoredPrompt
  <2>3. ViewInv'
    BY <1>0, <1>7 DEF DismissAnchored, Quiet, ViewInv, Settled,
       Requests, TypeOK, Answers, QueueInv, NoRepeats, Elements,
       ValueInv, Value, AnchorInv, OneAnchoredPrompt
  <2>4. ValueInv'
    BY <1>0, <1>7 DEF DismissAnchored, Quiet, ValueInv, Value, Settled,
       Answers, TypeOK, Requests, ViewInv, QueueInv, NoRepeats,
       Elements, AnchorInv, OneAnchoredPrompt
  <2>5. AnchorInv'
    BY <1>0, <1>7 DEF DismissAnchored, Quiet, AnchorInv,
       OneAnchoredPrompt, Settled, TypeOK, Answers, Requests, ViewInv,
       QueueInv, NoRepeats, Elements, ValueInv, Value
  <2>6. CallbackInv'
    BY <1>0, <1>7 DEF DismissAnchored, Quiet, CallbackInv, Settled,
       Requests, TypeOK, Answers, QueueInv, NoRepeats, Elements,
       ViewInv, AnchorInv, OneAnchoredPrompt
  <2> QED
    BY <2>1, <2>2, <2>3, <2>4, <2>5, <2>6 DEF IInv
<1>8. ASSUME NEW r \in Requests, DestroyWaiting(r)
      PROVE  IInv'
  <2>0. /\ r \in (1..asked) \ anchored /\ ~Settled(r) /\ r # openRef
        /\ openRef # 0 /\ queue # <<>> /\ Head(queue) # r
        /\ 1..asked \subseteq Requests /\ owner[r] \in destroyed
        /\ closed[r] = Unset
    <3>1. /\ r \in (1..asked) \ anchored /\ ~Settled(r)
          /\ owner[r] \in destroyed /\ ~pumping /\ ~OnScreen(r)
      BY <1>0, <1>8 DEF DestroyWaiting, CallbackInv
    <3>2. queue # <<>>
      BY <1>0, <3>1 DEF QueueInv, Elements
    <3>3. openRef # 0 /\ Head(queue) # r /\ r # openRef
      BY <1>0, <3>1, <3>2 DEF QueueInv, OnScreen
    <3>4. 1..asked \subseteq Requests
      BY <1>0 DEF TypeOK, Requests
    <3>5. closed[r] = Unset
      BY <1>0, <3>1, <3>3, <3>4 DEF ViewInv
    <3> QED
      BY <3>1, <3>2, <3>3, <3>4, <3>5
  <2>00. /\ restore' = restore \ {r} /\ pumping' = TRUE
         /\ answer' = [answer EXCEPT ![r] = Dismissed]
         /\ watched' = watched \ {r} /\ pending' = pending \ {r}
         /\ queue' = Without(queue, r) /\ refocused' = refocused
         /\ UNCHANGED <<asked, owner, anchored, gated, destroyed, openRef,
                        hiding, current, view, closed, picked>>
    BY <1>8, <2>0 DEF DestroyWaiting, SettleEntry
  <2>000. /\ queue' \in Seq(Requests)
          /\ NoRepeats(queue')
          /\ Elements(queue') = {s \in (1..asked') \ anchored' : ~Settled(s)'}
          /\ queue' # <<>> /\ Head(queue') = Head(queue)
    BY <1>0, <2>0, <2>00, SettleQueue DEF Answers
  <2>0000. \A s \in Requests : ~Settled(s)' <=> (~Settled(s) /\ s # r)
    BY <1>0, <2>0, <2>00 DEF Settled, TypeOK
  <2>1. TypeOK'
    BY <1>0, <2>0, <2>00, <2>000, <2>0000 DEF TypeOK, Answers
  <2>2. QueueInv'
    BY <1>0, <2>0, <2>00, <2>000, <2>0000 DEF QueueInv
  <2>3. ViewInv'
    BY <1>0, <2>0, <2>00, <2>000, <2>0000 DEF ViewInv, TypeOK
  <2>4. ValueInv'
    BY <1>0, <2>0, <2>00, <2>000, <2>0000 DEF ValueInv, Value, Settled,
       TypeOK, Requests
  <2>5. AnchorInv'
    BY <1>0, <2>0, <2>00, <2>000, <2>0000 DEF AnchorInv,
       OneAnchoredPrompt, TypeOK
  <2>6. CallbackInv'
    BY <1>0, <2>0, <2>00, <2>000, <2>0000 DEF CallbackInv
  <2> QED
    BY <2>1, <2>2, <2>3, <2>4, <2>5, <2>6 DEF IInv
<1>9. ASSUME NEW r \in Requests, DestroyPresented(r)
      PROVE  IInv'
  <2>1. TypeOK'
    BY <1>0, <1>9 DEF DestroyPresented, OnScreen, Quiet, TypeOK,
       Answers, Requests
  <2>2. QueueInv'
    BY <1>0, <1>9 DEF DestroyPresented, OnScreen, Quiet, QueueInv,
       Settled, NoRepeats, Elements, Requests, TypeOK, Answers,
       CallbackInv, AnchorInv, OneAnchoredPrompt
  <2>3. ViewInv'
    BY <1>0, <1>9 DEF DestroyPresented, OnScreen, Quiet, ViewInv,
       Settled, Requests, TypeOK, Answers, QueueInv, NoRepeats,
       Elements, ValueInv, Value, AnchorInv, OneAnchoredPrompt
  <2>4. ValueInv'
    BY <1>0, <1>9 DEF DestroyPresented, OnScreen, Quiet, ValueInv,
       Value, Settled, Answers, TypeOK, Requests, ViewInv, QueueInv,
       NoRepeats, Elements, AnchorInv, OneAnchoredPrompt
  <2>5. AnchorInv'
    BY <1>0, <1>9 DEF DestroyPresented, OnScreen, Quiet, AnchorInv,
       OneAnchoredPrompt, Settled, TypeOK, Answers, Requests, ViewInv,
       QueueInv, NoRepeats, Elements, ValueInv, Value
  <2>6. CallbackInv'
    BY <1>0, <1>9 DEF DestroyPresented, OnScreen, Quiet, CallbackInv,
       Settled, Requests, TypeOK, Answers, QueueInv, NoRepeats,
       Elements, ViewInv, AnchorInv, OneAnchoredPrompt
  <2> QED
    BY <2>1, <2>2, <2>3, <2>4, <2>5, <2>6 DEF IInv
<1>10. ASSUME NEW r \in Requests, DestroyAnchored(r)
      PROVE  IInv'
  <2>0. /\ \A s \in Requests \ {r} : Settled(s)' <=> Settled(s)
        /\ r \in anchored /\ 1..asked \subseteq Requests
    BY <1>0, <1>10 DEF DestroyAnchored, SettleAnchored, TypeOK, Settled,
       Requests
  <2>00. /\ ~Settled(r) /\ owner[r] \in destroyed
         /\ answer' = [answer EXCEPT ![r] = Value(r)]
         /\ Value(r) # Unset /\ watched' = watched \ {r}
         /\ pending' = pending \ {r}
    BY <1>0, <1>10, <2>0 DEF DestroyAnchored, SettleAnchored,
       CallbackInv, Value,
       TypeOK, Answers
  <2>1. TypeOK'
    BY <1>0, <1>10 DEF DestroyAnchored, SettleAnchored, Value, Quiet,
       TypeOK, Answers, Requests
  <2>2. QueueInv'
    <3>1. UNCHANGED <<asked, anchored, queue, openRef, pumping>>
      BY <1>10 DEF DestroyAnchored
    <3>2. pending' \subseteq pending
      BY <1>10 DEF DestroyAnchored
    <3>3. {s \in (1..asked) \ anchored : ~Settled(s)}
            = {s \in (1..asked') \ anchored' : ~Settled(s)'}
      BY <2>0, <3>1
    <3> QED
      BY <1>0, <3>1, <3>2, <3>3 DEF QueueInv
  <2>3. ViewInv'
    BY <1>0, <1>10 DEF DestroyAnchored, SettleAnchored, Value, Quiet,
       ViewInv, Settled, Requests, TypeOK, Answers, QueueInv, NoRepeats,
       Elements, ValueInv, AnchorInv, OneAnchoredPrompt
  <2>4. ValueInv'
    BY <1>0, <1>10 DEF DestroyAnchored, SettleAnchored, Value, Quiet,
       ValueInv, Settled, Answers, TypeOK, Requests, ViewInv, QueueInv,
       NoRepeats, Elements, AnchorInv, OneAnchoredPrompt
  <2>5. AnchorInv'
    BY <1>0, <1>10 DEF DestroyAnchored, SettleAnchored, Value, Quiet,
       AnchorInv, OneAnchoredPrompt, Settled, TypeOK, Answers, Requests,
       ViewInv, QueueInv, NoRepeats, Elements, ValueInv
  <2>6. CallbackInv'
    <3>1. Settled(r)'
      BY <1>0, <2>0, <2>00 DEF Settled, TypeOK, Requests
    <3> QED
      BY <1>0, <1>10, <2>0, <2>00, <3>1 DEF DestroyAnchored, CallbackInv
  <2> QED
    BY <2>1, <2>2, <2>3, <2>4, <2>5, <2>6 DEF IInv
<1>11. ASSUME NEW r \in Requests, ModalExits(r)
      PROVE  IInv'
  <2>0. /\ r = openRef /\ r \in (1..asked) \ anchored /\ ~Settled(r)
        /\ pending = {} /\ closed[r] \in Answers \cup {Unset}
        /\ r \in Requests
    BY <1>0, <1>11, PresentedWaits DEF ModalExits, Quiet, ViewInv,
       TypeOK, Requests
  <2>00. /\ queue' \in Seq(Requests)
         /\ NoRepeats(queue')
         /\ Elements(queue') = {s \in (1..asked') \ anchored' : ~Settled(s)'}
    BY <1>0, <1>11, <2>0, SettleQueue
       DEF ModalExits, FinishPresentedEntry, SettleEntry, ViewInv, Answers
  <2>000. /\ answer' = [answer EXCEPT ![r] = closed[r]] /\ closed[r] \in Answers
          /\ watched' = watched \ {r} /\ restore' = restore
          /\ refocused' = refocused \cup ({r} \cap restore)
          /\ openRef' = 0 /\ pumping' = TRUE
          /\ view' = [view EXCEPT ![r] = "gone"]
    BY <1>0, <1>11, <2>0 DEF ModalExits, FinishPresentedEntry,
       SettleEntry, ViewInv, Answers
  <2>1. TypeOK'
    BY <1>0, <1>11, <2>0, <2>00, <2>000 DEF ModalExits, TypeOK, Requests
  <2>2. QueueInv'
    BY <1>0, <1>11, <2>0, <2>00, <2>000 DEF ModalExits, QueueInv
  <2>3. ViewInv'
    BY <1>0, <1>11 DEF ModalExits, FinishPresentedEntry, SettleEntry,
       EntryUnchanged, Quiet, ViewInv, Settled, Requests, TypeOK,
       Answers, QueueInv, NoRepeats, Elements, ValueInv, Value,
       AnchorInv, OneAnchoredPrompt
  <2>4. ValueInv'
    BY <1>0, <1>11 DEF ModalExits, FinishPresentedEntry, SettleEntry,
       EntryUnchanged, Quiet, ValueInv, Value, Settled, Answers, TypeOK,
       Requests, ViewInv, QueueInv, NoRepeats, Elements, AnchorInv,
       OneAnchoredPrompt
  <2>5. AnchorInv'
    BY <1>0, <1>11 DEF ModalExits, FinishPresentedEntry, SettleEntry,
       EntryUnchanged, Quiet, AnchorInv, OneAnchoredPrompt, Settled,
       TypeOK, Answers, Requests, ViewInv, QueueInv, NoRepeats,
       Elements, ValueInv, Value
  <2>6. CallbackInv'
    <3>1. r \notin watched' /\ pending' = {} /\ 1..asked \subseteq Requests
      BY <1>0, <1>11, <2>0, <2>000 DEF ModalExits, TypeOK, Requests
    <3>2. \A s \in Requests : ~Settled(s)' <=> (~Settled(s) /\ s # r)
      BY <1>0, <2>0, <2>000 DEF Settled, TypeOK, Answers
    <3>3. UNCHANGED <<asked, owner, anchored, destroyed>>
      BY <1>11 DEF ModalExits
    <3> QED
      BY <1>0, <2>0, <2>000, <3>1, <3>2, <3>3 DEF CallbackInv
  <2> QED
    BY <2>1, <2>2, <2>3, <2>4, <2>5, <2>6 DEF IInv
<1>12. ASSUME NEW r \in Requests, HideDetaches(r)
      PROVE  IInv'
  <2>0. /\ r = openRef /\ r \in (1..asked) \ anchored /\ ~Settled(r)
        /\ pending = {} /\ closed[r] \in Answers \cup {Unset}
        /\ r \in Requests
    BY <1>0, <1>12, PresentedWaits DEF HideDetaches, Quiet, ViewInv,
       TypeOK, Requests
  <2>00. /\ queue' \in Seq(Requests)
         /\ NoRepeats(queue')
         /\ Elements(queue') = {s \in (1..asked') \ anchored' : ~Settled(s)'}
    BY <1>0, <1>12, <2>0, SettleQueue
       DEF HideDetaches, FinishPresentedEntry, SettleEntry, ViewInv, Answers
  <2>000. /\ answer' = [answer EXCEPT ![r] = Dismissed] /\ Dismissed \in Answers
          /\ watched' = watched \ {r} /\ restore' = restore
          /\ refocused' = refocused \cup ({r} \cap restore)
          /\ openRef' = 0 /\ pumping' = TRUE
          /\ view' = [view EXCEPT ![r] = "gone"]
    BY <1>0, <1>12, <2>0 DEF HideDetaches, FinishPresentedEntry,
       SettleEntry, ViewInv, Answers
  <2>1. TypeOK'
    BY <1>0, <1>12, <2>0, <2>00, <2>000 DEF HideDetaches, TypeOK, Requests
  <2>2. QueueInv'
    BY <1>0, <1>12, <2>0, <2>00, <2>000 DEF HideDetaches, QueueInv
  <2>3. ViewInv'
    BY <1>0, <1>12 DEF HideDetaches, FinishPresentedEntry, SettleEntry,
       EntryUnchanged, Quiet, ViewInv, Settled, Requests, TypeOK,
       Answers, QueueInv, NoRepeats, Elements, ValueInv, Value,
       AnchorInv, OneAnchoredPrompt
  <2>4. ValueInv'
    BY <1>0, <1>12 DEF HideDetaches, FinishPresentedEntry, SettleEntry,
       EntryUnchanged, Quiet, ValueInv, Value, Settled, Answers, TypeOK,
       Requests, ViewInv, QueueInv, NoRepeats, Elements, AnchorInv,
       OneAnchoredPrompt
  <2>5. AnchorInv'
    BY <1>0, <1>12 DEF HideDetaches, FinishPresentedEntry, SettleEntry,
       EntryUnchanged, Quiet, AnchorInv, OneAnchoredPrompt, Settled,
       TypeOK, Answers, Requests, ViewInv, QueueInv, NoRepeats,
       Elements, ValueInv, Value
  <2>6. CallbackInv'
    <3>1. r \notin watched' /\ pending' = {} /\ 1..asked \subseteq Requests
      BY <1>0, <1>12, <2>0, <2>000 DEF HideDetaches, TypeOK, Requests
    <3>2. \A s \in Requests : ~Settled(s)' <=> (~Settled(s) /\ s # r)
      BY <1>0, <2>0, <2>000 DEF Settled, TypeOK, Answers
    <3>3. UNCHANGED <<asked, owner, anchored, destroyed>>
      BY <1>12 DEF HideDetaches
    <3> QED
      BY <1>0, <2>0, <2>000, <3>1, <3>2, <3>3 DEF CallbackInv
  <2> QED
    BY <2>1, <2>2, <2>3, <2>4, <2>5, <2>6 DEF IInv
<1>13. ASSUME NEW r \in Requests, HideSettles(r)
      PROVE  IInv'
  <2>a. CASE Settled(r)
    <3>1. /\ UNCHANGED <<asked, owner, anchored, destroyed, pending, current,
                         closed, picked, answer, watched, queue, refocused,
                         restore, gated>>
          /\ openRef' = openRef /\ pumping' = TRUE /\ hiding' = hiding \ {r}
          /\ view' = [view EXCEPT ![r] = "gone"] /\ pending = {}
      BY <1>0, <1>13, <2>a, PresentedWaits
         DEF HideSettles, Quiet, FinishPresentedEntry, EntryUnchanged
    <3>2. TypeOK' /\ AnchorInv'
      BY <1>0, <3>1 DEF TypeOK, AnchorInv, OneAnchoredPrompt, Settled
    <3>3. QueueInv'
      BY <1>0, <3>1 DEF QueueInv, Settled
    <3>4. r \notin anchored /\ r \in Requests
      BY <1>0, <1>13 DEF HideSettles, ViewInv
    <3>5. \A s \in Requests : s # r => view'[s] = view[s]
      BY <1>0, <3>1 DEF TypeOK
    <3>6. view'[r] = "gone" /\ r # openRef
      BY <1>0, <2>a, <3>1, <3>4, PresentedWaits DEF TypeOK, Requests
    <3>7. /\ anchored \subseteq Requests /\ hiding' \subseteq hiding
          /\ \A s \in Requests : Settled(s)' <=> Settled(s)
      BY <1>0, <3>1 DEF TypeOK, Settled
    <3>8. ViewInv'
      <4>1. \A s \in Requests \ anchored :
              /\ view'[s] \in {"none", "open", "closing", "gone"}
              /\ view'[s] \in {"open", "closing"} => s = openRef
              /\ view'[s] = "open" => closed[s] = Unset
              /\ view'[s] = "closing" => closed[s] # Unset
              /\ (closed[s] # Unset /\ ~Settled(s)) => view'[s] = "closing"
        BY <1>0, <2>a, <3>5, <3>6 DEF ViewInv
      <4>2. \A s \in anchored : Settled(s) => view'[s] = "gone"
        BY <1>0, <3>4, <3>5, <3>7 DEF ViewInv
      <4>3. /\ anchored' = anchored /\ closed' = closed /\ openRef' = openRef
            /\ hiding' \subseteq Requests
        BY <1>0, <3>1, <3>7 DEF TypeOK
      <4>4. /\ hiding' \cap anchored' = {}
            /\ \A s \in hiding' : ~Settled(s)' => (s = openRef' /\ closed'[s] = Unset)
        BY <1>0, <3>7, <4>3 DEF ViewInv
      <4> QED
        BY <3>7, <4>1, <4>2, <4>3, <4>4 DEF ViewInv
    <3>9. ValueInv'
      BY <1>0, <2>a, <1>13, <3>1, <3>5, <3>6, <3>7 DEF ValueInv,
         Value, Settled
    <3>10. CallbackInv'
      BY <1>0, <3>1 DEF CallbackInv, Settled
    <3> QED
      BY <3>2, <3>3, <3>8, <3>9, <3>10 DEF IInv
  <2>b. CASE ~Settled(r)
    <3>0. /\ r = openRef /\ r \in (1..asked) \ anchored /\ ~Settled(r)
          /\ pending = {} /\ closed[r] \in Answers \cup {Unset}
          /\ r \in Requests
      BY <1>0, <1>13, <2>b, PresentedWaits
         DEF HideSettles, Quiet, ViewInv, TypeOK, Requests
    <3>00. /\ queue' \in Seq(Requests)
           /\ NoRepeats(queue')
           /\ Elements(queue') = {s \in (1..asked') \ anchored' : ~Settled(s)'}
      BY <1>0, <1>13, <3>0, SettleQueue
         DEF HideSettles, FinishPresentedEntry, SettleEntry, ViewInv, Answers
    <3>000. /\ answer' = [answer EXCEPT ![r] = Dismissed] /\ Dismissed \in Answers
            /\ watched' = watched \ {r} /\ restore' = restore
            /\ refocused' = refocused \cup ({r} \cap restore)
            /\ openRef' = 0 /\ pumping' = TRUE
            /\ view' = [view EXCEPT ![r] = "gone"]
      BY <1>0, <1>13, <3>0 DEF HideSettles, FinishPresentedEntry,
         SettleEntry, ViewInv, Answers
    <3>1. TypeOK'
      BY <1>0, <1>13, <3>0, <3>00, <3>000 DEF HideSettles, TypeOK, Requests
    <3>2. QueueInv'
      BY <1>0, <1>13, <3>0, <3>00, <3>000 DEF HideSettles, QueueInv
    <3>6. CallbackInv'
      <4>1. r \notin watched' /\ pending' = {} /\ 1..asked \subseteq Requests
        BY <1>0, <1>13, <3>0, <3>000 DEF HideSettles, TypeOK, Requests
      <4>2. \A s \in Requests : ~Settled(s)' <=> (~Settled(s) /\ s # r)
        BY <1>0, <3>0, <3>000 DEF Settled, TypeOK, Answers
      <4>3. UNCHANGED <<asked, owner, anchored, destroyed>>
        BY <1>13 DEF HideSettles
      <4> QED
        BY <1>0, <3>0, <3>000, <4>1, <4>2, <4>3 DEF CallbackInv
    <3>7. \A s \in Requests : ~Settled(s)' <=> (~Settled(s) /\ s # r)
      BY <1>0, <3>0, <3>000 DEF Settled, TypeOK, Answers
    <3>8. /\ UNCHANGED <<asked, anchored, closed, current, picked>>
          /\ hiding' = hiding \ {r} /\ closed[r] = Unset
      BY <1>0, <1>13, <2>b DEF HideSettles, ViewInv
    <3>3. ViewInv'
      BY <1>0, <3>0, <3>000, <3>7, <3>8 DEF ViewInv, TypeOK
    <3>4. ValueInv'
      BY <1>0, <3>0, <3>000, <3>7, <3>8 DEF ValueInv, Value, Settled,
         TypeOK, Requests
    <3>5. AnchorInv'
      BY <1>0, <3>0, <3>000, <3>7, <3>8 DEF AnchorInv,
         OneAnchoredPrompt, TypeOK
    <3> QED
      BY <3>1, <3>2, <3>3, <3>4, <3>5, <3>6 DEF IInv
  <2> QED
    BY <2>a, <2>b
<1>14. ASSUME NEW r \in Requests, Mount(r)
      PROVE  IInv'
  <2>1. TypeOK'
    BY <1>0, <1>14 DEF Mount, Quiet, TypeOK, Answers, Requests
  <2>2. QueueInv'
    BY <1>0, <1>14 DEF Mount, Quiet, QueueInv, Settled, NoRepeats,
       Elements, Requests, TypeOK, Answers, CallbackInv, AnchorInv,
       OneAnchoredPrompt
  <2>3. ViewInv'
    BY <1>0, <1>14 DEF Mount, Quiet, ViewInv, Settled, Requests, TypeOK,
       Answers, QueueInv, NoRepeats, Elements, ValueInv, Value,
       AnchorInv, OneAnchoredPrompt
  <2>4. ValueInv'
    BY <1>0, <1>14 DEF Mount, Quiet, ValueInv, Value, Settled, Answers,
       TypeOK, Requests, ViewInv, QueueInv, NoRepeats, Elements,
       AnchorInv, OneAnchoredPrompt
  <2>5. AnchorInv'
    BY <1>0, <1>14 DEF Mount, Quiet, AnchorInv, OneAnchoredPrompt,
       Settled, TypeOK, Answers, Requests, ViewInv, QueueInv, NoRepeats,
       Elements, ValueInv, Value
  <2>6. CallbackInv'
    BY <1>0, <1>14 DEF Mount, Quiet, CallbackInv, Settled, Requests,
       TypeOK, Answers, QueueInv, NoRepeats, Elements, ViewInv,
       AnchorInv, OneAnchoredPrompt
  <2> QED
    BY <2>1, <2>2, <2>3, <2>4, <2>5, <2>6 DEF IInv
<1>15. ASSUME NEW r \in Requests, AnchoredExits(r)
      PROVE  IInv'
  <2>0. /\ \A s \in Requests \ {r} : Settled(s)' <=> Settled(s)
        /\ r \in anchored /\ 1..asked \subseteq Requests
    BY <1>0, <1>15 DEF AnchoredExits, SettleAnchored, TypeOK, Settled,
       Requests
  <2>00. /\ ~Settled(r) /\ r = current /\ pending = {}
         /\ answer' = [answer EXCEPT ![r] = Value(r)] /\ current' = 0
         /\ Value(r) # Unset /\ watched' = watched \ {r}
    BY <1>0, <1>15, <2>0 DEF AnchoredExits, Quiet, SettleAnchored,
       ViewInv, AnchorInv,
       OneAnchoredPrompt, Value, TypeOK, Answers
  <2>1. TypeOK'
    BY <1>0, <1>15 DEF AnchoredExits, SettleAnchored, Value, Quiet,
       TypeOK, Answers, Requests
  <2>2. QueueInv'
    <3>1. UNCHANGED <<asked, anchored, queue, openRef, pumping>>
      BY <1>15 DEF AnchoredExits
    <3>2. pending' \subseteq pending
      BY <1>15 DEF AnchoredExits
    <3>3. {s \in (1..asked) \ anchored : ~Settled(s)}
            = {s \in (1..asked') \ anchored' : ~Settled(s)'}
      BY <2>0, <3>1
    <3> QED
      BY <1>0, <3>1, <3>2, <3>3 DEF QueueInv
  <2>3. ViewInv'
    BY <1>0, <1>15 DEF AnchoredExits, SettleAnchored, Value, Quiet,
       ViewInv, Settled, Requests, TypeOK, Answers, QueueInv, NoRepeats,
       Elements, ValueInv, AnchorInv, OneAnchoredPrompt
  <2>4. ValueInv'
    BY <1>0, <1>15 DEF AnchoredExits, SettleAnchored, Value, Quiet,
       ValueInv, Settled, Answers, TypeOK, Requests, ViewInv, QueueInv,
       NoRepeats, Elements, AnchorInv, OneAnchoredPrompt
  <2>5. AnchorInv'
    <3>1. Settled(r)' /\ 0 \notin anchored
      BY <1>0, <2>0, <2>00 DEF Settled, TypeOK, Requests
    <3> QED
      BY <1>0, <1>15, <2>0, <2>00, <3>1
         DEF AnchoredExits, AnchorInv, OneAnchoredPrompt, TypeOK
  <2>6. CallbackInv'
    <3>1. Settled(r)'
      BY <1>0, <2>0, <2>00 DEF Settled, TypeOK, Requests
    <3> QED
      BY <1>0, <1>15, <2>0, <2>00, <3>1 DEF AnchoredExits, CallbackInv
  <2> QED
    BY <2>1, <2>2, <2>3, <2>4, <2>5, <2>6 DEF IInv
<1>16. ASSUME NEW r \in Requests, CountdownEnds(r)
      PROVE  IInv'
  <2>1. TypeOK'
    BY <1>0, <1>16 DEF CountdownEnds, Quiet, TypeOK, Answers, Requests
  <2>2. QueueInv'
    BY <1>0, <1>16 DEF CountdownEnds, Quiet, QueueInv, Settled,
       NoRepeats, Elements, Requests, TypeOK, Answers, CallbackInv,
       AnchorInv, OneAnchoredPrompt
  <2>3. ViewInv'
    BY <1>0, <1>16 DEF CountdownEnds, Quiet, ViewInv, Settled, Requests,
       TypeOK, Answers, QueueInv, NoRepeats, Elements, ValueInv, Value,
       AnchorInv, OneAnchoredPrompt
  <2>4. ValueInv'
    BY <1>0, <1>16 DEF CountdownEnds, Quiet, ValueInv, Value, Settled,
       Answers, TypeOK, Requests, ViewInv, QueueInv, NoRepeats,
       Elements, AnchorInv, OneAnchoredPrompt
  <2>5. AnchorInv'
    BY <1>0, <1>16 DEF CountdownEnds, Quiet, AnchorInv,
       OneAnchoredPrompt, Settled, TypeOK, Answers, Requests, ViewInv,
       QueueInv, NoRepeats, Elements, ValueInv, Value
  <2>6. CallbackInv'
    BY <1>0, <1>16 DEF CountdownEnds, Quiet, CallbackInv, Settled,
       Requests, TypeOK, Answers, QueueInv, NoRepeats, Elements,
       ViewInv, AnchorInv, OneAnchoredPrompt
  <2> QED
    BY <2>1, <2>2, <2>3, <2>4, <2>5, <2>6 DEF IInv
<1>17. ASSUME PumpReturns
      PROVE  IInv'
  <2>1. TypeOK'
    BY <1>0, <1>17 DEF PumpReturns, Quiet, TypeOK, Answers, Requests
  <2>2. QueueInv'
    BY <1>0, <1>17 DEF PumpReturns, Quiet, QueueInv, Settled, NoRepeats,
       Elements, Requests, TypeOK, Answers, CallbackInv, AnchorInv,
       OneAnchoredPrompt
  <2>3. ViewInv'
    BY <1>0, <1>17 DEF PumpReturns, Quiet, ViewInv, Settled, Requests,
       TypeOK, Answers, QueueInv, NoRepeats, Elements, ValueInv, Value,
       AnchorInv, OneAnchoredPrompt
  <2>4. ValueInv'
    BY <1>0, <1>17 DEF PumpReturns, Quiet, ValueInv, Value, Settled,
       Answers, TypeOK, Requests, ViewInv, QueueInv, NoRepeats,
       Elements, AnchorInv, OneAnchoredPrompt
  <2>5. AnchorInv'
    BY <1>0, <1>17 DEF PumpReturns, Quiet, AnchorInv, OneAnchoredPrompt,
       Settled, TypeOK, Answers, Requests, ViewInv, QueueInv, NoRepeats,
       Elements, ValueInv, Value
  <2>6. CallbackInv'
    BY <1>0, <1>17 DEF PumpReturns, Quiet, CallbackInv, Settled,
       Requests, TypeOK, Answers, QueueInv, NoRepeats, Elements,
       ViewInv, AnchorInv, OneAnchoredPrompt
  <2> QED
    BY <2>1, <2>2, <2>3, <2>4, <2>5, <2>6 DEF IInv
<1>18. ASSUME PumpServes
      PROVE  IInv'
  <2>0. /\ Head(queue) \in (1..asked) \ anchored /\ ~Settled(Head(queue))
        /\ openRef = 0 /\ pumping /\ pending = {} /\ queue # <<>>
        /\ 1..asked \subseteq Requests
    BY <1>0, <1>18, HeadIsElement DEF PumpServes, TypeOK, QueueInv, Requests
  <2>00. owner[Head(queue)] \notin destroyed
    BY <1>0, <2>0 DEF CallbackInv
  <2>000. /\ openRef' = Head(queue) /\ pumping' = FALSE
          /\ view' = [view EXCEPT ![Head(queue)] = "open"]
          /\ UNCHANGED <<asked, owner, anchored, gated, destroyed, pending,
                         watched, queue, hiding, current, closed, answer,
                         restore, refocused, picked>>
    BY <1>18, <2>00 DEF PumpServes, EntryUnchanged
  <2>1. TypeOK'
    <3>1. Head(queue) \in Requests /\ Head(queue) \in 0..MaxRequests
      BY <2>0 DEF Requests
    <3>2. view' \in [Requests -> {"none", "opening", "open", "closing", "gone"}]
      BY <1>0, <2>000, <3>1 DEF TypeOK
    <3> QED
      BY <1>0, <2>000, <3>1, <3>2 DEF TypeOK
  <2>2. QueueInv'
    BY <1>0, <2>0, <2>000 DEF QueueInv, Settled
  <2>3. ViewInv'
    <3> DEFINE h == Head(queue)
    <3>1. /\ h \in Requests /\ h \notin anchored /\ h # 0 /\ ~Settled(h)
          /\ 0 \notin Requests
      BY <2>0 DEF Requests
    <3>2. closed[h] = Unset
      BY <1>0, <2>0, <3>1 DEF ViewInv
    <3>3. view'[h] = "open" /\ \A s \in Requests : s # h => view'[s] = view[s]
      BY <1>0, <2>000, <3>1 DEF TypeOK
    <3>4. \A s \in hiding : Settled(s)
      BY <1>0, <2>0, <3>1 DEF ViewInv, TypeOK
    <3>5. /\ \A s \in Requests : Settled(s)' <=> Settled(s)
          /\ anchored \subseteq Requests /\ hiding \subseteq Requests
          /\ UNCHANGED <<anchored, closed, hiding>> /\ openRef' = h
      BY <1>0, <2>000 DEF Settled, TypeOK
    <3> HIDE DEF h
    <3> QED
      BY <1>0, <2>0, <3>1, <3>2, <3>3, <3>4, <3>5 DEF ViewInv
  <2>4. ValueInv'
    BY <1>0, <2>0, <2>000 DEF ValueInv, Value, Settled, TypeOK
  <2>5. AnchorInv'
    BY <1>0, <2>0, <2>000 DEF AnchorInv, OneAnchoredPrompt, Settled
  <2>6. CallbackInv'
    BY <1>0, <2>0, <2>000 DEF CallbackInv, Settled
  <2> QED
    BY <2>1, <2>2, <2>3, <2>4, <2>5, <2>6 DEF IInv
<1> QED
  BY <1>1, <1>2, <1>3, <1>4, <1>5, <1>6, <1>7, <1>8, <1>9, <1>10, <1>11,
     <1>12, <1>13, <1>14, <1>15, <1>16, <1>17, <1>18
     DEF Next, CallerStep, UserStep, Callback

(* Stuttering included. *)
LEMMA NextIInv == IInv /\ [Next]_vars => IInv'
<1> SUFFICES ASSUME IInv, [Next]_vars PROVE IInv'
  OBVIOUS
<1>1. CASE Next
  BY <1>1, StepIInv
<1>2. CASE UNCHANGED vars
  BY <1>2 DEF vars, IInv, TypeOK, QueueInv, ViewInv, ValueInv, AnchorInv,
     CallbackInv, OneAnchoredPrompt, NoRepeats, Elements, Settled, Value
<1> QED
  BY <1>1, <1>2

(* The inductive invariant holds in every reachable state. *)
THEOREM Inductive == Spec => []IInv
  BY InitIInv, NextIInv, PTL DEF Spec

(* The variables keep their types: confirm.ts 238-247 and 259-262. *)
THEOREM TypeCorrect == Spec => []TypeOK
<1>1. IInv => TypeOK
  BY DEF IInv
<1> QED
  BY <1>1, Inductive, PTL

(* Between turns the modal queue is empty or its first request is on       *)
(* screen, unanswered and alone: no end of a dialog - its exit, its        *)
(* caller's destruction, or both - leaves the others waiting.              *)
THEOREM NobodyIsStuck == Spec => []QueueIsServed
<1>1. IInv => QueueIsServed
  <2> SUFFICES ASSUME IInv, Quiet PROVE QueueIsServed
    BY DEF QueueIsServed
  <2>1. queue = <<>> <=> openRef = 0
    BY DEF IInv, QueueInv, Quiet
  <2>2. openRef # 0 => Head(queue) = openRef /\ ~Settled(openRef)
    BY PresentedWaits DEF IInv, QueueInv
  <2>3. \A r \in Requests \ anchored : view[r] \in {"open", "closing"} => r = openRef
    BY DEF IInv, ViewInv
  <2> QED
    BY <2>1, <2>2, <2>3 DEF QueueIsServed
<1> QED
  BY <1>1, Inductive, PTL

(* The promise of a prompt resolves with the answer its user gave, or with *)
(* the dismissal, whoever else ends or displaces the prompt meanwhile.     *)
THEOREM AnswersAreKept == Spec => []AnswerIsThePick
<1>1. IInv => AnswerIsThePick
  BY PromptsAssumption DEF IInv, ValueInv, AnswerIsThePick, TypeOK, Requests
<1> QED
  BY <1>1, Inductive, PTL

(* The manager's handle is that of the one unanswered anchored prompt. *)
THEOREM OneAnchored == Spec => []OneAnchoredPrompt
<1>1. IInv => OneAnchoredPrompt
  BY DEF IInv, AnchorInv
<1> QED
  BY <1>1, Inductive, PTL

(* Destroy callbacks live exactly as long as the promise they watch. *)
THEOREM NoCallbackLeaks == Spec => []CallbacksMatchPromises
<1>1. IInv => CallbacksMatchPromises
  BY DEF IInv, CallbackInv, CallbacksMatchPromises, Quiet
<1> QED
  BY <1>1, Inductive, PTL

(* No prompt of a destroyed caller gives the focus back to its opener. *)
THEOREM FocusStays == Spec => NoFocusForDestroyed
<1>1. ASSUME IInv, [Next]_vars, NEW r \in Requests, r \in refocused' \ refocused
      PROVE  owner[r] \notin destroyed
  <2> DEFINE Waits(s) == /\ s \in (1..asked) \ anchored /\ ~Settled(s)
                         /\ s \in restore /\ s \notin pending
  <2>1. Waits(r) => owner[r] \notin destroyed
    BY <1>1 DEF IInv, CallbackInv
  <2>2. Next /\ refocused' # refocused
    BY <1>1 DEF vars
  <2>3. ASSUME NEW s \in Requests, ModalExits(s) \/ HideDetaches(s) \/ HideSettles(s)
        PROVE  Waits(r)
    <3>1. /\ s = r /\ ~Settled(r) /\ r \in restore /\ pending = {}
      BY <1>1, <2>3 DEF ModalExits, HideDetaches, HideSettles, Quiet,
         FinishPresentedEntry, EntryUnchanged, SettleEntry
    <3>2. r \in (1..asked) \ anchored
      BY <1>1, <3>1 DEF IInv, CallbackInv
    <3> QED
      BY <3>1, <3>2
  <2>4. ~PumpServes
    <3> SUFFICES ASSUME PumpServes PROVE FALSE
      OBVIOUS
    <3>1. /\ Head(queue) \in (1..asked) \ anchored /\ ~Settled(Head(queue))
          /\ openRef = 0 /\ pending = {}
      BY <1>1, HeadIsElement DEF PumpServes, IInv, TypeOK, QueueInv
    <3>2. owner[Head(queue)] \notin destroyed
      BY <1>1, <3>1 DEF IInv, CallbackInv, TypeOK
    <3> QED
      BY <2>2, <3>2 DEF PumpServes, EntryUnchanged
  <2>5. ASSUME NEW s \in Requests PROVE ~DestroyWaiting(s)
    BY <1>1 DEF DestroyWaiting, SettleEntry, EntryUnchanged
  <2>6. \E s \in Requests : ModalExits(s) \/ HideDetaches(s) \/ HideSettles(s)
    BY <2>2, <2>4, <2>5 DEF Next, CallerStep, UserStep, Callback, AskTooLate,
       AskModal, AskAnchored, Destroy, CloseModal, ChooseAnchored,
       DismissAnchored, DestroyPresented, DestroyAnchored, Mount, AnchoredExits,
       CountdownEnds, PumpReturns
  <2> QED
    BY <2>1, <2>3, <2>6
<1>2. IInv /\ [Next]_vars =>
        [\A r \in Requests : r \in refocused' \ refocused => owner[r] \notin destroyed]_vars
  BY <1>1
<1> QED
  BY <1>2, Inductive, PTL DEF Spec, NoFocusForDestroyed
=============================================================================
