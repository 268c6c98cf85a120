------------------------- MODULE ReleaseRunsProofs -------------------------
(***************************************************************************)
(* The publication of one version, alone (Spec) and beside the drift sweep *)
(* and the restoration (DriftSpec), for any number of pipelines, commits,  *)
(* reruns, hand edits and commands' runs.                                  *)
(*                                                                         *)
(* The pipelines' part is the conjunction IInv: who may write and what is  *)
(* known then.  DriftInv adds what the commands have read, which has to    *)
(* stay true of every world that follows: a release once created keeps its *)
(* commit and link, so what a command read of it is not stale, and without *)
(* a retag its text is its commit's.                                       *)
(***************************************************************************)
EXTENDS ReleaseRuns, FiniteSetTheorems, TLAPS

Projecting == {"lookup", "read", "create", "reread"}

\* A pipeline without a tag has done nothing; one with a tag has its commit.
NotStarted ==
  \A p \in Pipeline :
    /\ pipe[p].tag = "none" => act[p].step = "idle" /\ \A j \in Job : job[p][j] = "waiting"
    /\ pipe[p].tag # "none" => pipe[p].commit \in Commit

\* The resource group: one job at a time.
OneInGroup ==
  \A p, q \in Pipeline : act[p].step # "idle" /\ act[q].step # "idle" => p = q

\* Writing jobs run behind green gates, and gates refuse other commits.
Approved ==
  \A p \in Pipeline :
    /\ act[p].step # "idle" \/ job[p]["publish"] = "success" => GatesHeld(p)
    /\ job[p]["gate"] = "success" => Mode(p) # "refused"
    /\ act[p].step \in {"create", "reread"} => Mode(p) = "publish"

\* A projection of a release follows a confirmed publication.
ConfirmedFirst ==
  \A p \in Pipeline :
    Mode(p) = "publish" /\ (\/ job[p]["publish"] = "success"
                            \/ act[p].step \in Projecting
                            \/ job[p]["projection"] = "success") => confirmed

\* Every upload has its own id; only maintainers make packages disappear.
UploadsCounted ==
  /\ IsFiniteSet(packages)
  /\ \A k \in packages : k.id <= uploads
  /\ \A k, l \in packages : k.id = l.id => k = l
  /\ Cardinality(packages) <= uploads
  /\ tampers = 0 => NoUploadDropped

\* Nobody is about to upload a confirmed version.
NoLateUpload ==
  confirmed /\ NoUploadDropped =>
    \A p \in Pipeline : act[p].step = "upload" => Mode(p) = "dry-run"

\* The package a projection looked up is the version's only one.
LookedUp ==
  tampers = 0 =>
    \A p \in Pipeline :
      Mode(p) = "publish" /\ act[p].step \in {"read", "create", "reread"} =>
        \E k \in packages : packages = {k} /\ k.ready /\ k.id = act[p].chosen

IInv ==
  /\ TypeOK
  /\ NotStarted
  /\ OneInGroup
  /\ Approved
  /\ ConfirmedFirst
  /\ UploadsCounted
  /\ PublishedIsListed
  /\ NoLateUpload
  /\ LookedUp
  /\ GreenProjectionIsExact
-----------------------------------------------------------------------------
(* What the helpers do, pointwise. *)

LEMMA EndEffect ==
  ASSUME TypeOK, NEW p \in Pipeline, NEW j \in Job, NEW s \in Status, End(p, j, s)
  PROVE  /\ job' \in [Pipeline -> [Job -> Status]]
         /\ act' \in [Pipeline -> [step : Step, left : Nat, chosen : Nat]]
         /\ job'[p][j] = s
         /\ \A q \in Pipeline, i \in Job : q # p \/ i # j => job'[q][i] = job[q][i]
         /\ act'[p].step = "idle"
         /\ \A q \in Pipeline : q # p => act'[q] = act[q]
  BY DEF TypeOK, End, Idle, Step

LEMMA GotoEffect ==
  ASSUME TypeOK, NEW p \in Pipeline,
         NEW a \in [step : Step, left : Nat, chosen : Nat], Goto(p, a)
  PROVE  /\ job' = job
         /\ act' \in [Pipeline -> [step : Step, left : Nat, chosen : Nat]]
         /\ act'[p] = a
         /\ \A q \in Pipeline : q # p => act'[q] = act[q]
  BY DEF TypeOK, Goto

\* A step that leaves the tags alone leaves the modes alone.
LEMMA ModesStay ==
  ASSUME UNCHANGED pipe
  PROVE  \A p \in Pipeline : Mode(p)' = Mode(p)
  BY DEF Mode

LEMMA ModeCases == \A p \in Pipeline : Mode(p) \in {"refused", "dry-run", "publish"}
  BY DEF Mode

-----------------------------------------------------------------------------
(* Steps that leave the world alone. *)

\* World invariants that do not speak of jobs survive such a step.
LEMMA WorldStays ==
  ASSUME IInv, UNCHANGED <<packages, uploads>>, tampers' = tampers
  PROVE  UploadsCounted' /\ (NoUploadDropped' <=> NoUploadDropped) /\ (Listed' <=> Listed)
  BY DEF IInv, UploadsCounted, NoUploadDropped, Listed

\* A gating job or the consumer probe decides.
LEMMA DecidePreservesIInv ==
  ASSUME IInv, NEW p \in Pipeline, NEW j \in Job \ {"publish", "projection"},
         NEW s \in {"success", "failed"}, Waiting(p, j), Decide(p, j, s),
         j = "gate" /\ s = "success" => Mode(p) # "refused"
  PROVE  IInv'
  <1> USE DEF Decide, Waiting, IInv, world
  <1>1. /\ job' \in [Pipeline -> [Job -> Status]]
        /\ job'[p][j] = s /\ job[p][j] = "waiting" /\ pipe[p].tag # "none"
        /\ \A q \in Pipeline, i \in Job : q # p \/ i # j => job'[q][i] = job[q][i]
    BY DEF TypeOK, Status
  <1>2. TypeOK'
    BY <1>1 DEF TypeOK
  <1>3. \A q \in Pipeline : Mode(q)' = Mode(q)
    BY ModesStay
  <1>4. \A q \in Pipeline : GatesHeld(q) => GatesHeld(q)'
    BY <1>1 DEF GatesHeld, Gates, Job
  <1>5. \A q \in Pipeline : /\ job'[q]["publish"] = job[q]["publish"]
                            /\ job'[q]["projection"] = job[q]["projection"]
    BY <1>1 DEF Job
  <1>6. NotStarted'
    BY <1>1 DEF NotStarted
  <1>7. OneInGroup'
    BY DEF OneInGroup
  <1>8. Approved'
    BY <1>1, <1>3, <1>4, <1>5 DEF Approved, Job
  <1>9. ConfirmedFirst'
    BY <1>3, <1>5 DEF ConfirmedFirst
  <1>10. UploadsCounted' /\ PublishedIsListed'
    BY WorldStays DEF PublishedIsListed
  <1>11. NoLateUpload'
    BY <1>3 DEF NoLateUpload, NoUploadDropped
  <1>12. LookedUp'
    BY <1>3 DEF LookedUp
  <1>13. GreenProjectionIsExact'
    BY <1>3, <1>5 DEF GreenProjectionIsExact, Verifies
  <1> QED
    BY <1>2, <1>6, <1>7, <1>8, <1>9, <1>10, <1>11, <1>12, <1>13

LEMMA GatingPreservesIInv ==
  ASSUME IInv, NEW p \in Pipeline, Gating(p)
  PROVE  IInv'
  <1>1. CASE RunGate(p)
    BY <1>1, DecidePreservesIInv DEF RunGate, Job
  <1>2. CASE RunLiveness(p)
    BY <1>2, DecidePreservesIInv DEF RunLiveness, Job
  <1>3. CASE Approve(p)
    BY <1>3, DecidePreservesIInv DEF Approve, Job
  <1>4. CASE \E s \in {"success", "failed"} : RunTests(p, s)
    BY <1>4, DecidePreservesIInv DEF RunTests, Job
  <1>5. CASE \E installs \in BOOLEAN : VerifyConsumer(p, installs)
    BY <1>5, DecidePreservesIInv DEF VerifyConsumer, Job
  <1> QED
    BY <1>1, <1>2, <1>3, <1>4, <1>5 DEF Gating
-----------------------------------------------------------------------------
(* Steps of the writing jobs. *)

\* Job p may write: its gates are green and nobody else is in the group.
MayWrite(p) ==
  /\ act[p].step # "idle" \/ GroupFree
  /\ pipe[p].tag # "none"
  /\ GatesHeld(p)

\* Only the writing jobs of p move.
Moves(p) ==
  /\ job' \in [Pipeline -> [Job -> Status]]
  /\ act' \in [Pipeline -> [step : Step, left : Nat, chosen : Nat]]
  /\ \A q \in Pipeline : q # p => job'[q] = job[q] /\ act'[q] = act[q]
  /\ \A i \in Job \ {"publish", "projection"} : job'[p][i] = job[p][i]
  /\ UNCHANGED <<pipe, tampers>>
  /\ reruns' \in Nat

\* A job that is under way may write.
LEMMA UnderWay ==
  ASSUME IInv, NEW p \in Pipeline, act[p].step # "idle"
  PROVE  /\ MayWrite(p) /\ Mode(p) # "refused"
         /\ \A q \in Pipeline : q # p => act[q].step = "idle"
  BY DEF IInv, MayWrite, NotStarted, Approved, OneInGroup, GatesHeld, Gates

\* The control invariants, after a step of the writing jobs of p.
LEMMA ControlPreserved ==
  ASSUME IInv, NEW p \in Pipeline, MayWrite(p), Moves(p),
         confirmed => confirmed',
         act'[p].step \in {"create", "reread"} => Mode(p) = "publish",
         Mode(p) = "publish" /\ (\/ job'[p]["publish"] = "success"
                                 \/ act'[p].step \in Projecting
                                 \/ job'[p]["projection"] = "success") => confirmed'
  PROVE  NotStarted' /\ OneInGroup' /\ Approved' /\ ConfirmedFirst'
  <1> USE DEF IInv, Moves, MayWrite
  <1>1. \A q \in Pipeline : Mode(q)' = Mode(q)
    BY ModesStay
  <1>2. \A q \in Pipeline : GatesHeld(q)' = GatesHeld(q)
    BY DEF GatesHeld, Gates, Job
  <1>3. NotStarted'
    BY DEF NotStarted
  <1>4. OneInGroup'
    BY DEF OneInGroup, GroupFree
  <1>5. Approved'
    <2> SUFFICES ASSUME NEW q \in Pipeline
        PROVE  /\ act'[q].step # "idle" \/ job'[q]["publish"] = "success" => GatesHeld(q)
               /\ job'[q]["gate"] = "success" => Mode(q) # "refused"
               /\ act'[q].step \in {"create", "reread"} => Mode(q) = "publish"
      BY <1>1, <1>2 DEF Approved
    <2>1. CASE q = p
      BY <2>1 DEF Approved, Job
    <2>2. CASE q # p
      BY <2>2 DEF Approved
    <2> QED
      BY <2>1, <2>2
  <1>6. ConfirmedFirst'
    BY <1>1 DEF ConfirmedFirst
  <1> QED
    BY <1>3, <1>4, <1>5, <1>6

\* A step of the writing jobs that leaves the world alone.
LEMMA WriterPreservesIInv ==
  ASSUME IInv, NEW p \in Pipeline, MayWrite(p), Moves(p), UNCHANGED world,
         confirmed' \in BOOLEAN,
         confirmed => confirmed',
         confirmed' # confirmed => Listed /\ act'[p].step = "idle",
         act'[p].step = "upload" /\ confirmed /\ NoUploadDropped => Mode(p) = "dry-run",
         act'[p].step \in {"create", "reread"} => Mode(p) = "publish",
         Mode(p) = "publish" /\ (\/ job'[p]["publish"] = "success"
                                 \/ act'[p].step \in Projecting
                                 \/ job'[p]["projection"] = "success") => confirmed',
         tampers = 0 /\ Mode(p) = "publish" /\ act'[p].step \in {"read", "create", "reread"} =>
           \E k \in packages : packages = {k} /\ k.ready /\ k.id = act'[p].chosen,
         tampers = 0 /\ Mode(p) = "publish" /\ job'[p]["projection"] = "success" =>
           /\ release # None
           /\ \E k \in packages : /\ packages = {k} /\ k.ready
                                  /\ Verifies(release, pipe[p].commit, k.id)
  PROVE  IInv'
  <1> USE DEF IInv, Moves, world
  <1>1. \A q \in Pipeline : Mode(q)' = Mode(q)
    BY ModesStay
  <1>2. TypeOK'
    BY DEF TypeOK
  <1>3. NotStarted' /\ OneInGroup' /\ Approved' /\ ConfirmedFirst'
    BY ControlPreserved
  <1>4. UploadsCounted' /\ (NoUploadDropped' <=> NoUploadDropped) /\ (Listed' <=> Listed)
    BY WorldStays
  <1>5. PublishedIsListed'
    BY <1>4 DEF PublishedIsListed, TypeOK
  <1>6. NoLateUpload'
    BY <1>1, <1>4 DEF NoLateUpload, MayWrite, GroupFree, OneInGroup, TypeOK
  <1>7. LookedUp'
    BY <1>1 DEF LookedUp
  <1>8. GreenProjectionIsExact'
    <2> SUFFICES ASSUME NEW q \in Pipeline, job'[q]["projection"] = "success",
                        Mode(q) = "publish", tampers = 0
        PROVE  /\ release # None
               /\ \E k \in packages : /\ packages = {k} /\ k.ready
                                      /\ Verifies(release, pipe[q].commit, k.id)
      BY <1>1 DEF GreenProjectionIsExact, Verifies
    <2>1. CASE q = p
      BY <2>1
    <2>2. CASE q # p
      BY <2>2 DEF GreenProjectionIsExact
    <2> QED
      BY <2>1, <2>2
  <1> QED
    BY <1>2, <1>3, <1>4, <1>5, <1>6, <1>7, <1>8

\* A job that ends, or moves on, moves nothing else.
LEMMA EndMoves ==
  ASSUME IInv, NEW p \in Pipeline, NEW j \in {"publish", "projection"}, NEW s \in Status,
         End(p, j, s), UNCHANGED <<pipe, reruns, tampers>>
  PROVE  Moves(p) /\ act'[p].step = "idle" /\ job'[p][j] = s
         /\ \A i \in Job : i # j => job'[p][i] = job[p][i]
  <1>1. TypeOK /\ j \in Job
    BY DEF IInv, Job
  <1>2. \A q \in Pipeline : q # p => job'[q] = job[q]
    BY <1>1 DEF End, TypeOK
  <1> QED
    BY <1>1, <1>2, EndEffect DEF Moves, TypeOK

LEMMA GotoMoves ==
  ASSUME IInv, NEW p \in Pipeline, NEW a \in [step : Step, left : Nat, chosen : Nat],
         Goto(p, a), UNCHANGED <<pipe, reruns, tampers>>
  PROVE  Moves(p) /\ act'[p] = a /\ job' = job
  BY GotoEffect DEF IInv, Moves, TypeOK
LEMMA PublishStartPreservesIInv ==
  ASSUME IInv, NEW p \in Pipeline, PublishStart(p)
  PROVE  IInv'
  <1> USE DEF PublishStart, Waiting
  <1>1. MayWrite(p)
    BY DEF MayWrite, GatesHeld
  <1>2. CASE Mode(p) = "refused" \/ ~ruleLive
    <2>1. End(p, "publish", "failed")
      BY <1>2
    <2>2. Moves(p) /\ act'[p].step = "idle" /\ job'[p]["publish"] = "failed"
          /\ job'[p]["projection"] = job[p]["projection"]
      BY <2>1, EndMoves DEF Status, Job
    <2> QED
      BY <1>1, <2>2, WriterPreservesIInv
      DEF Projecting, IInv, ConfirmedFirst, GreenProjectionIsExact, TypeOK
  <1>3. CASE ~(Mode(p) = "refused" \/ ~ruleLive)
    <2>1. /\ job' = [job EXCEPT ![p]["publish"] = "running"]
          /\ act' = [act EXCEPT ![p] = [Idle EXCEPT !.step = "preflight"]]
          /\ UNCHANGED <<pipe, tampers, reruns>>
      BY <1>3
    <2>2. Moves(p) /\ act'[p].step = "preflight" /\ job'[p]["publish"] = "running"
          /\ job'[p]["projection"] = job[p]["projection"]
      BY <2>1 DEF IInv, TypeOK, Moves, Job, Status, Step, Idle
    <2> QED
      BY <1>1, <2>2, WriterPreservesIInv
      DEF Projecting, IInv, ConfirmedFirst, GreenProjectionIsExact, TypeOK
  <1> QED
    BY <1>2, <1>3

LEMMA PublishPreflightPreservesIInv ==
  ASSUME IInv, NEW p \in Pipeline, PublishPreflight(p)
  PROVE  IInv'
  <1> USE DEF PublishPreflight
  <1>1. MayWrite(p) /\ Mode(p) # "refused" /\ confirmed \in BOOLEAN
    BY UnderWay DEF IInv, TypeOK
  <1>2. CASE Mode(p) = "publish" /\ Listed
    <2>1. End(p, "publish", "success") /\ confirmed' = TRUE
      BY <1>2
    <2>2. Moves(p) /\ act'[p].step = "idle"
          /\ job'[p]["projection"] = job[p]["projection"]
      BY <2>1, EndMoves DEF Status, Job
    <2> QED
      BY <1>1, <1>2, <2>1, <2>2, WriterPreservesIInv
      DEF Projecting, IInv, GreenProjectionIsExact
  <1>3. CASE ~(Mode(p) = "publish" /\ Listed)
    <2>1. Goto(p, [act[p] EXCEPT !.step = "upload"]) /\ confirmed' = confirmed
      BY <1>3
    <2>2. [act[p] EXCEPT !.step = "upload"] \in [step : Step, left : Nat, chosen : Nat]
      BY DEF IInv, TypeOK, Step
    <2>3. Moves(p) /\ act'[p].step = "upload" /\ job' = job
      BY <2>1, <2>2, GotoMoves DEF IInv, TypeOK
    <2>4. confirmed /\ NoUploadDropped => Mode(p) = "dry-run"
      BY <1>1, <1>3, ModeCases DEF IInv, PublishedIsListed
    <2> QED
      BY <1>1, <2>1, <2>3, <2>4, WriterPreservesIInv
      DEF Projecting, IInv, ConfirmedFirst, GreenProjectionIsExact
  <1> QED
    BY <1>2, <1>3

LEMMA PublishConfirmPreservesIInv ==
  ASSUME IInv, NEW p \in Pipeline, PublishConfirm(p)
  PROVE  IInv'
  <1> USE DEF PublishConfirm
  <1>1. MayWrite(p) /\ confirmed \in BOOLEAN
    BY UnderWay DEF IInv, TypeOK
  <1>2. CASE Listed
    <2>1. End(p, "publish", "success") /\ confirmed' = TRUE
      BY <1>2
    <2>2. Moves(p) /\ act'[p].step = "idle"
          /\ job'[p]["projection"] = job[p]["projection"]
      BY <2>1, EndMoves DEF Status, Job
    <2> QED
      BY <1>1, <1>2, <2>1, <2>2, WriterPreservesIInv
      DEF Projecting, IInv, GreenProjectionIsExact
  <1>3. CASE ~Listed /\ act[p].left > 1
    <2>1. Goto(p, [act[p] EXCEPT !.left = @ - 1]) /\ confirmed' = confirmed
      BY <1>3
    <2>2. [act[p] EXCEPT !.left = @ - 1] \in [step : Step, left : Nat, chosen : Nat]
      BY <1>3 DEF IInv, TypeOK
    <2>3. Moves(p) /\ act'[p].step = "confirm" /\ job' = job
      BY <2>1, <2>2, GotoMoves DEF IInv, TypeOK
    <2> QED
      BY <1>1, <2>1, <2>3, WriterPreservesIInv
      DEF Projecting, IInv, ConfirmedFirst, GreenProjectionIsExact
  <1>4. CASE ~Listed /\ ~(act[p].left > 1)
    <2>1. End(p, "publish", "failed") /\ confirmed' = confirmed
      BY <1>4
    <2>2. Moves(p) /\ act'[p].step = "idle" /\ job'[p]["publish"] = "failed"
          /\ job'[p]["projection"] = job[p]["projection"]
      BY <2>1, EndMoves DEF Status, Job
    <2> QED
      BY <1>1, <2>1, <2>2, WriterPreservesIInv
      DEF Projecting, IInv, ConfirmedFirst, GreenProjectionIsExact
  <1> QED
    BY <1>2, <1>3, <1>4

LEMMA ProjectStartPreservesIInv ==
  ASSUME IInv, NEW p \in Pipeline, ProjectStart(p)
  PROVE  IInv'
  <1> USE DEF ProjectStart, Waiting
  <1>1. MayWrite(p) /\ confirmed \in BOOLEAN
    BY DEF MayWrite, IInv, Approved, TypeOK
  <1>2. /\ Moves(p) /\ act'[p].step = "lookup" /\ job'[p]["projection"] = "running"
        /\ job'[p]["publish"] = job[p]["publish"]
    BY DEF IInv, TypeOK, Moves, Job, Status, Step, Idle
  <1> QED
    BY <1>1, <1>2, WriterPreservesIInv DEF Projecting, IInv, ConfirmedFirst

\* The one package a projection settles for, when no maintainer interfered.
LEMMA TheOnlyPackage ==
  ASSUME IInv, tampers = 0, confirmed, ~ChooseFails(packages)
  PROVE  \E k \in packages : packages = {k} /\ k.ready /\ k.id = ChosenId(packages)
  <1>1. PICK k \in packages : k.ready
    BY DEF IInv, UploadsCounted, PublishedIsListed, Listed
  <1>2. IsFiniteSet(packages) /\ Cardinality(packages) \in Nat
    BY FS_CardinalityType DEF IInv, UploadsCounted
  <1>3. Cardinality(packages \ {k}) = Cardinality(packages) - 1 /\ IsFiniteSet(packages \ {k})
    BY <1>2, FS_RemoveElement
  <1>4. Cardinality(packages) <= 1
    BY <1>2 DEF ChooseFails
  <1>5. Cardinality(packages \ {k}) = 0
    BY <1>2, <1>3, <1>4, FS_CardinalityType
  <1>6. packages = {k}
    BY <1>3, <1>5, FS_EmptySet
  <1> QED
    BY <1>1, <1>6 DEF ChosenId

LEMMA ProjectLookupPreservesIInv ==
  ASSUME IInv, NEW p \in Pipeline, ProjectLookup(p)
  PROVE  IInv'
  <1> USE DEF ProjectLookup
  <1>1. /\ MayWrite(p) /\ Mode(p) # "refused" /\ confirmed \in BOOLEAN
        /\ Mode(p) = "publish" => confirmed
    BY UnderWay DEF IInv, TypeOK, ConfirmedFirst, Projecting
  <1>2. CASE ChooseFails(packages)
    <2>1. End(p, "projection", "failed")
      BY <1>2
    <2>2. Moves(p) /\ act'[p].step = "idle" /\ job'[p]["projection"] = "failed"
      BY <2>1, EndMoves DEF Status
    <2> QED
      BY <1>1, <2>2, WriterPreservesIInv
  <1>3. CASE ~ChooseFails(packages)
    <2>1. Goto(p, [act[p] EXCEPT !.step = "read", !.chosen = ChosenId(packages)])
      BY <1>3
    <2>2. ChosenId(packages) \in Nat
      BY DEF ChosenId, IInv, TypeOK, Package
    <2> DEFINE a == [act[p] EXCEPT !.step = "read", !.chosen = ChosenId(packages)]
    <2>3. /\ a \in [step : Step, left : Nat, chosen : Nat]
          /\ a.step = "read" /\ a.chosen = ChosenId(packages)
      BY <2>2 DEF IInv, TypeOK, Step
    <2> HIDE DEF a
    <2>4. Moves(p) /\ job' = job /\ act'[p] = a
      BY <2>1, <2>3, GotoMoves DEF a
    <2> QED
      BY <1>1, <1>3, <2>3, <2>4, TheOnlyPackage, WriterPreservesIInv
      DEF IInv, GreenProjectionIsExact
  <1> QED
    BY <1>2, <1>3
\* A verdict on the stored release.
LEMMA VerdictPreservesIInv ==
  ASSUME IInv, NEW p \in Pipeline, act[p].step \in {"read", "reread"},
         Mode(p) = "publish", release # None, Verdict(p, release),
         UNCHANGED <<world, pipe, reruns, tampers, confirmed>>
  PROVE  IInv'
  <1>1. MayWrite(p) /\ confirmed \in BOOLEAN /\ confirmed
    BY UnderWay DEF IInv, TypeOK, ConfirmedFirst, Projecting
  <1> DEFINE s == IF Verifies(release, pipe[p].commit, act[p].chosen) THEN "success" ELSE "failed"
  <1>2. End(p, "projection", s) /\ s \in Status
    BY DEF Verdict, Status
  <1>3. s = "success" => Verifies(release, pipe[p].commit, act[p].chosen)
    OBVIOUS
  <1> HIDE DEF s
  <1>4. Moves(p) /\ act'[p].step = "idle" /\ job'[p]["projection"] = s
    BY <1>2, EndMoves
  <1>5. tampers = 0 /\ s = "success" =>
          \E k \in packages : /\ packages = {k} /\ k.ready
                              /\ Verifies(release, pipe[p].commit, k.id)
    BY <1>3 DEF IInv, LookedUp
  <1> QED
    BY <1>1, <1>4, <1>5, WriterPreservesIInv DEF Projecting

LEMMA ProjectReadPreservesIInv ==
  ASSUME IInv, NEW p \in Pipeline, ProjectRead(p)
  PROVE  IInv'
  <1> USE DEF ProjectRead
  <1>1. /\ MayWrite(p) /\ Mode(p) # "refused" /\ confirmed \in BOOLEAN
        /\ Mode(p) = "publish" => confirmed
    BY UnderWay DEF IInv, TypeOK, ConfirmedFirst, Projecting
  <1>2. CASE Mode(p) = "dry-run"
    <2>1. End(p, "projection", "success")
      BY <1>2
    <2>2. Moves(p) /\ act'[p].step = "idle"
      BY <2>1, EndMoves DEF Status
    <2> QED
      BY <1>1, <1>2, <2>2, WriterPreservesIInv DEF Projecting
  <1>3. CASE Mode(p) = "publish" /\ act[p].chosen = 0
    <2>1. End(p, "projection", "failed")
      BY <1>3
    <2>2. Moves(p) /\ act'[p].step = "idle" /\ job'[p]["projection"] = "failed"
      BY <2>1, EndMoves DEF Status
    <2> QED
      BY <1>1, <2>2, WriterPreservesIInv DEF Projecting
  <1>4. CASE Mode(p) = "publish" /\ act[p].chosen # 0 /\ release # None
    BY <1>4, VerdictPreservesIInv
  <1>5. CASE Mode(p) = "publish" /\ act[p].chosen # 0 /\ release = None
    <2> DEFINE a == [act[p] EXCEPT !.step = "create"]
    <2>1. Goto(p, a)
      BY <1>5
    <2>2. /\ a \in [step : Step, left : Nat, chosen : Nat]
          /\ a.step = "create" /\ a.chosen = act[p].chosen
      BY DEF IInv, TypeOK, Step
    <2> HIDE DEF a
    <2>3. Moves(p) /\ job' = job /\ act'[p] = a
      BY <2>1, <2>2, GotoMoves
    <2>4. tampers = 0 => \E k \in packages : packages = {k} /\ k.ready /\ k.id = a.chosen
      BY <1>5, <2>2 DEF IInv, LookedUp
    <2> QED
      BY <1>1, <1>5, <2>2, <2>3, <2>4, WriterPreservesIInv
      DEF Projecting, IInv, GreenProjectionIsExact
  <1> QED
    BY <1>1, <1>2, <1>3, <1>4, <1>5, ModeCases

LEMMA ProjectRereadPreservesIInv ==
  ASSUME IInv, NEW p \in Pipeline, ProjectReread(p)
  PROVE  IInv'
  <1> USE DEF ProjectReread
  <1>1. MayWrite(p) /\ Mode(p) = "publish" /\ confirmed \in BOOLEAN /\ confirmed
    BY UnderWay DEF IInv, TypeOK, ConfirmedFirst, Projecting, Approved
  <1>2. CASE release = None
    <2>1. End(p, "projection", "failed")
      BY <1>2
    <2>2. Moves(p) /\ act'[p].step = "idle" /\ job'[p]["projection"] = "failed"
      BY <2>1, EndMoves DEF Status
    <2> QED
      BY <1>1, <2>2, WriterPreservesIInv
  <1>3. CASE release # None
    BY <1>1, <1>3, VerdictPreservesIInv
  <1> QED
    BY <1>2, <1>3

LEMMA JobDiesPreservesIInv ==
  ASSUME IInv, NEW p \in Pipeline, JobDies(p)
  PROVE  IInv'
  <1> USE DEF JobDies
  <1>1. MayWrite(p) /\ confirmed \in BOOLEAN
    BY UnderWay DEF IInv, TypeOK
  <1>2. PICK j \in {"publish", "projection"} : job[p][j] = "running" /\ End(p, j, "failed")
    OBVIOUS
  <1>3. /\ Moves(p) /\ act'[p].step = "idle" /\ job'[p][j] = "failed"
        /\ \A i \in Job : i # j => job'[p][i] = job[p][i]
    BY <1>2, EndMoves DEF Status
  <1>4. \A i \in {"publish", "projection"} : job'[p][i] = "success" => job[p][i] = "success"
    BY <1>3 DEF Job
  <1> QED
    BY <1>1, <1>3, <1>4, WriterPreservesIInv
    DEF Projecting, IInv, ConfirmedFirst, GreenProjectionIsExact

-----------------------------------------------------------------------------
(* Steps that change the world. *)

\* With the version confirmed and undisturbed, an upload could only be one of
\* a dry run, which makes none.
LEMMA UploadNotConfirmed ==
  ASSUME IInv, NEW p \in Pipeline, act[p].step = "upload", Mode(p) # "dry-run"
  PROVE  ~(confirmed /\ NoUploadDropped)
  BY DEF IInv, NoLateUpload

\* The new upload is counted once and has an id of its own.
LEMMA UploadIsCounted ==
  ASSUME IInv, NEW c \in Commit,
         packages' = packages \union {[id |-> uploads + 1, commit |-> c, ready |-> FALSE]},
         uploads' = uploads + 1, tampers' = tampers
  PROVE  UploadsCounted' /\ (NoUploadDropped' => NoUploadDropped)
  <1> DEFINE n == [id |-> uploads + 1, commit |-> c, ready |-> FALSE]
  <1>1. uploads \in Nat /\ IsFiniteSet(packages) /\ \A k \in packages : k.id <= uploads
    BY DEF IInv, TypeOK, UploadsCounted
  <1>2. n \notin packages
    BY <1>1
  <1>3. Cardinality(packages') = Cardinality(packages) + 1 /\ IsFiniteSet(packages')
    BY <1>1, <1>2, FS_AddElement
  <1>4. Cardinality(packages) \in Nat
    BY <1>1, FS_CardinalityType
  <1>5. /\ \A k \in packages' : k.id <= uploads'
        /\ \A k, l \in packages' : k.id = l.id => k = l
    <2>1. \A k \in packages : k.id \in Nat /\ k.id <= uploads
      BY <1>1 DEF IInv, TypeOK, Package
    <2>2. n.id = uploads + 1
      OBVIOUS
    <2>3. \A k \in packages' : k \in packages \/ k = n
      OBVIOUS
    <2> HIDE DEF n
    <2> QED
      BY <1>1, <2>1, <2>2, <2>3 DEF IInv, UploadsCounted
  <1> QED
    BY <1>1, <1>3, <1>4, <1>5 DEF IInv, UploadsCounted, NoUploadDropped

LEMMA PublishUploadPreservesIInv ==
  ASSUME IInv, NEW p \in Pipeline, NEW taken \in BOOLEAN, NEW answered \in BOOLEAN,
         PublishUpload(p, taken, answered)
  PROVE  IInv'
  <1> USE DEF PublishUpload
  <1>1. /\ MayWrite(p) /\ Mode(p) # "refused" /\ confirmed \in BOOLEAN
        /\ \A q \in Pipeline : q # p => act[q].step = "idle"
    BY UnderWay DEF IInv, TypeOK
  <1>2. /\ Moves(p) /\ act'[p].step \in {"idle", "confirm"}
        /\ job'[p]["projection"] = job[p]["projection"]
        /\ Mode(p) = "publish" => job'[p]["publish"] # "success" \/ job' = job
    <2>1. CASE Goto(p, [act[p] EXCEPT !.step = "confirm", !.left = Attempts])
      <3> DEFINE a == [act[p] EXCEPT !.step = "confirm", !.left = Attempts]
      <3>1. a \in [step : Step, left : Nat, chosen : Nat] /\ a.step = "confirm"
        BY BoundAssumption DEF IInv, TypeOK, Step
      <3>2. Goto(p, a)
        BY <2>1
      <3> HIDE DEF a
      <3> QED
        BY <3>1, <3>2, GotoMoves
    <2>2. CASE Mode(p) = "dry-run" /\ End(p, "publish", IF answered THEN "success" ELSE "failed")
      BY <2>2, EndMoves DEF Status, Job
    <2>3. CASE End(p, "publish", "failed")
      BY <2>3, EndMoves DEF Status, Job
    <2> QED
      BY <2>1, <2>2, <2>3
  <1>3. CASE packages' = packages /\ uploads' = uploads
    BY <1>1, <1>2, <1>3, WriterPreservesIInv
    DEF world, Projecting, IInv, ConfirmedFirst, GreenProjectionIsExact
  <1>4. CASE ~(packages' = packages /\ uploads' = uploads)
    <2> DEFINE n == [id |-> uploads + 1, commit |-> pipe[p].commit, ready |-> FALSE]
    <2>1. /\ Mode(p) = "publish" /\ packages' = packages \union {n} /\ uploads' = uploads + 1
      BY <1>1, <1>4, ModeCases
    <2>2. pipe[p].commit \in Commit
      BY <1>1 DEF MayWrite, IInv, NotStarted
    <2>3. UploadsCounted' /\ (NoUploadDropped' => NoUploadDropped)
      BY <2>1, <2>2, UploadIsCounted
    <2>4. ~(confirmed /\ NoUploadDropped) /\ confirmed' = confirmed
      BY <2>1, UploadNotConfirmed
    <2>5. \A q \in Pipeline : Mode(q)' = Mode(q)
      BY ModesStay
    <2>6. tampers = 0 => ~confirmed
      BY <2>4 DEF IInv, UploadsCounted
    <2>7. TypeOK'
      <3>1. n \in Package /\ uploads' \in Nat
        BY <2>1, <2>2 DEF IInv, TypeOK, Package
      <3> HIDE DEF n
      <3> QED
        BY <1>2, <2>1, <3>1 DEF IInv, TypeOK, Moves
    <2>8. NotStarted' /\ OneInGroup' /\ Approved' /\ ConfirmedFirst'
      BY <1>1, <1>2, <2>4, ControlPreserved
      DEF Projecting, IInv, ConfirmedFirst
    <2>9. PublishedIsListed' /\ NoLateUpload'
      BY <2>3, <2>4 DEF PublishedIsListed, NoLateUpload
    <2>10. LookedUp' /\ GreenProjectionIsExact'
      BY <2>4, <2>6, <2>8 DEF LookedUp, GreenProjectionIsExact, ConfirmedFirst, Projecting
    <2> QED
      BY <2>3, <2>7, <2>8, <2>9, <2>10 DEF IInv
  <1> QED
    BY <1>3, <1>4
LEMMA ProjectCreatePreservesIInv ==
  ASSUME IInv, NEW p \in Pipeline, NEW answered \in BOOLEAN, ProjectCreate(p, answered)
  PROVE  IInv'
  <1> USE DEF ProjectCreate
  <1>1. /\ MayWrite(p) /\ Mode(p) = "publish" /\ confirmed \in BOOLEAN /\ confirmed
        /\ \A q \in Pipeline : q # p => act[q].step = "idle"
    BY UnderWay DEF IInv, TypeOK, ConfirmedFirst, Projecting, Approved
  <1>2. CASE tag = None \/ release # None
    <2>1. End(p, "projection", "failed") /\ release' = release
      BY <1>2
    <2>2. Moves(p) /\ act'[p].step = "idle" /\ job'[p]["projection"] = "failed"
      BY <2>1, EndMoves DEF Status
    <2> QED
      BY <1>1, <2>1, <2>2, WriterPreservesIInv DEF world
  <1>3. CASE ~(tag = None \/ release # None)
    <2>1. /\ Moves(p) /\ act'[p].step \in {"idle", "reread"}
          /\ act'[p].step = "reread" => act'[p].chosen = act[p].chosen
          /\ job'[p]["projection"] = "success" => job' = job
      <3>1. CASE answered
        <4> DEFINE a == [act[p] EXCEPT !.step = "reread"]
        <4>1. Goto(p, a)
          BY <1>3, <3>1
        <4>2. /\ a \in [step : Step, left : Nat, chosen : Nat]
              /\ a.step = "reread" /\ a.chosen = act[p].chosen
          BY DEF IInv, TypeOK, Step
        <4> HIDE DEF a
        <4> QED
          BY <4>1, <4>2, GotoMoves
      <3>2. CASE ~answered
        BY <1>3, <3>2, EndMoves DEF Status
      <3> QED
        BY <3>1, <3>2
    <2>2. \A q \in Pipeline : Mode(q)' = Mode(q)
      BY ModesStay
    <2>3. NotStarted' /\ OneInGroup' /\ Approved' /\ ConfirmedFirst'
      BY <1>1, <2>1, ControlPreserved
    <2>4. UploadsCounted' /\ (NoUploadDropped' <=> NoUploadDropped) /\ (Listed' <=> Listed)
      BY WorldStays
    <2>5. TypeOK'
      <3>1. pipe[p].commit \in Commit /\ tag \in Commit
        BY <1>1, <1>3 DEF MayWrite, IInv, NotStarted, TypeOK
      <3>2. release' \in Release
        BY <1>3, <3>1 DEF Release, Link, IInv, TypeOK
      <3> QED
        BY <2>1, <3>2 DEF IInv, TypeOK, Moves
    <2>6. PublishedIsListed' /\ NoLateUpload'
      BY <1>1, <2>1, <2>2, <2>4 DEF IInv, PublishedIsListed, NoLateUpload, Moves
    <2>7. LookedUp'
      BY <1>1, <2>1, <2>2 DEF IInv, LookedUp, Moves
    <2>8. \A q \in Pipeline : ~(tampers = 0 /\ Mode(q) = "publish" /\ job[q]["projection"] = "success")
      BY <1>3 DEF IInv, GreenProjectionIsExact
    <2>9. GreenProjectionIsExact'
      BY <2>1, <2>2, <2>8 DEF GreenProjectionIsExact, Moves
    <2> QED
      BY <2>3, <2>4, <2>5, <2>6, <2>7, <2>9 DEF IInv
  <1> QED
    BY <1>2, <1>3

LEMMA WorkPreservesIInv ==
  ASSUME IInv, NEW p \in Pipeline, Work(p)
  PROVE  IInv'
  BY PublishStartPreservesIInv, PublishPreflightPreservesIInv, PublishConfirmPreservesIInv,
     PublishUploadPreservesIInv, ProjectStartPreservesIInv, ProjectLookupPreservesIInv,
     ProjectReadPreservesIInv, ProjectRereadPreservesIInv, ProjectCreatePreservesIInv
  DEF Work

\* Indexing replaces a package by itself, indexed.
LEMMA IndexPreservesIInv ==
  ASSUME IInv, NEW k \in packages, Index(k)
  PROVE  IInv'
  <1> DEFINE n == [k EXCEPT !.ready = TRUE]
  <1>1. /\ packages' = (packages \ {k}) \union {n}
        /\ k.ready = FALSE
        /\ UNCHANGED <<tag, ruleLive, uploads, release, pipe, job, act, reruns, tampers, confirmed>>
    BY DEF Index, IInv, TypeOK, Package
  <1>2. n \in Package /\ n.id = k.id /\ n.ready = TRUE
    BY DEF IInv, TypeOK, Package
  <1>3. n \notin packages
    BY <1>1, <1>2 DEF IInv, UploadsCounted
  <1> HIDE DEF n
  <1>4. TypeOK'
    BY <1>1, <1>2 DEF IInv, TypeOK
  <1>5. IsFiniteSet(packages') /\ Cardinality(packages') = Cardinality(packages)
    <2>1. /\ IsFiniteSet(packages \ {k})
          /\ Cardinality(packages \ {k}) = Cardinality(packages) - 1
          /\ Cardinality(packages) \in Nat
      BY FS_RemoveElement, FS_CardinalityType DEF IInv, UploadsCounted
    <2>2. n \notin packages \ {k}
      BY <1>3
    <2>3. /\ IsFiniteSet((packages \ {k}) \union {n})
          /\ Cardinality((packages \ {k}) \union {n}) = Cardinality(packages \ {k}) + 1
      BY <2>1, <2>2, FS_AddElement
    <2> QED
      BY <1>1, <2>1, <2>3
  <1>6. UploadsCounted' /\ (NoUploadDropped' <=> NoUploadDropped)
    BY <1>1, <1>2, <1>5 DEF IInv, UploadsCounted, NoUploadDropped
  <1>7. \A q \in Pipeline : Mode(q)' = Mode(q)
    BY <1>1, ModesStay
  <1>8. NotStarted' /\ OneInGroup' /\ Approved' /\ ConfirmedFirst' /\ NoLateUpload'
    BY <1>1, <1>6, <1>7 DEF IInv, NotStarted, OneInGroup, Approved, ConfirmedFirst,
        NoLateUpload, GatesHeld
  <1>9. PublishedIsListed'
    BY <1>1, <1>2 DEF PublishedIsListed, Listed
  <1>10. LookedUp' /\ GreenProjectionIsExact'
    BY <1>1, <1>7 DEF IInv, LookedUp, GreenProjectionIsExact
  <1> QED
    BY <1>4, <1>6, <1>8, <1>9, <1>10 DEF IInv

\* A gate that is rerun has nothing running or published behind it; what else
\* a rerun forgets needs no proof.
LEMMA RerunPreservesIInv ==
  ASSUME IInv, NEW p \in Pipeline, NEW j \in Job, Rerun(p, j)
  PROVE  IInv'
  <1> USE DEF Rerun, IInv, world
  <1>1. /\ job' \in [Pipeline -> [Job -> Status]] /\ job'[p][j] = "waiting"
        /\ \A q \in Pipeline, i \in Job : q # p \/ i # j => job'[q][i] = job[q][i]
    BY DEF TypeOK, Status
  <1>2. \A q \in Pipeline : Mode(q)' = Mode(q)
    BY ModesStay
  <1>3. \A q \in Pipeline :
          GatesHeld(q) => \/ GatesHeld(q)'
                          \/ act[q].step = "idle" /\ job[q]["publish"] # "success"
    BY <1>1 DEF GatesHeld, Gates, Job
  <1>4. \A q \in Pipeline, i \in Job : job'[q][i] = "success" => job[q][i] = "success"
    BY <1>1
  <1>5. TypeOK'
    BY <1>1 DEF TypeOK
  <1>6. NotStarted' /\ OneInGroup'
    BY <1>1 DEF NotStarted, OneInGroup
  <1>7. Approved' /\ ConfirmedFirst'
    BY <1>2, <1>3, <1>4 DEF Approved, ConfirmedFirst, Job
  <1>8. UploadsCounted' /\ PublishedIsListed'
    BY WorldStays DEF PublishedIsListed
  <1>9. NoLateUpload' /\ LookedUp'
    BY <1>2 DEF NoLateUpload, NoUploadDropped, LookedUp
  <1>10. GreenProjectionIsExact'
    BY <1>2, <1>4 DEF GreenProjectionIsExact, Verifies, Job
  <1> QED
    BY <1>5, <1>6, <1>7, <1>8, <1>9, <1>10

\* A tag starts its own pipeline, and no other.
LEMMA PushTagPreservesIInv ==
  ASSUME IInv, NEW p \in Pipeline, NEW c \in Commit, NEW kind \in {"release", "dryrun"},
         PushTag(p, c, kind)
  PROVE  IInv'
  <1> USE DEF PushTag, IInv
  <1>1. /\ pipe' = [pipe EXCEPT ![p] = [tag |-> kind, commit |-> c]]
        /\ act[p].step = "idle" /\ \A j \in Job : job[p][j] = "waiting"
    BY DEF NotStarted
  <1>2. TypeOK'
    BY <1>1 DEF TypeOK, TagKind
  <1>3. \A q \in Pipeline : q # p => Mode(q)' = Mode(q) /\ pipe'[q] = pipe[q]
    BY <1>1 DEF Mode, TypeOK
  <1>4. pipe'[p].tag # "none" /\ pipe'[p].commit = c
    BY <1>1 DEF TypeOK
  <1>5. NotStarted' /\ OneInGroup'
    BY <1>3, <1>4 DEF NotStarted, OneInGroup
  <1>6. Approved' /\ ConfirmedFirst'
    BY <1>1, <1>3 DEF Approved, ConfirmedFirst, GatesHeld, Job, Projecting
  <1>7. UploadsCounted' /\ PublishedIsListed'
    BY WorldStays DEF PublishedIsListed
  <1>8. NoLateUpload' /\ LookedUp'
    BY <1>1, <1>3 DEF NoLateUpload, NoUploadDropped, LookedUp
  <1>9. GreenProjectionIsExact'
    BY <1>1, <1>3 DEF GreenProjectionIsExact, Verifies, Job
  <1> QED
    BY <1>2, <1>5, <1>6, <1>7, <1>8, <1>9

\* A maintainer's write to a published surface, a deleted package included.
LEMMA TamperPreservesIInv ==
  ASSUME IInv, Tamper, TypeOK', confirmed' = confirmed,
         \/ packages' = packages
         \/ \E k \in packages : packages' = packages \ {k}
  PROVE  IInv'
  <1> USE DEF Tamper, IInv
  <1>1. tampers' # 0
    BY DEF TypeOK
  <1>2. \A q \in Pipeline : Mode(q)' = Mode(q)
    BY ModesStay
  <1>3. NotStarted' /\ OneInGroup' /\ Approved' /\ ConfirmedFirst'
    BY <1>2 DEF NotStarted, OneInGroup, Approved, ConfirmedFirst, GatesHeld
  <1>4. LookedUp' /\ GreenProjectionIsExact'
    BY <1>1 DEF LookedUp, GreenProjectionIsExact
  <1>5. CASE packages' = packages
    BY <1>1, <1>2, <1>3, <1>4, <1>5
    DEF UploadsCounted, NoUploadDropped, PublishedIsListed, Listed, NoLateUpload
  <1>6. CASE \E k \in packages : packages' = packages \ {k}
    <2>1. PICK k \in packages : packages' = packages \ {k}
      BY <1>6
    <2>2. /\ IsFiniteSet(packages') /\ Cardinality(packages) \in Nat
          /\ Cardinality(packages') = Cardinality(packages) - 1
      BY <2>1, FS_RemoveElement, FS_CardinalityType DEF UploadsCounted
    <2>3. UploadsCounted' /\ ~NoUploadDropped'
      BY <1>1, <2>1, <2>2 DEF UploadsCounted, NoUploadDropped, TypeOK
    <2> QED
      BY <1>3, <1>4, <2>3 DEF PublishedIsListed, NoLateUpload
  <1> QED
    BY <1>5, <1>6

LEMMA MaintainerPreservesIInv ==
  ASSUME IInv, Maintainer
  PROVE  IInv'
  <1>1. CASE \E p \in Pipeline, c \in Commit, kind \in {"release", "dryrun"} : PushTag(p, c, kind)
    BY <1>1, PushTagPreservesIInv
  <1>2. CASE \E p \in Pipeline, j \in Job : Rerun(p, j)
    BY <1>2, RerunPreservesIInv
  <1>3. CASE DeleteTag \/ DropRule \/ DeleteRelease
    <2> USE DEF Tamper, IInv, TypeOK
    <2>a. CASE DeleteTag
      BY <2>a, TamperPreservesIInv DEF DeleteTag
    <2>b. CASE DropRule
      <3>1. UNCHANGED <<tag, packages, release>>
        BY <2>b DEF DropRule
      <3>2. ruleLive' \in BOOLEAN
        BY <2>b DEF DropRule
      <3>3. TypeOK'
        BY <2>b, <3>1, <3>2 DEF DropRule
      <3> QED
        BY <2>b, <3>1, <3>3, TamperPreservesIInv DEF DropRule
    <2>c. CASE DeleteRelease
      BY <2>c, TamperPreservesIInv DEF DeleteRelease
    <2> QED
      BY <1>3, <2>a, <2>b, <2>c
  <1>4. CASE EditRelease
    <2>1. release \in Release
      BY <1>4 DEF EditRelease, IInv, TypeOK
    <2>2. [release EXCEPT !.text = Edited] \in Release
      BY <2>1 DEF Release
    <2>3. TypeOK'
      BY <1>4, <2>2 DEF EditRelease, Tamper, IInv, TypeOK
    <2> QED
      BY <1>4, <2>3, TamperPreservesIInv DEF EditRelease, Tamper
  <1>5. CASE \E k \in packages : DeletePackage(k)
    <2>1. TypeOK'
      BY <1>5 DEF DeletePackage, Tamper, IInv, TypeOK
    <2> QED
      BY <1>5, <2>1, TamperPreservesIInv DEF DeletePackage, Tamper
  <1>6. CASE RestoreRule
    <2>1. \A q \in Pipeline : Mode(q)' = Mode(q)
      BY <1>6, ModesStay DEF RestoreRule
    <2>2. TypeOK'
      BY <1>6 DEF RestoreRule, IInv, TypeOK
    <2>3. UploadsCounted' /\ PublishedIsListed' /\ (NoUploadDropped' <=> NoUploadDropped)
      BY <1>6, WorldStays DEF RestoreRule, IInv, PublishedIsListed
    <2> QED
      BY <1>6, <2>1, <2>2, <2>3
      DEF RestoreRule, IInv, NotStarted, OneInGroup, Approved, ConfirmedFirst, GatesHeld,
          NoLateUpload, LookedUp, GreenProjectionIsExact, Verifies
  <1> QED
    BY <1>1, <1>2, <1>3, <1>4, <1>5, <1>6 DEF Maintainer

-----------------------------------------------------------------------------

\* Nothing is tagged, uploaded, released or confirmed at first.
LEMMA InitEstablishesIInv == Init => IInv
  <1> SUFFICES ASSUME Init PROVE IInv
    OBVIOUS
  <1> USE DEF Init
  <1>1. TypeOK
    BY DEF TypeOK, TagKind, Status, Step, Idle, Package
  <1>2. /\ \A p \in Pipeline, j \in Job : job[p][j] = "waiting"
        /\ \A p \in Pipeline : act[p].step = "idle"
        /\ \A p \in Pipeline : pipe[p].tag = "none"
    BY DEF Idle
  <1>3. NotStarted /\ OneInGroup /\ Approved /\ ConfirmedFirst
    BY <1>2 DEF NotStarted, OneInGroup, Approved, ConfirmedFirst, Job, Projecting
  <1>4. UploadsCounted
    BY FS_EmptySet DEF UploadsCounted, NoUploadDropped
  <1>5. PublishedIsListed /\ NoLateUpload /\ LookedUp /\ GreenProjectionIsExact
    BY <1>2 DEF PublishedIsListed, NoLateUpload, LookedUp, GreenProjectionIsExact, Job
  <1> QED
    BY <1>1, <1>3, <1>4, <1>5 DEF IInv

LEMMA StepPreservesIInv == IInv /\ [Next]_vars => IInv'
  <1> SUFFICES ASSUME IInv, [Next]_vars PROVE IInv'
    OBVIOUS
  <1>1. CASE \E p \in Pipeline : Gating(p) \/ Work(p) \/ JobDies(p)
    BY <1>1, GatingPreservesIInv, WorkPreservesIInv, JobDiesPreservesIInv
  <1>2. CASE \E k \in packages : Index(k)
    BY <1>2, IndexPreservesIInv
  <1>3. CASE Maintainer
    BY <1>3, MaintainerPreservesIInv
  <1>4. CASE UNCHANGED vars
    BY <1>4 DEF vars, world, IInv, TypeOK, NotStarted, OneInGroup, Approved, ConfirmedFirst,
       UploadsCounted, NoUploadDropped, PublishedIsListed, Listed, NoLateUpload, LookedUp,
       GreenProjectionIsExact, Verifies, GatesHeld, Mode
  <1> QED
    BY <1>1, <1>2, <1>3, <1>4 DEF Next

THEOREM IInvHolds == Spec => []IInv
  BY InitEstablishesIInv, StepPreservesIInv, PTL DEF Spec

-----------------------------------------------------------------------------

\* Tag, packages, release and job states keep their types.
THEOREM TypeCorrect == Spec => []TypeOK
  <1>1. IInv => TypeOK
    BY DEF IInv
  <1> QED
    BY <1>1, IInvHolds, PTL

\* The release group never holds two jobs.
THEOREM GroupIsExclusive == Spec => []OneInGroup
  <1>1. IInv => OneInGroup
    BY DEF IInv
  <1> QED
    BY <1>1, IInvHolds, PTL

\* A green publish job reported a version the registry lists.
THEOREM PublishedMeansListed == Spec => []PublishedIsListed
  <1>1. IInv => PublishedIsListed
    BY DEF IInv
  <1> QED
    BY <1>1, IInvHolds, PTL

\* What a green projection vouched for stays exact until a maintainer edits.
THEOREM ProjectionsAreExact == Spec => []GreenProjectionIsExact
  <1>1. IInv => GreenProjectionIsExact
    BY DEF IInv
  <1> QED
    BY <1>1, IInvHolds, PTL

\* Uploads happen in PublishUpload only, releases appear in ProjectCreate only.
LEMMA WhoWrites ==
  ASSUME Next, uploads' # uploads \/ (release = None /\ release' # None)
  PROVE  \E p \in Pipeline :
           \/ act[p].step = "upload" /\ Mode(p) # "dry-run"
           \/ uploads' = uploads /\ act[p].step = "create"
  BY DEF Next, Gating, RunGate, RunLiveness, Approve, RunTests, VerifyConsumer, Decide,
      world,
         Work, PublishStart, PublishPreflight, PublishConfirm, PublishUpload, ProjectStart,
         ProjectLookup, ProjectRead, ProjectReread, ProjectCreate, JobDies, Index,
         Maintainer,
         PushTag, Rerun, DeleteTag, DropRule, RestoreRule, DeleteRelease, EditRelease,
         DeletePackage, Tamper

\* A pipeline that writes is approved.
LEMMA ApprovedWrite ==
  ASSUME IInv, Next, uploads' # uploads \/ (release = None /\ release' # None)
  PROVE  \E p \in Pipeline : /\ Mode(p) = "publish" /\ GatesHeld(p)
                             /\ act[p].step \in {"upload", "create"}
  <1>1. PICK p \in Pipeline : \/ act[p].step = "upload" /\ Mode(p) # "dry-run"
                              \/ uploads' = uploads /\ act[p].step = "create"
    BY WhoWrites
  <1>2. GatesHeld(p) /\ Mode(p) # "refused"
    BY <1>1, UnderWay DEF MayWrite
  <1>3. Mode(p) = "publish"
    BY <1>1, <1>2, ModeCases DEF IInv, Approved
  <1>4. QED BY <1>1, <1>2, <1>3

\* No upload and no release without green gates and a releasable commit.
THEOREM WritesAreApproved == Spec => OnlyApprovedWrites
  <1> DEFINE A == (uploads' # uploads \/ (release = None /\ release' # None)) =>
                    \E p \in Pipeline : /\ Mode(p) = "publish" /\ GatesHeld(p)
                                        /\ act[p].step \in {"upload", "create"}
  <1>1. IInv /\ [Next]_vars => [A]_vars
    BY ApprovedWrite
  <1> QED
    BY <1>1, IInvHolds, PTL DEF Spec, OnlyApprovedWrites

\* A confirmed version is not uploaded again.
THEOREM ConfirmationEndsUploads == Spec => ConfirmedEndsUploads
  <1> DEFINE A == confirmed /\ NoUploadDropped => uploads' = uploads
  <1>1. IInv /\ [Next]_vars => [A]_vars
    <2> SUFFICES ASSUME IInv, Next, uploads' # uploads
                 PROVE  ~(confirmed /\ NoUploadDropped)
      OBVIOUS
    <2>1. PICK p \in Pipeline : act[p].step = "upload" /\ Mode(p) # "dry-run"
      BY WhoWrites
    <2> QED
      BY <2>1, UploadNotConfirmed
  <1> QED
    BY <1>1, IInvHolds, PTL DEF Spec, ConfirmedEndsUploads

-----------------------------------------------------------------------------
(* The commands beside the pipelines *)

CmdStep == {"idle", "tags", "packages", "update", "drop", "add", "verify"}
Outcome == {"none", "ok", "drift", "refused", "failed", "restored", "still drifts"}
PlanRecord == [update : BOOLEAN, drop : SUBSET Nat, add : BOOLEAN]
CmdRecord == [step : CmdStep, rel : Release \union {None}, tag : Commit \union {None},
              pkgs : SUBSET Package, plan : PlanRecord]

\* The sweep only reads; a restoration writes what it could derive.
DriftTypes ==
  /\ cmd \in [Command -> CmdRecord]
  /\ report \in [Command -> Outcome]
  /\ linkIds \in Nat
  /\ cmd["audit"].step \in {"idle", "tags", "packages"}
  /\ cmd["restore"].step \in {"update", "drop", "add", "verify"}
       => cmd["restore"].tag \in Releasable

\* A release was made for the version's one package, and nothing adds another.
ReleasedOnce ==
  tampers = 0 /\ release # None =>
    /\ confirmed
    /\ \E k \in packages : /\ packages = {k} /\ k.ready
                           /\ release.links = {[id |-> 1, to |-> k.id]}

\* What a command read of a release is still true of it, but for its text.
SeenStays ==
  tampers = 0 =>
    \A a \in Command : cmd[a].rel # None =>
      /\ release # None
      /\ cmd[a].rel.commit = release.commit
      /\ cmd[a].rel.links = release.links

\* A restoration that no maintainer made necessary has the text left to write.
PlanHarmless ==
  tampers = 0 /\ cmd["restore"].step \in {"update", "drop", "add"} =>
    /\ cmd["restore"].plan.drop = {} /\ ~cmd["restore"].plan.add
    /\ release # None
    /\ cmd["restore"].tag = release.commit

\* The release tag was pushed at two commits.
Retagged ==
  \E p, q \in Pipeline : pipe[p].tag = "release" /\ pipe[q].tag = "release"
                         /\ pipe[p].commit # pipe[q].commit

\* With one commit, tag, pipelines and release agree on it.
OneCommit ==
  ~Retagged /\ tampers = 0 =>
    /\ \A p \in Pipeline : pipe[p].tag = "release" => tag = pipe[p].commit
    /\ release # None =>
         /\ release.commit = tag /\ release.text = tag /\ tag \in Releasable
         /\ \E p \in Pipeline : pipe[p].tag = "release"

\* So does what the sweep has read.
SweepAgrees ==
  ~Retagged /\ tampers = 0 =>
    /\ cmd["audit"].rel # None => cmd["audit"].rel.text = release.commit
    /\ cmd["audit"].rel # None /\ cmd["audit"].step = "packages"
         => cmd["audit"].tag = release.commit
    /\ report["audit"] # "drift"

DriftInv ==
  /\ IInv
  /\ DriftTypes
  /\ ReleasedOnce
  /\ SeenStays
  /\ PlanHarmless
  /\ OneCommit
  /\ SweepAgrees

-----------------------------------------------------------------------------
(* Steps of the pipelines beside the commands. *)

\* What a step may do to the surfaces, when no maintainer has touched them: a
\* tag is pushed, a release is created, an upload is taken or indexed.
LEMMA UntamperedStep ==
  ASSUME TypeOK, Next, tampers' = 0
  PROVE  /\ tampers = 0
         /\ confirmed => confirmed'
         /\ packages' = packages \/ uploads' # uploads \/ \E k \in packages : ~k.ready
         /\ \/ UNCHANGED <<tag, pipe, release>>
            \/ \E p \in Pipeline, c \in Commit, kind \in {"release", "dryrun"} :
                 PushTag(p, c, kind)
            \/ \E p \in Pipeline :
                 /\ act[p].step = "create" /\ release = None /\ tag # None
                 /\ release' = [commit |-> tag, text |-> pipe[p].commit,
                                links |-> {[id |-> 1, to |-> act[p].chosen]}]
                 /\ UNCHANGED <<tag, packages, pipe, confirmed>>
  <1> USE DEF Decide, world, End, Goto, TypeOK
  <1>1. CASE \E p \in Pipeline : Gating(p)
    BY <1>1 DEF Gating, RunGate, RunLiveness, Approve, RunTests, VerifyConsumer
  <1>2. ASSUME NEW p \in Pipeline, Work(p) \/ JobDies(p)
        PROVE  /\ UNCHANGED <<tag, pipe, tampers>>
               /\ confirmed => confirmed'
               /\ packages' = packages \/ uploads' # uploads
               /\ \/ release' = release
                  \/ /\ act[p].step = "create" /\ release = None /\ tag # None
                     /\ release' = [commit |-> tag, text |-> pipe[p].commit,
                                    links |-> {[id |-> 1, to |-> act[p].chosen]}]
                     /\ UNCHANGED <<packages, confirmed>>
    BY <1>2 DEF Work, PublishStart, PublishPreflight, PublishConfirm, PublishUpload,
        ProjectStart,
        ProjectLookup, ProjectRead, ProjectReread, ProjectCreate, JobDies
  <1>3. CASE \E k \in packages : Index(k)
    BY <1>3 DEF Index
  <1>4. CASE Maintainer
    <2>1. ASSUME NEW p \in Pipeline, NEW c \in Commit, NEW kind \in {"release", "dryrun"},
                 PushTag(p, c, kind)
          PROVE  UNCHANGED <<tampers, confirmed, packages>>
      BY <2>1 DEF PushTag
    <2>2. ASSUME NEW p \in Pipeline, NEW j \in Job, Rerun(p, j)
          PROVE  UNCHANGED <<tampers, confirmed, packages, tag, pipe, release>>
      BY <2>2 DEF Rerun
    <2>3. CASE DeleteTag \/ DropRule \/ DeleteRelease \/ EditRelease
               \/ \E k \in packages : DeletePackage(k)
      BY <2>3 DEF DeleteTag, DropRule, DeleteRelease, EditRelease, DeletePackage, Tamper
    <2>4. CASE RestoreRule
      BY <2>4 DEF RestoreRule
    <2>5. QED BY <1>4, <2>1, <2>2, <2>3, <2>4 DEF Maintainer
  <1>5. QED BY <1>1, <1>2, <1>3, <1>4 DEF Next

\* A pipeline's commit is settled when its tag is pushed.
LEMMA RetaggedStays ==
  ASSUME TypeOK, Next, tampers' = 0, Retagged
  PROVE  Retagged'
  <1>1. \A p \in Pipeline : pipe[p].tag = "release" => pipe'[p] = pipe[p]
    <2>1. CASE \E p \in Pipeline, c \in Commit, kind \in {"release", "dryrun"} : PushTag(p, c, kind)
      BY <2>1 DEF PushTag, TypeOK
    <2>2. CASE pipe' = pipe
      BY <2>2
    <2>3. QED BY <2>1, <2>2, UntamperedStep
  <1>2. QED BY <1>1 DEF Retagged

\* Once there is a release, its version's package and the release stay.
LEMMA ReleasedStays ==
  ASSUME IInv, ReleasedOnce, Next, tampers' = 0, release # None
  PROVE  confirmed' /\ packages' = packages /\ release' = release
  <1>1. tampers = 0 /\ confirmed /\ NoUploadDropped /\ \A k \in packages : k.ready
    BY UntamperedStep DEF IInv, UploadsCounted, ReleasedOnce
  <1>2. uploads' = uploads
    BY <1>1, WhoWrites, UploadNotConfirmed
  <1>3. packages' = packages /\ confirmed'
    BY <1>1, <1>2, UntamperedStep DEF IInv
  <1>4. release' = release
    BY UntamperedStep DEF IInv, PushTag
  <1>5. QED BY <1>3, <1>4

\* The release a projection creates: for the version's one package, and if the
\* tag names one commit, of that commit.
LEMMA ReleaseCreated ==
  ASSUME DriftInv, Next, tampers' = 0, release' # None
  PROVE  ReleasedOnce' /\ OneCommit'
  <1>1. TypeOK /\ tampers = 0
    BY UntamperedStep DEF DriftInv, IInv
  <1>2. CASE release # None
    <2>1. confirmed' /\ packages' = packages /\ release' = release
      BY <1>2, ReleasedStays DEF DriftInv
    <2>2. ReleasedOnce'
      BY <1>1, <1>2, <2>1 DEF DriftInv, ReleasedOnce
    <2>3. OneCommit'
      <3> SUFFICES ASSUME ~Retagged' PROVE OneCommit'
        BY DEF OneCommit
      <3>1. ~Retagged
        BY <1>1, RetaggedStays
      <3>2. /\ \A p \in Pipeline : pipe[p].tag = "release" => tag = pipe[p].commit
            /\ release.commit = tag /\ release.text = tag /\ tag \in Releasable
        BY <1>1, <1>2, <3>1 DEF DriftInv, OneCommit
      <3>3. PICK q \in Pipeline : pipe[q].tag = "release"
        BY <1>1, <1>2, <3>1 DEF DriftInv, OneCommit
      <3>4. CASE pipe' = pipe /\ tag' = tag
        BY <1>1, <2>1, <3>2, <3>3, <3>4 DEF OneCommit
      <3>5. ASSUME NEW p \in Pipeline, NEW c \in Commit, NEW kind \in {"release", "dryrun"},
                   PushTag(p, c, kind)
            PROVE  OneCommit'
        <4>1. /\ p # q /\ pipe'[q] = pipe[q]
              /\ pipe'[p] = [tag |-> kind, commit |-> c]
              /\ \A r \in Pipeline \ {p} : pipe'[r] = pipe[r]
              /\ tag' = IF kind = "release" THEN c ELSE tag
          BY <1>1, <3>3, <3>5 DEF PushTag, TypeOK
        <4>2. kind = "release" => c = pipe[q].commit
          BY <3>3, <4>1 DEF Retagged
        <4>3. tag' = tag
          BY <3>2, <3>3, <4>1, <4>2
        <4>4. \A r \in Pipeline : pipe'[r].tag = "release" => tag' = pipe'[r].commit
          BY <3>2, <4>1, <4>3
        <4>5. QED BY <2>1, <3>2, <3>3, <4>1, <4>3, <4>4 DEF OneCommit
      <3>6. QED BY <1>1, <1>2, <2>1, <3>4, <3>5, UntamperedStep
    <2>4. QED BY <2>2, <2>3
  <1>3. CASE release = None
    <2>1. PICK p \in Pipeline :
                 /\ act[p].step = "create" /\ release = None /\ tag # None
                 /\ release' = [commit |-> tag, text |-> pipe[p].commit,
                                links |-> {[id |-> 1, to |-> act[p].chosen]}]
                 /\ UNCHANGED <<tag, packages, pipe, confirmed>>
      BY <1>1, <1>3, UntamperedStep DEF PushTag
    <2>2. Mode(p) = "publish" /\ confirmed /\ pipe[p].tag # "none"
      BY <2>1, UnderWay DEF DriftInv, IInv, Approved, ConfirmedFirst, Projecting, MayWrite
    <2>3. PICK k \in packages : packages = {k} /\ k.ready /\ k.id = act[p].chosen
      BY <1>1, <2>1, <2>2 DEF DriftInv, IInv, LookedUp
    <2>4. ReleasedOnce'
      BY <2>1, <2>2, <2>3 DEF ReleasedOnce
    <2>5. pipe[p].tag = "release" /\ pipe[p].commit \in Releasable
      BY <1>1, <2>2 DEF Mode, TypeOK, TagKind
    <2>6. OneCommit'
      <3> SUFFICES ASSUME ~Retagged' PROVE OneCommit'
        BY DEF OneCommit
      <3>1. \A q \in Pipeline : pipe[q].tag = "release" => tag = pipe[q].commit
        BY <1>1, RetaggedStays DEF DriftInv, OneCommit
      <3>2. release'.commit = tag /\ release'.text = tag /\ tag \in Releasable
        BY <2>1, <2>5, <3>1
      <3>3. QED BY <2>1, <2>5, <3>1, <3>2 DEF OneCommit
    <2>7. QED BY <2>4, <2>6
  <1>4. QED BY <1>2, <1>3

\* A step of the pipelines, beside commands that stand still.
LEMMA PipelineStep ==
  ASSUME DriftInv, Next, UNCHANGED driftVars
  PROVE  DriftInv'
  <1>1. IInv'
    BY StepPreservesIInv DEF DriftInv
  <1>2. DriftTypes'
    BY DEF DriftInv, DriftTypes, driftVars
  <1>3. CASE tampers' # 0
    BY <1>1, <1>2, <1>3 DEF DriftInv, ReleasedOnce, SeenStays, PlanHarmless, OneCommit,
        SweepAgrees
  <1>4. CASE tampers' = 0
    <2>1. TypeOK /\ tampers = 0
      BY <1>4, UntamperedStep DEF DriftInv, IInv
    <2>2. release # None => release' = release
      BY <1>4, ReleasedStays DEF DriftInv
    <2>3. ReleasedOnce'
      BY <1>4, ReleaseCreated DEF ReleasedOnce
    <2>4. SeenStays'
      BY <2>1, <2>2 DEF DriftInv, SeenStays, driftVars
    <2>5. PlanHarmless'
      BY <2>1, <2>2 DEF DriftInv, PlanHarmless, driftVars
    <2>6. OneCommit'
      <3>1. CASE release' # None
        BY <1>4, <3>1, ReleaseCreated
      <3>2. CASE release' = None
        <4> SUFFICES ASSUME ~Retagged', NEW q \in Pipeline, pipe'[q].tag = "release"
                     PROVE  tag' = pipe'[q].commit
          BY <3>2 DEF OneCommit
        <4>1. \A r \in Pipeline : pipe[r].tag = "release" => tag = pipe[r].commit
          BY <1>4, <2>1, RetaggedStays DEF DriftInv, OneCommit
        <4>2. CASE pipe' = pipe /\ tag' = tag
          BY <4>1, <4>2
        <4>3. ASSUME NEW p \in Pipeline, NEW c \in Commit, NEW kind \in {"release", "dryrun"},
                     PushTag(p, c, kind)
              PROVE  tag' = pipe'[q].commit
          <5>1. /\ pipe'[p] = [tag |-> kind, commit |-> c]
                /\ \A r \in Pipeline \ {p} : pipe'[r] = pipe[r]
                /\ tag' = IF kind = "release" THEN c ELSE tag
            BY <2>1, <4>3 DEF PushTag, TypeOK
          <5>2. CASE kind = "release"
            BY <5>1, <5>2 DEF Retagged
          <5>3. CASE kind # "release"
            BY <4>1, <5>1, <5>3
          <5>4. QED BY <5>2, <5>3
        <4>4. QED BY <1>4, <2>1, <4>2, <4>3, UntamperedStep
      <3>3. QED BY <3>1, <3>2
    <2>7. SweepAgrees'
      <3> SUFFICES ASSUME ~Retagged' PROVE SweepAgrees'
        BY DEF SweepAgrees
      <3>1. ~Retagged
        BY <1>4, <2>1, RetaggedStays
      <3>2. cmd["audit"].rel # None => release' = release
        BY <2>1, <2>2 DEF DriftInv, SeenStays, Command
      <3>3. QED BY <2>1, <3>1, <3>2 DEF DriftInv, SweepAgrees, driftVars
    <2>8. QED BY <1>1, <1>2, <2>3, <2>4, <2>5, <2>6, <2>7 DEF DriftInv
  <1>5. QED BY <1>3, <1>4

-----------------------------------------------------------------------------
(* Steps of the commands: the pipelines and what they keep stand still. *)

\* A restoration changes the release alone: between maintainers' edits no more
\* than its text, back to its commit.
LEMMA RewritePreservesIInv ==
  ASSUME IInv, release # None, release' \in Release,
         UNCHANGED <<tag, ruleLive, packages, uploads, pipe, job, act, reruns, tampers,
         confirmed>>,
         tampers = 0 => /\ release'.commit = release.commit /\ release'.links = release.links
                        /\ release'.text = release.commit
  PROVE  IInv'
  <1> USE DEF IInv
  <1>1. \A q \in Pipeline : Mode(q)' = Mode(q)
    BY ModesStay
  <1>2. TypeOK'
    BY DEF TypeOK
  <1>3. NotStarted' /\ OneInGroup' /\ Approved' /\ ConfirmedFirst' /\ LookedUp'
    BY <1>1 DEF NotStarted, OneInGroup, Approved, ConfirmedFirst, GatesHeld, LookedUp
  <1>4. UploadsCounted' /\ PublishedIsListed' /\ NoLateUpload'
    BY <1>1 DEF UploadsCounted, NoUploadDropped, PublishedIsListed, Listed, NoLateUpload
  <1>5. GreenProjectionIsExact'
    <2> SUFFICES ASSUME NEW p \in Pipeline, job[p]["projection"] = "success", Mode(p) = "publish",
                        tampers = 0
                 PROVE  /\ release' # None
                        /\ \E k \in packages : /\ packages = {k} /\ k.ready
                                               /\ Verifies(release', pipe[p].commit, k.id)
      BY <1>1 DEF GreenProjectionIsExact
    <2>1. PICK k \in packages : packages = {k} /\ k.ready /\ Verifies(release, pipe[p].commit, k.id)
      BY DEF GreenProjectionIsExact
    <2>2. Verifies(release', pipe[p].commit, k.id)
      BY <2>1 DEF Verifies
    <2>3. QED BY <2>1, <2>2, NoneAssumption
  <1>6. QED BY <1>2, <1>3, <1>4, <1>5

\* What a step of a command that writes nothing has to keep.
LEMMA ReadingStep ==
  ASSUME DriftInv, UNCHANGED vars, DriftTypes',
         tampers = 0 => \A a \in Command : cmd'[a].rel \in {None, cmd[a].rel, release},
         PlanHarmless', SweepAgrees'
  PROVE  DriftInv'
  <1>1. IInv'
    BY StepPreservesIInv DEF DriftInv
  <1>2. ReleasedOnce' /\ OneCommit'
    BY DEF DriftInv, ReleasedOnce, OneCommit, Retagged, vars, world
  <1>3. SeenStays'
    BY DEF DriftInv, SeenStays, vars, world
  <1>4. QED BY <1>1, <1>2, <1>3 DEF DriftInv

\* A command that ends prints its outcome and forgets what it has read.
LEMMA FinishKeeps ==
  ASSUME DriftInv, NEW a \in Command, NEW o \in Outcome, Finish(a, o),
         UNCHANGED <<vars, linkIds>>,
         a = "audit" /\ tampers = 0 /\ ~Retagged => o # "drift"
  PROVE  DriftInv'
  <1>1. Ended \in CmdRecord /\ Ended.step = "idle" /\ Ended.rel = None
    BY DEF Ended, NoPlan, CmdRecord, PlanRecord, CmdStep
  <1>2. /\ cmd' \in [Command -> CmdRecord] /\ report' \in [Command -> Outcome]
        /\ cmd'[a] = Ended /\ report'[a] = o
        /\ \A b \in Command : b # a => cmd'[b] = cmd[b] /\ report'[b] = report[b]
    BY <1>1 DEF DriftInv, DriftTypes, Finish
  <1>3. DriftTypes'
    BY <1>1, <1>2 DEF DriftInv, DriftTypes, Command
  <1>4. PlanHarmless'
    BY <1>1, <1>2 DEF DriftInv, PlanHarmless, Command, vars, world
  <1>5. SweepAgrees'
    BY <1>1, <1>2 DEF DriftInv, SweepAgrees, Command, vars, world, Retagged
  <1>6. QED BY <1>1, <1>2, <1>3, <1>4, <1>5, ReadingStep

\* A command at its next step, with what it has read so far.
LEMMA ReadReleasesKeeps ==
  ASSUME DriftInv, NEW a \in Command, ReadReleases(a)
  PROVE  DriftInv'
  <1> DEFINE r == [Ended EXCEPT !.step = "tags", !.rel = release]
  <1>1. r \in CmdRecord /\ r.step = "tags" /\ r.rel = release
    BY DEF DriftInv, IInv, TypeOK, Ended, NoPlan, CmdRecord, PlanRecord, CmdStep
  <1>2. /\ cmd' \in [Command -> CmdRecord] /\ report' \in [Command -> Outcome]
        /\ cmd'[a] = r /\ report'[a] = "none"
        /\ \A b \in Command : b # a => cmd'[b] = cmd[b] /\ report'[b] = report[b]
        /\ UNCHANGED <<vars, linkIds, faults>>
    BY <1>1 DEF DriftInv, DriftTypes, ReadReleases, Outcome
  <1>3. DriftTypes'
    BY <1>1, <1>2 DEF DriftInv, DriftTypes, Command
  <1>4. PlanHarmless'
    BY <1>1, <1>2 DEF DriftInv, PlanHarmless, Command, vars, world
  <1>5. SweepAgrees'
    BY <1>1, <1>2 DEF DriftInv, SweepAgrees, OneCommit, Command, vars, world, Retagged
  <1>6. QED BY <1>1, <1>2, <1>3, <1>4, <1>5, ReadingStep

\* The tags are read after the releases: without a retag they still agree.
LEMMA ReadTagsKeeps ==
  ASSUME DriftInv, NEW a \in Command, ReadTags(a)
  PROVE  DriftInv'
  <1> DEFINE r == [cmd[a] EXCEPT !.step = "packages", !.tag = tag]
  <1>1. /\ r \in CmdRecord /\ r.step = "packages" /\ r.tag = tag
        /\ r.rel = cmd[a].rel
    BY DEF DriftInv, IInv, TypeOK, DriftTypes, CmdRecord, CmdStep
  <1>2. /\ cmd' \in [Command -> CmdRecord] /\ cmd'[a] = r
        /\ \A b \in Command : b # a => cmd'[b] = cmd[b]
        /\ UNCHANGED <<vars, report, linkIds, faults>>
    BY <1>1 DEF DriftInv, DriftTypes, ReadTags
  <1>3. DriftTypes'
    BY <1>1, <1>2 DEF DriftInv, DriftTypes, Command
  <1>4. PlanHarmless'
    BY <1>1, <1>2 DEF DriftInv, PlanHarmless, Command, vars, world
  <1>5. SweepAgrees'
    <2>1. CASE a = "audit"
      <3>1. cmd'["audit"].rel = cmd["audit"].rel /\ cmd'["audit"].tag = tag
            /\ report' = report /\ release' = release /\ tampers' = tampers
            /\ (Retagged' <=> Retagged)
        BY <1>1, <1>2, <2>1 DEF vars, world, Retagged
      <3>2. tampers = 0 /\ ~Retagged /\ cmd["audit"].rel # None => tag = release.commit
        BY DEF DriftInv, SeenStays, OneCommit, Command
      <3>3. QED BY <3>1, <3>2 DEF DriftInv, SweepAgrees
    <2>2. CASE a # "audit"
      BY <1>2, <2>2 DEF DriftInv, SweepAgrees, Command, vars, world, Retagged
    <2>3. QED BY <2>1, <2>2
  <1>6. QED BY <1>1, <1>2, <1>3, <1>4, <1>5, ReadingStep

\* What the comparison and the plan are derived from, while maintainers keep off:
\* the one package and the one link to it.
LEMMA OneLink ==
  ASSUME DriftInv, tampers = 0, NEW a \in Command, cmd[a].rel # None
  PROVE  \E k \in packages : /\ PackagesRead(a) = {k} /\ k.ready
                             /\ ~ChooseFails(PackagesRead(a))
                             /\ ChosenId(PackagesRead(a)) = k.id
                             /\ cmd[a].rel.links = {[id |-> 1, to |-> k.id]}
                             /\ release # None /\ cmd[a].rel.commit = release.commit
  <1>1. release # None /\ cmd[a].rel.commit = release.commit /\ cmd[a].rel.links = release.links
    BY DEF DriftInv, SeenStays
  <1>2. PICK k \in packages : packages = {k} /\ k.ready /\ release.links = {[id |-> 1, to |-> k.id]}
    BY <1>1 DEF DriftInv, ReleasedOnce
  <1>3. PackagesRead(a) = {k}
    BY <1>2 DEF PackagesRead
  <1>4. Cardinality({k}) = 1
    BY FS_Singleton
  <1>5. ~ChooseFails({k}) /\ ChosenId({k}) = k.id
    BY <1>2, <1>4 DEF ChooseFails, ChosenId
  <1>6. QED BY <1>1, <1>2, <1>3, <1>5

\* The comparison finds nothing that a maintainer did not do.
LEMMA AuditKeeps ==
  ASSUME DriftInv, Audit
  PROVE  DriftInv'
  <1> DEFINE a == cmd["audit"]
             o == IF a.rel = None \/ Exact(a.rel, a.tag, PackagesRead("audit")) THEN "ok" ELSE "drift"
  <1>1. /\ a.step = "packages" /\ Finish("audit", o) /\ UNCHANGED <<vars, linkIds, faults>>
        /\ o \in Outcome
    BY DEF Audit, Outcome
  <1>2. ASSUME tampers = 0, ~Retagged, a.rel # None
        PROVE  Exact(a.rel, a.tag, PackagesRead("audit"))
    <2>1. PICK k \in packages : /\ PackagesRead("audit") = {k} /\ k.ready
                                /\ ~ChooseFails(PackagesRead("audit"))
                                /\ ChosenId(PackagesRead("audit")) = k.id
                                /\ a.rel.links = {[id |-> 1, to |-> k.id]}
                                /\ release # None /\ a.rel.commit = release.commit
      BY <1>2, OneLink DEF Command
    <2>2. a.rel.text = release.commit /\ a.tag = release.commit
      BY <1>1, <1>2 DEF DriftInv, SweepAgrees
    <2>3. release.commit \in Releasable
      BY <1>2, <2>1 DEF DriftInv, OneCommit
    <2>4. Cardinality({[id |-> 1, to |-> k.id]}) = 1
      BY FS_Singleton
    <2>5. Verifies(a.rel, a.tag, k.id)
      BY <2>1, <2>2, <2>4 DEF Verifies
    <2>6. QED BY <2>1, <2>2, <2>3, <2>5 DEF Exact, Derivable
  <1>3. tampers = 0 /\ ~Retagged => o # "drift"
    BY <1>2
  <1>4. QED BY <1>1, <1>3, FinishKeeps DEF Command

\* The plan rewrites the text at most, unless a maintainer edited the release.
LEMMA PlanKeeps ==
  ASSUME DriftInv, Plan
  PROVE  DriftInv'
  <1> DEFINE a == cmd["restore"]
             pkgs == PackagesRead("restore")
             plan == RestorationPlan(a.rel, a.tag, pkgs)
             r == [a EXCEPT !.step = "update", !.rel = None, !.pkgs = pkgs, !.plan = plan]
  <1>1. a.step = "packages" /\ UNCHANGED <<vars, linkIds, faults>> /\ a \in CmdRecord
    BY DEF Plan, DriftInv, DriftTypes, Command
  <1>2. CASE \E o \in {"refused", "ok"} : Finish("restore", o)
    BY <1>1, <1>2, FinishKeeps DEF Command, Outcome
  <1>3. ASSUME a.rel # None, Derivable(a.tag, pkgs), a.rel.commit = a.tag,
               cmd' = [cmd EXCEPT !["restore"] = r], UNCHANGED report
        PROVE  DriftInv'
    <2>1. a.rel \in Release /\ pkgs \subseteq Package
      BY <1>1, <1>3 DEF CmdRecord, PackagesRead, DriftInv, IInv, TypeOK
    <2>2. plan \in PlanRecord
      <3>1. \A l \in a.rel.links : l.id \in Nat
        BY <2>1 DEF Release, Link
      <3>2. plan.update \in BOOLEAN /\ plan.add \in BOOLEAN /\ plan.drop \subseteq Nat
            /\ plan = [update |-> plan.update, drop |-> plan.drop, add |-> plan.add]
        BY <3>1 DEF RestorationPlan
      <3>3. QED BY <3>2 DEF PlanRecord
    <2>3. /\ r \in CmdRecord /\ r.step = "update" /\ r.rel = None /\ r.tag = a.tag
          /\ r.plan = plan
      BY <1>1, <2>1, <2>2 DEF CmdRecord, CmdStep
    <2>4. /\ cmd' \in [Command -> CmdRecord] /\ cmd'["restore"] = r
          /\ cmd'["audit"] = cmd["audit"]
      BY <1>3, <2>3 DEF DriftInv, DriftTypes, Command
    <2>5. a.tag \in Releasable
      BY <1>3 DEF Derivable
    <2>6. DriftTypes'
      BY <1>1, <1>3, <2>3, <2>4, <2>5 DEF DriftInv, DriftTypes
    <2>7. PlanHarmless'
      <3>1. ASSUME tampers = 0
            PROVE  /\ plan.drop = {} /\ ~plan.add
                   /\ release # None /\ a.tag = release.commit
        <4>1. PICK k \in packages : /\ ChosenId(pkgs) = k.id
                                    /\ a.rel.links = {[id |-> 1, to |-> k.id]}
                                    /\ release # None /\ a.rel.commit = release.commit
          BY <1>3, <3>1, OneLink DEF Command
        <4>2. {l \in a.rel.links : l.to = ChosenId(pkgs)} = {[id |-> 1, to |-> k.id]}
          BY <4>1
        <4>3. {CHOOSE l \in {[id |-> 1, to |-> k.id]} : TRUE} = {[id |-> 1, to |-> k.id]}
          OBVIOUS
        <4>4. plan.drop = {} /\ plan.add = FALSE
          BY <4>1, <4>2, <4>3 DEF RestorationPlan
        <4>5. QED BY <1>3, <4>1, <4>4
      <3>2. QED BY <1>1, <2>3, <2>4, <3>1 DEF PlanHarmless, vars, world
    <2>8. SweepAgrees'
      BY <1>1, <1>3, <2>4 DEF DriftInv, SweepAgrees, vars, world, Retagged
    <2>9. tampers = 0 => \A b \in Command : cmd'[b].rel \in {None, cmd[b].rel, release}
      BY <2>3, <2>4 DEF Command
    <2>10. QED BY <1>1, <2>6, <2>7, <2>8, <2>9, ReadingStep
  <1>4. QED BY <1>2, <1>3 DEF Plan

\* What is stored is read back and reported.
LEMMA VerifyKeeps ==
  ASSUME DriftInv, RestoreVerify
  PROVE  DriftInv'
  <1>1. PICK o \in {"restored", "still drifts"} : Finish("restore", o)
    BY DEF RestoreVerify
  <1>2. QED BY <1>1, FinishKeeps DEF RestoreVerify, Command, Outcome

\* The restoration goes on to its next step without a request.
LEMMA SkipKeeps ==
  ASSUME DriftInv, cmd["restore"].step \in {"update", "drop", "add"},
         NEW next \in {"drop", "add", "verify"}, Skip(next)
  PROVE  DriftInv'
  <1> DEFINE r == [cmd["restore"] EXCEPT !.step = next]
  <1>1. /\ r \in CmdRecord /\ r.step = next /\ r.rel = cmd["restore"].rel
        /\ r.tag = cmd["restore"].tag /\ r.plan = cmd["restore"].plan
    BY DEF DriftInv, DriftTypes, Command, CmdRecord, CmdStep
  <1>2. /\ cmd' \in [Command -> CmdRecord] /\ cmd'["restore"] = r
        /\ cmd'["audit"] = cmd["audit"] /\ UNCHANGED <<vars, report, linkIds>>
    BY <1>1 DEF DriftInv, DriftTypes, Skip, Command
  <1>3. DriftTypes'
    BY <1>1, <1>2 DEF DriftInv, DriftTypes
  <1>4. PlanHarmless'
    BY <1>1, <1>2 DEF DriftInv, PlanHarmless, vars, world
  <1>5. SweepAgrees'
    BY <1>2 DEF DriftInv, SweepAgrees, vars, world, Retagged
  <1>6. \A b \in Command : cmd'[b].rel = cmd[b].rel
    BY <1>1, <1>2 DEF Command
  <1>7. QED BY <1>2, <1>3, <1>4, <1>5, <1>6, ReadingStep

\* A write of the restoration: the release it leaves, the step it goes to.
LEMMA WriteKeeps ==
  ASSUME DriftInv, release # None, cmd["restore"].step \in {"update", "drop", "add"},
         NEW done \in BOOLEAN, NEW answered \in BOOLEAN, NEW rel \in Release,
         NEW next \in CmdRecord, Write(done, answered, next, rel), linkIds' \in Nat,
         next.rel = cmd["restore"].rel, next.tag = cmd["restore"].tag,
         next.step \in {"drop", "add", "verify"},
         tampers = 0 => /\ rel.commit = release.commit /\ rel.links = release.links
                        /\ rel.text = release.commit
                        /\ next.plan = cmd["restore"].plan
  PROVE  DriftInv'
  <1>1. /\ UNCHANGED <<tag, ruleLive, packages, uploads, pipe, job, act, reruns, tampers, confirmed>>
        /\ release' = IF done THEN rel ELSE release
        /\ release' \in Release /\ release' # None
    BY NoneAssumption DEF Write, DriftInv, IInv, TypeOK
  <1>2. IInv'
    <2>1. CASE done
      BY <1>1, <2>1, RewritePreservesIInv DEF DriftInv
    <2>2. CASE ~done
      BY <1>1, <2>2, StepPreservesIInv DEF DriftInv, vars, world
    <2>3. QED BY <2>1, <2>2
  <1>3. tampers = 0 =>
          /\ release'.commit = release.commit /\ release'.links = release.links
          /\ release'.text \in {release.text, release.commit}
    BY <1>1
  <1>4. Ended \in CmdRecord /\ Ended.step = "idle" /\ Ended.rel = None
    BY DEF Ended, NoPlan, CmdRecord, PlanRecord, CmdStep
  <1>5. /\ cmd' \in [Command -> CmdRecord] /\ report' \in [Command -> Outcome]
        /\ cmd'["restore"] = next \/ cmd'["restore"] = Ended
        /\ cmd'["audit"] = cmd["audit"] /\ report'["audit"] = report["audit"]
    BY <1>4 DEF Write, Finish, DriftInv, DriftTypes, Command, Outcome
  <1>6. DriftTypes'
    BY <1>4, <1>5 DEF DriftInv, DriftTypes
  <1>7. ReleasedOnce'
    BY <1>1, <1>3 DEF DriftInv, ReleasedOnce
  <1>8. SeenStays'
    BY <1>1, <1>3, <1>4, <1>5 DEF DriftInv, SeenStays, Command
  <1>9. PlanHarmless'
    BY <1>1, <1>3, <1>4, <1>5 DEF DriftInv, PlanHarmless
  <1>10. OneCommit'
    BY <1>1, <1>3 DEF DriftInv, OneCommit, Retagged
  <1>11. SweepAgrees'
    BY <1>1, <1>3, <1>5 DEF DriftInv, SweepAgrees, SeenStays, Retagged, Command
  <1>12. QED BY <1>2, <1>6, <1>7, <1>8, <1>9, <1>10, <1>11 DEF DriftInv

\* Title and description are written.
LEMMA RestoreTextKeeps ==
  ASSUME DriftInv, NEW done \in BOOLEAN, NEW answered \in BOOLEAN, RestoreText(done, answered)
  PROVE  DriftInv'
  <1> DEFINE a == cmd["restore"]
             rel == [release EXCEPT !.text = a.tag]
             next == [a EXCEPT !.step = "drop"]
  <1>1. a.step = "update" /\ a \in CmdRecord /\ a.tag \in Releasable /\ linkIds \in Nat
    BY DEF RestoreText, DriftInv, DriftTypes, Command
  <1>2. CASE Skip("drop")
    BY <1>1, <1>2, SkipKeeps
  <1>3. CASE NotFound
    BY <1>3, FinishKeeps DEF NotFound, Command, Outcome
  <1>4. ASSUME release # None, Write(done, answered, next, rel), UNCHANGED linkIds
        PROVE  DriftInv'
    <2>1. release \in Release /\ a.tag \in Commit
      BY <1>1, <1>4, CommitAssumption DEF DriftInv, IInv, TypeOK
    <2>2. rel \in Release /\ rel.commit = release.commit /\ rel.links = release.links
          /\ rel.text = a.tag
      BY <2>1 DEF Release
    <2>3. next \in CmdRecord /\ next.rel = a.rel /\ next.tag = a.tag /\ next.step = "drop"
          /\ next.plan = a.plan
      BY <1>1 DEF CmdRecord, CmdStep
    <2>4. tampers = 0 => a.tag = release.commit
      BY <1>1 DEF DriftInv, PlanHarmless
    <2>5. QED BY <1>1, <1>4, <2>2, <2>3, <2>4, WriteKeeps
  <1>5. QED BY <1>2, <1>3, <1>4 DEF RestoreText

\* A link is deleted, which only a hand edit makes necessary.
LEMMA RestoreDropKeeps ==
  ASSUME DriftInv, NEW done \in BOOLEAN, NEW answered \in BOOLEAN, RestoreDrop(done, answered)
  PROVE  DriftInv'
  <1> DEFINE a == cmd["restore"]
             id == CHOOSE i \in a.plan.drop : \A k \in a.plan.drop : i <= k
             rel == [release EXCEPT !.links = {l \in @ : l.id # id}]
             next == [a EXCEPT !.plan.drop = @ \ {id}]
  <1>1. a.step = "drop" /\ a \in CmdRecord /\ linkIds \in Nat
    BY DEF RestoreDrop, DriftInv, DriftTypes, Command
  <1>2. CASE Skip("add")
    BY <1>1, <1>2, SkipKeeps
  <1>3. CASE NotFound
    BY <1>3, FinishKeeps DEF NotFound, Command, Outcome
  <1>4. ASSUME a.plan.drop # {}, release # None, Write(done, answered, next, rel), UNCHANGED linkIds
        PROVE  DriftInv'
    <2>1. release \in Release /\ tampers # 0
      BY <1>1, <1>4 DEF DriftInv, IInv, TypeOK, PlanHarmless
    <2>2. rel \in Release
      BY <2>1 DEF Release
    <2>3. next \in CmdRecord /\ next.rel = a.rel /\ next.tag = a.tag /\ next.step = "drop"
      BY <1>1 DEF CmdRecord, PlanRecord
    <2>4. QED BY <1>1, <1>4, <2>1, <2>2, <2>3, WriteKeeps
  <1>5. QED BY <1>2, <1>3, <1>4 DEF RestoreDrop

\* The link is added, likewise.
LEMMA RestoreAddKeeps ==
  ASSUME DriftInv, NEW done \in BOOLEAN, NEW answered \in BOOLEAN, RestoreAdd(done, answered)
  PROVE  DriftInv'
  <1> DEFINE a == cmd["restore"]
             link == [id |-> linkIds + 2, to |-> ChosenId(a.pkgs)]
             rel == [release EXCEPT !.links = @ \union {link}]
             next == [a EXCEPT !.step = "verify"]
  <1>1. a.step = "add" /\ a \in CmdRecord /\ linkIds \in Nat
    BY DEF RestoreAdd, DriftInv, DriftTypes, Command
  <1>2. CASE Skip("verify")
    BY <1>1, <1>2, SkipKeeps
  <1>3. CASE NotFound
    BY <1>3, FinishKeeps DEF NotFound, Command, Outcome
  <1>4. ASSUME a.plan.add, release # None, Write(done, answered, next, rel),
               linkIds' = IF done THEN linkIds + 1 ELSE linkIds
        PROVE  DriftInv'
    <2>1. release \in Release /\ tampers # 0
      BY <1>1, <1>4 DEF DriftInv, IInv, TypeOK, PlanHarmless
    <2>2. ChosenId(a.pkgs) \in Nat
      BY <1>1 DEF CmdRecord, ChosenId, Package
    <2>3. rel \in Release
      BY <1>1, <2>1, <2>2 DEF Release, Link
    <2>4. next \in CmdRecord /\ next.rel = a.rel /\ next.tag = a.tag /\ next.step = "verify"
      BY <1>1 DEF CmdRecord, CmdStep
    <2>5. linkIds' \in Nat
      BY <1>1, <1>4
    <2>6. QED BY <1>1, <1>4, <2>1, <2>3, <2>4, <2>5, WriteKeeps
  <1>5. QED BY <1>2, <1>3, <1>4 DEF RestoreAdd

\* A maintainer's hand on the links ends what the rest of DriftInv speaks of.
LEMMA LinkEditKeeps ==
  ASSUME DriftInv, Tamper, release # None, UNCHANGED <<tag, ruleLive, packages, cmd, report>>,
         linkIds' \in Nat,
         NEW links \in SUBSET Link, release' = [release EXCEPT !.links = links]
  PROVE  DriftInv'
  <1>1. release' \in Release
    BY DEF DriftInv, IInv, TypeOK, Release
  <1>2. TypeOK' /\ tampers' # 0
    BY <1>1 DEF DriftInv, IInv, TypeOK, Tamper
  <1>3. IInv'
    BY <1>2, TamperPreservesIInv DEF DriftInv, Tamper
  <1>4. DriftTypes'
    BY DEF DriftInv, DriftTypes
  <1>5. QED BY <1>2, <1>3, <1>4 DEF DriftInv, ReleasedOnce, SeenStays, PlanHarmless,
      OneCommit, SweepAgrees

\* A maintainer's hand on the links.
LEMMA LinksKeep ==
  ASSUME DriftInv,
         \/ \E to \in {0} \union {k.id : k \in packages} : AddLink(to)
         \/ release # None /\ \E l \in release.links : RemoveLink(l)
  PROVE  DriftInv'
  <1>1. linkIds \in Nat /\ TypeOK
    BY DEF DriftInv, DriftTypes, IInv
  <1>2. ASSUME NEW to \in {0} \union {k.id : k \in packages}, AddLink(to)
        PROVE  DriftInv'
    <2>1. to \in Nat
      BY <1>1 DEF TypeOK, Package
    <2>2. release.links \union {[id |-> linkIds + 2, to |-> to]} \in SUBSET Link
      BY <1>1, <1>2, <2>1 DEF AddLink, TypeOK, Release, Link
    <2>3. QED BY <1>1, <1>2, <2>2, LinkEditKeeps DEF AddLink
  <1>3. ASSUME release # None, NEW l \in release.links, RemoveLink(l)
        PROVE  DriftInv'
    <2>1. release.links \ {l} \in SUBSET Link
      BY <1>1, <1>3 DEF TypeOK, Release
    <2>2. QED BY <1>1, <1>3, <2>1, LinkEditKeeps DEF RemoveLink, driftVars
  <1>4. QED BY <1>2, <1>3

-----------------------------------------------------------------------------

\* At first no command has read anything.
LEMMA DriftStarts == DriftInit => DriftInv
  <1> SUFFICES ASSUME DriftInit PROVE DriftInv
    OBVIOUS
  <1>1. IInv
    BY InitEstablishesIInv DEF DriftInit
  <1>2. Ended \in CmdRecord /\ Ended.step = "idle" /\ Ended.rel = None
    BY DEF Ended, NoPlan, CmdRecord, PlanRecord, CmdStep
  <1>3. \A a \in Command : cmd[a] = Ended /\ report[a] = "none"
    BY DEF DriftInit
  <1>4. DriftTypes
    BY <1>2, <1>3 DEF DriftInit, DriftTypes, Command, Outcome
  <1>5. QED BY <1>1, <1>2, <1>3, <1>4
        DEF DriftInit, Init, DriftInv, ReleasedOnce, SeenStays, PlanHarmless, OneCommit,
        SweepAgrees,
            Command

\* Every step of pipelines, registry, maintainers and commands keeps it.
LEMMA DriftStep == DriftInv /\ [DriftNext]_allVars => DriftInv'
  <1> SUFFICES ASSUME DriftInv, [DriftNext]_allVars PROVE DriftInv'
    OBVIOUS
  <1>1. CASE UNCHANGED allVars
    <2>1. UNCHANGED vars /\ UNCHANGED driftVars
      BY <1>1 DEF allVars
    <2>2. DriftTypes'
      BY <2>1 DEF DriftInv, DriftTypes, driftVars
    <2>3. PlanHarmless' /\ SweepAgrees'
      BY <2>1 DEF DriftInv, PlanHarmless, SweepAgrees, Retagged, vars, world, driftVars
    <2>4. QED BY <2>1, <2>2, <2>3, ReadingStep DEF driftVars
  <1>2. CASE Next /\ UNCHANGED driftVars
    BY <1>2, PipelineStep
  <1>3. CASE \E a \in Command : Reading(a)
    BY <1>3, ReadReleasesKeeps, ReadTagsKeeps DEF Reading
  <1>4. CASE Audit \/ Plan \/ RestoreVerify
    BY <1>4, AuditKeeps, PlanKeeps, VerifyKeeps
  <1>5. CASE \E done, answered \in BOOLEAN : Restoring(done, answered)
    BY <1>5, RestoreTextKeeps, RestoreDropKeeps, RestoreAddKeeps DEF Restoring
  <1>6. CASE \/ \E to \in {0} \union {k.id : k \in packages} : AddLink(to)
             \/ release # None /\ \E l \in release.links : RemoveLink(l)
    BY <1>6, LinksKeep
  <1>7. QED BY <1>1, <1>2, <1>3, <1>4, <1>5, <1>6 DEF DriftNext

\* The commands take no upload and create no release.
CommandsUploadNothing == uploads' = uploads /\ (release' # None => release # None)

\* Every step is one of these or of the pipelines.
LEMMA CommandStep ==
  ASSUME [DriftNext]_allVars
  PROVE  [Next]_vars \/ CommandsUploadNothing
  <1> USE DEF CommandsUploadNothing
  <1>1. CASE UNCHANGED allVars \/ (Next /\ UNCHANGED driftVars)
    BY <1>1 DEF allVars
  <1>2. CASE (\E a \in Command : Reading(a)) \/ Audit \/ Plan \/ RestoreVerify
    BY <1>2 DEF Reading, ReadReleases, ReadTags, Audit, Plan, RestoreVerify, vars, world
  <1>3. ASSUME NEW done \in BOOLEAN, NEW answered \in BOOLEAN, Restoring(done, answered)
        PROVE  CommandsUploadNothing
    BY <1>3 DEF Restoring, RestoreText, RestoreDrop, RestoreAdd, Write, Skip, NotFound,
        vars, world
  <1>4. CASE \/ \E to \in {0} \union {k.id : k \in packages} : AddLink(to)
             \/ release # None /\ \E l \in release.links : RemoveLink(l)
    BY <1>4 DEF AddLink, RemoveLink, Tamper
  <1>5. QED BY <1>1, <1>2, <1>3, <1>4 DEF DriftNext

\* The inductive invariant of the publication beside its sweep and restoration.
THEOREM DriftInvHolds == DriftSpec => []DriftInv
  <1>1. QED BY DriftStarts, DriftStep, PTL DEF DriftSpec

\* The sweep raises no false alarm, however its reads fall between a pipeline's
\* uploads, the registry's indexing and the creation of the release.
THEOREM AlarmsAreTrue == DriftSpec => []NoFalseAlarm
  <1>1. DriftInv => NoFalseAlarm
    BY DEF DriftInv, SweepAgrees, Retagged, NoFalseAlarm
  <1>2. QED BY <1>1, DriftInvHolds, PTL

\* Beside the commands, too, a confirmed version is listed, and what a green
\* projection vouched for stays exact: without a maintainer's edit a restoration
\* has nothing to write but the text that is there.
THEOREM PublicationBesideCommands ==
  DriftSpec => []PublishedIsListed /\ []GreenProjectionIsExact
  <1>1. DriftInv => PublishedIsListed /\ GreenProjectionIsExact
    BY DEF DriftInv, IInv
  <1>2. QED BY <1>1, DriftInvHolds, PTL

\* Beside the commands, too, uploads and releases are made by approved
\* pipelines only: the sweep and the restoration create neither.
THEOREM WritesAreApprovedBeside == DriftSpec => OnlyApprovedWrites
  <1> DEFINE A == (uploads' # uploads \/ (release = None /\ release' # None)) =>
                    \E p \in Pipeline : /\ Mode(p) = "publish" /\ GatesHeld(p)
                                        /\ act[p].step \in {"upload", "create"}
  <1>1. [DriftNext]_allVars => [Next]_vars \/ CommandsUploadNothing
    BY CommandStep
  <1>2. DriftInv /\ [DriftNext]_allVars => [A]_vars
    <2> SUFFICES ASSUME DriftInv, [DriftNext]_allVars,
                        uploads' # uploads \/ (release = None /\ release' # None)
                 PROVE  \E p \in Pipeline : /\ Mode(p) = "publish" /\ GatesHeld(p)
                                            /\ act[p].step \in {"upload", "create"}
      OBVIOUS
    <2>1. [Next]_vars
      BY <1>1 DEF CommandsUploadNothing
    <2>2. QED BY <2>1, ApprovedWrite DEF DriftInv, vars, world
  <1>3. QED BY <1>2, DriftInvHolds, PTL DEF DriftSpec, OnlyApprovedWrites

\* Nor does a command upload what a publish job has confirmed.
THEOREM ConfirmationEndsUploadsBeside == DriftSpec => ConfirmedEndsUploads
  <1>1. DriftInv /\ [DriftNext]_allVars => [confirmed /\ NoUploadDropped => uploads' = uploads]_vars
    <2> SUFFICES ASSUME DriftInv, [DriftNext]_allVars, uploads' # uploads
                 PROVE  ~(confirmed /\ NoUploadDropped)
      OBVIOUS
    <2>1. Next
      BY CommandStep DEF CommandsUploadNothing, vars, world
    <2>2. PICK p \in Pipeline : act[p].step = "upload" /\ Mode(p) # "dry-run"
      BY <2>1, WhoWrites
    <2>3. QED BY <2>2, UploadNotConfirmed DEF DriftInv
  <1>2. QED BY <1>1, DriftInvHolds, PTL DEF DriftSpec, ConfirmedEndsUploads

\* The bounds by which a run composes its parts take nothing else away: its
\* behaviours are behaviours of the publication beside its commands.
THEOREM RunsAreDriftRuns == RunsSpec => DriftSpec
  <1>1. RunsInit => DriftInit
    BY DEF RunsInit
  <1>2. [RunsNext]_runsVars => [DriftNext]_allVars
    BY DEF RunsNext, TwoPipelines, SweepBesideOne, RestorationBesideOne, DriftNext, runsVars
  <1>3. QED BY <1>1, <1>2, PTL DEF RunsSpec, DriftSpec
=============================================================================
