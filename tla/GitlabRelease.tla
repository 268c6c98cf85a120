--------------------------- MODULE GitlabRelease ---------------------------
(***************************************************************************)
(* The tag pipeline that publishes one version of the library on GitLab:   *)
(* tools/release/gitlab-release-projection.mjs (the decisions and the two  *)
(* jobs that write), .gitlab/ci/release.yml (the job graph) and            *)
(* tools/release/registry-consumer-probe.mjs.                              *)
(*                                                                         *)
(* The world the jobs talk to outlives them: the tag v<version>, the       *)
(* standing v* protected-tag rule, the npm packages of that version in the *)
(* project registry, and the GitLab release.  The registry takes an upload *)
(* and indexes it later, so what a job reads may lag behind what it wrote. *)
(* Jobs can die between any two of their requests, answers get lost, jobs  *)
(* are rerun, and maintainers move the tag, drop the rule, or edit and     *)
(* delete what was published.                                              *)
(*                                                                         *)
(*   tag       the commit v<version> points at, or None                    *)
(*   ruleLive  the v* protected-tag rule exists                            *)
(*   packages  uploads of the version: id, the commit packed, indexed yet  *)
(*   uploads   how many uploads the registry has taken so far              *)
(*   release   None, or the stored release: commit, text, asset links      *)
(*   pipe      per pipeline, the kind of tag that started it, its commit   *)
(*   job       per pipeline, the status of each job                        *)
(*   act       per pipeline, where its writing job (publish or projection) *)
(*             stands: step, reads left, the package it looked up          *)
(*   reruns    jobs rerun so far (bounded)                                 *)
(*   tampers   maintainer writes to the published surfaces (bounded)       *)
(*   confirmed a publish job has once reported the version published       *)
(***************************************************************************)
EXTENDS Naturals, FiniteSets

CONSTANTS
  Pipelines,  \* how many tag pipelines run: 1 .. Pipelines, in push order
  Commit,     \* commits a tag may name
  Releasable, \* those whose manifest names the version and that hold its notes
  None,       \* no tag, no release
  Edited,     \* a title or description nobody derived from a record
  Attempts,   \* publishVerificationAttempts
  MaxRuns,    \* bound on job reruns
  MaxTampers  \* bound on maintainer writes

ASSUME CommitAssumption == Releasable \subseteq Commit /\ None \notin Commit /\ Edited \notin Commit
ASSUME BoundAssumption == Pipelines \in Nat /\ Attempts \in Nat \ {0} /\ MaxRuns \in Nat /\ MaxTampers \in Nat

VARIABLES tag, ruleLive, packages, uploads, release,
          pipe, job, act, reruns, tampers, confirmed

Pipeline == 1 .. Pipelines

world == <<tag, ruleLive, packages, uploads, release>>
vars == <<world, pipe, job, act, reruns, tampers, confirmed>>

Job == {"gate", "liveness", "approval", "tests", "publish", "consumer", "projection"}
Status == {"waiting", "running", "success", "failed"}
TagKind == {"none", "release", "dryrun"}

\* The asset link's target is the id of a package; 0 is any other target.
Package == [id : Nat \ {0}, commit : Commit, ready : BOOLEAN]
Link == [id : Nat, to : Nat]
Release == [commit : Commit, text : Commit \union {Edited}, links : SUBSET Link]

Step == {"idle", "preflight", "upload", "confirm", "lookup", "read", "create", "reread"}
Idle == [step |-> "idle", left |-> 0, chosen |-> 0]

----------------------------------------------------------------------------
(* The decisions *)

\* decideReleaseMode and planRelease: a commit that does not carry the version
\* and its notes is refused under either spelling of the tag.
Mode(p) ==
  IF pipe[p].commit \notin Releasable THEN "refused"
  ELSE IF pipe[p].tag = "dryrun" THEN "dry-run" ELSE "publish"

\* What the npm metadata endpoint answers: only an indexed upload is listed.
Listed == \E k \in packages : k.ready

\* choosePublishedPackage over the packages endpoint, which shows every upload.
ChooseFails(ps) == Cardinality(ps) > 1 \/ \E k \in ps : ~k.ready
ChosenId(ps) == IF ps = {} THEN 0 ELSE (CHOOSE k \in ps : TRUE).id

\* verifyRelease: commit, exact text, and exactly one link to the package.
Verifies(r, c, url) ==
  /\ r.commit = c
  /\ r.text = c
  /\ Cardinality(r.links) = 1
  /\ \A l \in r.links : l.to = url

\* resource_group: release.  Publish and projection jobs never overlap.
GroupFree == \A p \in Pipeline : act[p].step = "idle"

\* needs: of the publish job.
Gates == {"gate", "liveness", "approval", "tests"}

End(p, j, s) ==
  /\ job' = [job EXCEPT ![p][j] = s]
  /\ act' = [act EXCEPT ![p] = Idle]

Goto(p, a) ==
  /\ act' = [act EXCEPT ![p] = a]
  /\ UNCHANGED job

----------------------------------------------------------------------------
Init ==
  /\ tag = None
  /\ ruleLive = TRUE
  /\ packages = {}
  /\ uploads = 0
  /\ release = None
  /\ pipe = [p \in Pipeline |-> [tag |-> "none", commit |-> None]]
  /\ job = [p \in Pipeline |-> [j \in Job |-> "waiting"]]
  /\ act = [p \in Pipeline |-> Idle]
  /\ reruns = 0
  /\ tampers = 0
  /\ confirmed = FALSE

(* The gating jobs: each decides at once from what CI hands it. *)

PushTag(p, c, kind) ==
  /\ pipe[p].tag = "none" /\ \A q \in 1 .. p - 1 : pipe[q].tag # "none"
  /\ pipe' = [pipe EXCEPT ![p] = [tag |-> kind, commit |-> c]]
  /\ tag' = IF kind = "release" THEN c ELSE tag
  /\ UNCHANGED <<ruleLive, packages, uploads, release, job, act, reruns, tampers, confirmed>>

Waiting(p, j) == pipe[p].tag # "none" /\ job[p][j] = "waiting"

Decide(p, j, s) ==
  /\ job' = [job EXCEPT ![p][j] = s]
  /\ UNCHANGED <<world, pipe, act, reruns, tampers, confirmed>>

RunGate(p) ==
  /\ Waiting(p, "gate")
  /\ Decide(p, "gate", IF Mode(p) = "refused" THEN "failed" ELSE "success")

RunLiveness(p) ==
  /\ Waiting(p, "liveness")
  /\ job[p]["gate"] = "success"
  /\ Decide(p, "liveness", IF ruleLive THEN "success" ELSE "failed")

\* The manual job: a maintainer plays it, or never does.
Approve(p) ==
  /\ Waiting(p, "approval")
  /\ job[p]["liveness"] = "success"
  /\ Decide(p, "approval", "success")

\* static, unit, build, package-consumer and e2e:full.
RunTests(p, s) ==
  /\ Waiting(p, "tests")
  /\ s \in {"success", "failed"}
  /\ Decide(p, "tests", s)

(* release:publish *)

\* Fault: publish jobs of two pipelines overlap.
PublishStart_Ungrouped(p) ==
  /\ Waiting(p, "publish")
  /\ \A j \in Gates : job[p][j] = "success"
  /\ IF Mode(p) = "refused" \/ ~ruleLive
       THEN End(p, "publish", "failed")
       ELSE /\ job' = [job EXCEPT ![p]["publish"] = "running"]
            /\ act' = [act EXCEPT ![p] = [Idle EXCEPT !.step = "preflight"]]
  /\ UNCHANGED <<world, pipe, reruns, tampers, confirmed>>

\* runPublish up to the first request: the gate and the rule are checked again.
PublishStart(p) ==
  /\ Waiting(p, "publish")
  /\ GroupFree
  /\ \A j \in Gates : job[p][j] = "success"
  /\ IF Mode(p) = "refused" \/ ~ruleLive
       THEN End(p, "publish", "failed")
       ELSE /\ job' = [job EXCEPT ![p]["publish"] = "running"]
            /\ act' = [act EXCEPT ![p] = [Idle EXCEPT !.step = "preflight"]]
  /\ UNCHANGED <<world, pipe, reruns, tampers, confirmed>>

\* The authenticated read before any write.
PublishPreflight(p) ==
  /\ act[p].step = "preflight"
  /\ IF Mode(p) = "publish" /\ Listed
       THEN /\ End(p, "publish", "success")
            /\ confirmed' = TRUE
       ELSE /\ Goto(p, [act[p] EXCEPT !.step = "upload"])
            /\ UNCHANGED confirmed
  /\ UNCHANGED <<world, pipe, reruns, tampers>>

\* Fault: a dry run uploads like a release.
PublishUpload_DryToo(p, taken, answered) ==
  /\ act[p].step = "upload"
  /\ IF taken
       THEN /\ packages' = packages \union
                 {[id |-> uploads + 1, commit |-> pipe[p].commit, ready |-> FALSE]}
            /\ uploads' = uploads + 1
       ELSE UNCHANGED <<packages, uploads>>
  /\ IF taken /\ answered
       THEN Goto(p, [act[p] EXCEPT !.step = "confirm", !.left = Attempts])
       ELSE End(p, "publish", "failed")
  /\ UNCHANGED <<tag, ruleLive, release, pipe, reruns, tampers, confirmed>>

\* `pnpm publish`: the registry takes the upload or not, and the command learns
\* of it or not.  A dry run stops before the upload.
PublishUpload(p, taken, answered) ==
  /\ act[p].step = "upload"
  /\ IF Mode(p) = "dry-run"
       THEN /\ End(p, "publish", IF answered THEN "success" ELSE "failed")
            /\ UNCHANGED <<packages, uploads>>
       ELSE /\ IF taken
                 THEN /\ packages' = packages \union
                           {[id |-> uploads + 1, commit |-> pipe[p].commit, ready |-> FALSE]}
                      /\ uploads' = uploads + 1
                 ELSE UNCHANGED <<packages, uploads>>
            /\ IF taken /\ answered
                 THEN Goto(p, [act[p] EXCEPT !.step = "confirm", !.left = Attempts])
                 ELSE End(p, "publish", "failed")
  /\ UNCHANGED <<tag, ruleLive, release, pipe, reruns, tampers, confirmed>>

\* Fault: a registry that does not list the version in time counts as success.
PublishConfirm_GivesUpGreen(p) ==
  /\ act[p].step = "confirm"
  /\ IF Listed \/ act[p].left = 1
       THEN End(p, "publish", "success") /\ confirmed' = TRUE
       ELSE Goto(p, [act[p] EXCEPT !.left = @ - 1]) /\ UNCHANGED confirmed
  /\ UNCHANGED <<world, pipe, reruns, tampers>>

\* Fault: the reads are not counted.
PublishConfirm_Uncounted(p) ==
  /\ act[p].step = "confirm"
  /\ Listed
  /\ End(p, "publish", "success") /\ confirmed' = TRUE
  /\ UNCHANGED <<world, pipe, reruns, tampers>>

\* One read of awaitPublishedVersion.
PublishConfirm(p) ==
  /\ act[p].step = "confirm"
  /\ IF Listed
       THEN End(p, "publish", "success") /\ confirmed' = TRUE
       ELSE /\ IF act[p].left > 1
                 THEN Goto(p, [act[p] EXCEPT !.left = @ - 1])
                 ELSE End(p, "publish", "failed")
            /\ UNCHANGED confirmed
  /\ UNCHANGED <<world, pipe, reruns, tampers>>

(* release:verify-consumer: a scratch install of what the registry lists. *)
VerifyConsumer(p, installs) ==
  /\ Waiting(p, "consumer")
  /\ job[p]["publish"] = "success"
  /\ Decide(p, "consumer",
            IF Mode(p) = "dry-run" \/ (Listed /\ installs) THEN "success" ELSE "failed")

(* release:projection *)

ProjectStart(p) ==
  /\ Waiting(p, "projection")
  /\ GroupFree
  /\ job[p]["publish"] = "success"
  /\ job' = [job EXCEPT ![p]["projection"] = "running"]
  /\ act' = [act EXCEPT ![p] = [Idle EXCEPT !.step = "lookup"]]
  /\ UNCHANGED <<world, pipe, reruns, tampers, confirmed>>

\* Fault: any package of the version will do.
ProjectLookup_First(p) ==
  /\ act[p].step = "lookup"
  /\ Goto(p, [act[p] EXCEPT !.step = "read", !.chosen = ChosenId(packages)])
  /\ UNCHANGED <<world, pipe, reruns, tampers, confirmed>>

ProjectLookup(p) ==
  /\ act[p].step = "lookup"
  /\ IF ChooseFails(packages)
       THEN End(p, "projection", "failed")
       ELSE Goto(p, [act[p] EXCEPT !.step = "read", !.chosen = ChosenId(packages)])
  /\ UNCHANGED <<world, pipe, reruns, tampers, confirmed>>

Verdict(p, r) ==
  End(p, "projection",
      IF Verifies(r, pipe[p].commit, act[p].chosen) THEN "success" ELSE "failed")

\* The release the tag already carries: adopted if exact, never edited.
ProjectRead(p) ==
  /\ act[p].step = "read"
  /\ CASE Mode(p) = "dry-run" -> End(p, "projection", "success")
       [] Mode(p) = "publish" /\ act[p].chosen = 0 -> End(p, "projection", "failed")
       [] Mode(p) = "publish" /\ act[p].chosen # 0 /\ release # None -> Verdict(p, release)
       [] OTHER -> Goto(p, [act[p] EXCEPT !.step = "create"])
  /\ UNCHANGED <<world, pipe, reruns, tampers, confirmed>>

\* POST releases: refused without a tag or with a release in place; the stored
\* release takes the commit the tag names at that moment.
ProjectCreate(p, answered) ==
  /\ act[p].step = "create"
  /\ IF tag = None \/ release # None
       THEN End(p, "projection", "failed") /\ UNCHANGED release
       ELSE /\ release' = [commit |-> tag, text |-> pipe[p].commit,
                           links |-> {[id |-> 1, to |-> act[p].chosen]}]
            /\ IF answered THEN Goto(p, [act[p] EXCEPT !.step = "reread"])
                           ELSE End(p, "projection", "failed")
  /\ UNCHANGED <<tag, ruleLive, packages, uploads, pipe, reruns, tampers, confirmed>>

\* Verify what the API stored, not what was sent.
ProjectReread(p) ==
  /\ act[p].step = "reread"
  /\ IF release = None THEN End(p, "projection", "failed") ELSE Verdict(p, release)
  /\ UNCHANGED <<world, pipe, reruns, tampers, confirmed>>

(* Failures and reruns *)

\* A refused request, a timeout, a lost runner: the job ends where it stands.
JobDies(p) ==
  /\ act[p].step # "idle"
  /\ \E j \in {"publish", "projection"} :
       job[p][j] = "running" /\ End(p, j, "failed")
  /\ UNCHANGED <<world, pipe, reruns, tampers, confirmed>>

\* The infrastructure retry of base.yml and the maintainer's rerun button, which
\* takes green jobs too.  A green gate is rerun only until its pipeline publishes: a
\* later one takes back no job that has started, and the projection needs the
\* publication alone (left out; it could only hold a second publication back).
Rerun(p, j) ==
  /\ reruns < MaxRuns
  /\ job[p][j] \in {"failed", "success"}
  /\ j \in Gates /\ job[p][j] = "success" =>
       act[p].step = "idle" /\ job[p]["publish"] # "success"
  /\ reruns' = reruns + 1
  /\ job' = [job EXCEPT ![p][j] = "waiting"]
  /\ UNCHANGED <<world, pipe, act, tampers, confirmed>>

(* The registry and the maintainers *)

Index(k) ==
  /\ k \in packages /\ ~k.ready
  /\ packages' = (packages \ {k}) \union {[k EXCEPT !.ready = TRUE]}
  /\ UNCHANGED <<tag, ruleLive, uploads, release, pipe, job, act, reruns, tampers, confirmed>>

Tamper ==
  /\ tampers < MaxTampers
  /\ tampers' = tampers + 1
  /\ UNCHANGED <<uploads, pipe, job, act, reruns, confirmed>>

DeleteTag ==
  /\ tag # None /\ tag' = None
  /\ Tamper /\ UNCHANGED <<ruleLive, packages, release>>

DropRule ==
  /\ ruleLive /\ ruleLive' = FALSE
  /\ Tamper /\ UNCHANGED <<tag, packages, release>>

DeletePackage(k) ==
  /\ k \in packages /\ packages' = packages \ {k}
  /\ Tamper /\ UNCHANGED <<tag, ruleLive, release>>

DeleteRelease ==
  /\ release # None /\ release' = None
  /\ Tamper /\ UNCHANGED <<tag, ruleLive, packages>>

EditRelease ==
  /\ release # None /\ release' = [release EXCEPT !.text = Edited]
  /\ Tamper /\ UNCHANGED <<tag, ruleLive, packages>>

\* pnpm restore:main-policy puts the rule back.
RestoreRule ==
  /\ ~ruleLive /\ ruleLive' = TRUE
  /\ UNCHANGED <<tag, packages, uploads, release, pipe, job, act, reruns, tampers, confirmed>>
----------------------------------------------------------------------------
\* What the jobs' own processes and the CI scheduler do next, without failing.
Work(p) ==
  \/ PublishStart(p) \/ PublishPreflight(p) \/ PublishConfirm(p)
  \/ \E taken, answered \in BOOLEAN : PublishUpload(p, taken, answered)
  \/ ProjectStart(p) \/ ProjectLookup(p) \/ ProjectRead(p) \/ ProjectReread(p)
  \/ \E answered \in BOOLEAN : ProjectCreate(p, answered)

Gating(p) ==
  \/ RunGate(p) \/ RunLiveness(p) \/ Approve(p)
  \/ \E s \in {"success", "failed"} : RunTests(p, s)
  \/ \E installs \in BOOLEAN : VerifyConsumer(p, installs)

Maintainer ==
  \/ \E p \in Pipeline, c \in Commit, kind \in {"release", "dryrun"} : PushTag(p, c, kind)
  \/ \E p \in Pipeline, j \in Job : Rerun(p, j)
  \/ DeleteTag \/ DropRule \/ RestoreRule \/ DeleteRelease \/ EditRelease
  \/ \E k \in packages : DeletePackage(k)

Next ==
  \/ \E p \in Pipeline : Gating(p) \/ Work(p) \/ JobDies(p)
  \/ \E k \in packages : Index(k)
  \/ Maintainer

Spec == Init /\ [][Next]_vars

\* A scheduled job starts once its needs are met and the group is free, and a
\* job's process runs on; nothing obliges the registry or a maintainer.
FairSpec == Spec /\ \A p \in Pipeline : WF_vars(Work(p))

----------------------------------------------------------------------------
(* Every variable holds what its declaration says. *)
TypeOK ==
  /\ tag \in Commit \union {None}
  /\ ruleLive \in BOOLEAN
  /\ packages \subseteq Package
  /\ uploads \in Nat
  /\ release \in Release \union {None}
  /\ pipe \in [Pipeline -> [tag : TagKind, commit : Commit \union {None}]]
  /\ job \in [Pipeline -> [Job -> Status]]
  /\ act \in [Pipeline -> [step : Step, left : Nat, chosen : Nat]]
  /\ reruns \in Nat
  /\ tampers \in Nat
  /\ confirmed \in BOOLEAN

GatesHeld(p) == \A j \in Gates : job[p][j] = "success"

\* No maintainer has deleted an upload.
NoUploadDropped == Cardinality(packages) = uploads

(* Uploads and releases are only ever made by a publish-mode pipeline whose   *)
(* every gating job is green, whatever is rerun, retried or killed in any of  *)
(* the pipelines: a dry run writes nothing, and a green gate that is rerun    *)
(* before the publication withdraws the approval (release.yml's needs and     *)
(* runPublish's and runProject's dry-run returns).                            *)
OnlyApprovedWrites ==
  [][(uploads' # uploads \/ (release = None /\ release' # None)) =>
       \E p \in Pipeline : /\ Mode(p) = "publish" /\ GatesHeld(p)
                           /\ act[p].step \in {"upload", "create"}]_vars

(* Once one publish job has reported the version published, no rerun and no   *)
(* other pipeline of the version uploads it again, as long as nobody deletes  *)
(* an upload: the resource group, the confirmation and the preflight read     *)
(* close the window in which the registry has not indexed it yet.             *)
ConfirmedEndsUploads == [][confirmed /\ NoUploadDropped => uploads' = uploads]_vars

(* A publish job that reported success reported a fact: the registry lists    *)
(* the version (awaitPublishedVersion fails closed).                          *)
PublishedIsListed == confirmed /\ NoUploadDropped => Listed

(* As long as maintainers leave the published surfaces alone, the release a   *)
(* green projection job vouched for stays exact: the version's one upload,    *)
(* indexed, is its one link, and commit and text are its pipeline's, whatever *)
(* later pipelines, moved tags and reruns attempt.                            *)
GreenProjectionIsExact ==
  \A p \in Pipeline :
    (job[p]["projection"] = "success" /\ Mode(p) = "publish" /\ tampers = 0) =>
      /\ release # None
      /\ \E k \in packages : packages = {k} /\ k.ready /\ Verifies(release, pipe[p].commit, k.id)

(* An approved pipeline comes to an end: the publication fails or the         *)
(* projection gives its verdict, unless someone reruns a gate before that; no *)
(* wait for the registry and no wait for the release group goes on for ever.  *)
ApprovedConcludes ==
  \A p \in Pipeline :
    GatesHeld(p) ~> \/ ~GatesHeld(p)
                    \/ job[p]["publish"] = "failed"
                    \/ job[p]["projection"] \in {"success", "failed"}
=============================================================================
