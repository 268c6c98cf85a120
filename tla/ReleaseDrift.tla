---------------------------- MODULE ReleaseDrift ----------------------------
(***************************************************************************)
(* The drift sweep and the restoration command over the world of           *)
(* GitlabRelease: tools/release/gitlab-release-drift.mjs with the          *)
(* transport of tools/policy/gitlab-api.mjs and the schedule of            *)
(* .gitlab/ci/sweep.yml.                                                   *)
(*                                                                         *)
(* Both commands read the releases, then the tags, then the packages, one  *)
(* request at a time while pipelines publish and maintainers edit.  The    *)
(* audit compares and reports.  The restoration derives a plan from what   *)
(* it read, writes it one request at a time, and verifies what is stored;  *)
(* any request may fail, or be carried out and its answer lost, and the    *)
(* command stops there, leaving the release half restored.                 *)
(*                                                                         *)
(*   cmd     per command, the step it is at, what it has read, its plan    *)
(*   report  per command, the outcome it last printed                      *)
(*   linkIds the ids the API has given to asset links so far               *)
(*   faults  restoration requests that failed so far (bounded)             *)
(***************************************************************************)
EXTENDS GitlabRelease

CONSTANTS MaxFaults, \* bound on failing restoration requests
          MaxLinks   \* bound on links maintainers and restorations create

ASSUME DriftBoundAssumption == MaxFaults \in Nat /\ MaxLinks \in Nat

\* Having no release differs from having any.
ASSUME NoneAssumption == None \notin Release

VARIABLES cmd, report, linkIds, faults

driftVars == <<cmd, report, linkIds, faults>>
allVars == <<vars, driftVars>>

Command == {"audit", "restore"}
NoPlan == [update |-> FALSE, drop |-> {}, add |-> FALSE]
Ended == [step |-> "idle", rel |-> None, tag |-> None, pkgs |-> {}, plan |-> NoPlan]

----------------------------------------------------------------------------
(* deriveExpected: the tag exists, its commit carries the record, and the   *)
(* version maps to exactly one processed package.                           *)
Derivable(t, pkgs) == t \in Releasable /\ ~ChooseFails(pkgs) /\ pkgs # {}

\* auditRelease
Exact(rel, t, pkgs) == Derivable(t, pkgs) /\ Verifies(rel, t, ChosenId(pkgs))

\* Fault: a second exact link is kept.
RestorationPlan_KeepsDoubles(rel, t, pkgs) ==
  LET exact == {l \in rel.links : l.to = ChosenId(pkgs)}
  IN [update |-> rel.text # t,
      drop |-> {l.id : l \in rel.links \ exact},
      add |-> exact = {}]

\* planRestoration: keep one exact link, drop every other, add it if missing.
RestorationPlan(rel, t, pkgs) ==
  LET exact == {l \in rel.links : l.to = ChosenId(pkgs)}
      keep == IF exact = {} THEN {} ELSE {CHOOSE l \in exact : TRUE}
  IN [update |-> rel.text # t,
      drop |-> {l.id : l \in rel.links \ keep},
      add |-> keep = {}]

----------------------------------------------------------------------------
(* readReleaseSurfaces *)

ReadReleases(a) ==
  /\ cmd[a].step = "idle"
  /\ cmd' = [cmd EXCEPT ![a] = [Ended EXCEPT !.step = "tags", !.rel = release]]
  /\ report' = [report EXCEPT ![a] = "none"]
  /\ UNCHANGED <<vars, linkIds, faults>>

ReadTags(a) ==
  /\ cmd[a].step = "tags"
  /\ cmd' = [cmd EXCEPT ![a].step = "packages", ![a].tag = tag]
  /\ UNCHANGED <<vars, report, linkIds, faults>>

\* Packages are skipped while no release needs them.
PackagesRead(a) == IF cmd[a].rel = None THEN {} ELSE packages

Finish(a, outcome) ==
  /\ cmd' = [cmd EXCEPT ![a] = Ended]
  /\ report' = [report EXCEPT ![a] = outcome]

(* runAudit: the last read and the comparison; the tagged record it fetches  *)
(* in between cannot change.                                                 *)
Audit ==
  LET a == cmd["audit"] IN
  /\ a.step = "packages"
  /\ Finish("audit", IF a.rel = None \/ Exact(a.rel, a.tag, PackagesRead("audit"))
                       THEN "ok" ELSE "drift")
  /\ UNCHANGED <<vars, linkIds, faults>>

(* runRestore: refuses what it cannot derive, and a release whose commit is  *)
(* not the tag's.                                                            *)
Plan ==
  LET a == cmd["restore"]
      pkgs == PackagesRead("restore") IN
  /\ a.step = "packages"
  /\ IF a.rel = None \/ ~Derivable(a.tag, pkgs)
       THEN Finish("restore", "refused")
     ELSE IF a.rel.commit # a.tag THEN Finish("restore", "refused")
     ELSE LET plan == RestorationPlan(a.rel, a.tag, pkgs) IN
          IF plan = NoPlan
            THEN Finish("restore", "ok")
            ELSE /\ cmd' = [cmd EXCEPT !["restore"] =
                               [a EXCEPT !.step = "update", !.rel = None, !.pkgs = pkgs, !.plan = plan]]
                 /\ UNCHANGED report
  /\ UNCHANGED <<vars, linkIds, faults>>

\* One write: carried out or not, answered or not; unanswered, the command stops.
Write(done, answered, next, rel) ==
  /\ answered => done
  /\ release' = IF done THEN rel ELSE release
  /\ IF answered
       THEN /\ cmd' = [cmd EXCEPT !["restore"] = next]
            /\ UNCHANGED <<report, faults>>
       ELSE /\ faults < MaxFaults /\ faults' = faults + 1
            /\ Finish("restore", "failed")
  /\ UNCHANGED <<tag, ruleLive, packages, uploads, pipe, job, act, reruns, tampers, confirmed>>

Skip(next) ==
  /\ cmd' = [cmd EXCEPT !["restore"].step = next]
  /\ UNCHANGED <<vars, report, linkIds, faults>>

\* A write to a release or a link that is gone is answered 404.
NotFound ==
  /\ Finish("restore", "failed")
  /\ UNCHANGED <<vars, linkIds, faults>>

RestoreText(done, answered) ==
  LET a == cmd["restore"] IN
  /\ a.step = "update"
  /\ IF ~a.plan.update THEN Skip("drop")
     ELSE IF release = None THEN NotFound
     ELSE /\ Write(done, answered, [a EXCEPT !.step = "drop"], [release EXCEPT !.text = a.tag])
          /\ UNCHANGED linkIds

RestoreDrop(done, answered) ==
  LET a == cmd["restore"] IN
  /\ a.step = "drop"
  /\ IF a.plan.drop = {} THEN Skip("add")
     ELSE LET id == CHOOSE i \in a.plan.drop : \A k \in a.plan.drop : i <= k IN
          IF release = None \/ (release # None /\ \A l \in release.links : l.id # id) THEN NotFound
          ELSE /\ Write(done, answered, [a EXCEPT !.plan.drop = @ \ {id}],
                        [release EXCEPT !.links = {l \in @ : l.id # id}])
               /\ UNCHANGED linkIds

RestoreAdd(done, answered) ==
  LET a == cmd["restore"] IN
  /\ a.step = "add"
  /\ IF ~a.plan.add THEN Skip("verify")
     ELSE IF release = None THEN NotFound
     ELSE /\ linkIds < MaxLinks
          /\ linkIds' = IF done THEN linkIds + 1 ELSE linkIds
          /\ Write(done, answered, [a EXCEPT !.step = "verify"],
                   [release EXCEPT !.links = @ \union {[id |-> linkIds + 2, to |-> ChosenId(a.pkgs)]}])

\* Verify what the API stored, not what was sent.
RestoreVerify ==
  LET a == cmd["restore"] IN
  /\ a.step = "verify"
  /\ Finish("restore",
            IF release # None /\ Exact(release, a.tag, a.pkgs) THEN "restored" ELSE "still drifts")
  /\ UNCHANGED <<vars, linkIds, faults>>

(* A maintainer's hand on the asset links. *)
AddLink(to) ==
  /\ release # None /\ linkIds < MaxLinks
  /\ linkIds' = linkIds + 1
  /\ release' = [release EXCEPT !.links = @ \union {[id |-> linkIds + 2, to |-> to]}]
  /\ Tamper /\ UNCHANGED <<tag, ruleLive, packages, cmd, report, faults>>

RemoveLink(l) ==
  /\ release # None /\ l \in release.links
  /\ release' = [release EXCEPT !.links = @ \ {l}]
  /\ Tamper /\ UNCHANGED <<tag, ruleLive, packages, driftVars>>

----------------------------------------------------------------------------
DriftInit ==
  /\ Init
  /\ cmd = [a \in Command |-> Ended]
  /\ report = [a \in Command |-> "none"]
  /\ linkIds = 0
  /\ faults = 0

Reading(a) == ReadReleases(a) \/ ReadTags(a)

Restoring(done, answered) ==
  \/ RestoreText(done, answered) \/ RestoreDrop(done, answered) \/ RestoreAdd(done, answered)

DriftNext ==
  \/ Next /\ UNCHANGED driftVars
  \/ \E a \in Command : Reading(a)
  \/ Audit \/ Plan \/ RestoreVerify
  \/ \E done, answered \in BOOLEAN : Restoring(done, answered)
  \/ \E to \in {0} \union {k.id : k \in packages} : AddLink(to)
  \/ release # None /\ \E l \in release.links : RemoveLink(l)

\* The scheduled sweep reads on; a maintainer who is told of drift runs the
\* restoration again, and a request is not refused for ever.
RestorationRuns == Reading("restore") \/ Plan \/ RestoreVerify \/ Restoring(TRUE, TRUE)

DriftSpec == DriftInit /\ [][DriftNext]_allVars
FairDriftSpec ==
  /\ DriftSpec
  /\ WF_allVars(RestorationRuns)

----------------------------------------------------------------------------
(* As long as no maintainer touches a published surface and the tag is not  *)
(* pushed at a second commit, the sweep never reports drift, although it    *)
(* reads its three surfaces one after the other while a pipeline uploads,   *)
(* the registry indexes and the release is created.                         *)
NoFalseAlarm ==
  (report["audit"] = "drift" /\ tampers = 0) =>
    \E p, q \in Pipeline : pipe[p].tag = "release" /\ pipe[q].tag = "release"
                           /\ pipe[p].commit # pipe[q].commit

\* What a restoration can repair: everything but the content of the release.
Repairable ==
  release # None /\ Derivable(tag, packages) /\ release.commit = tag

(* Running the restoration again completes it: wherever earlier runs stopped *)
(* and whatever they left, once the release stays repairable it ends exact.  *)
RerunRestores == <>[]Repairable => <>[](release # None /\ Exact(release, tag, packages))
=============================================================================
