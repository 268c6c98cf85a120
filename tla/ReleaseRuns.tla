---------------------------- MODULE ReleaseRuns ----------------------------
(***************************************************************************)
(* GitlabRelease and ReleaseDrift checked in one run, each at the bounds   *)
(* its questions need.  A behaviour is of one of three kinds, chosen in    *)
(* the initial state: two tag pipelines without the drift commands, one    *)
(* pipeline beside the sweep, or one pipeline beside the restoration and   *)
(* more that the maintainers do by hand.  The sweep writes nothing and a   *)
(* restoration is only of use after a hand edit, so nothing is lost by     *)
(* keeping the two commands apart.                                         *)
(***************************************************************************)
EXTENDS ReleaseDrift

CONSTANTS
  DriftCommit,  \* the commits tagged beside the drift commands
  FewTampers    \* bound on maintainer writes without a restoration

ASSUME DriftCommitAssumption == DriftCommit \subseteq Commit

VARIABLE part   \* the kind of this behaviour

runsVars == <<allVars, part>>

RunsInit == DriftInit /\ part \in {"pipelines", "sweep", "restoration"}

TwoPipelines ==
  /\ part = "pipelines"
  /\ Next /\ tampers' <= FewTampers
  /\ UNCHANGED <<driftVars, part>>

OnePipeline ==
  \A p \in Pipeline : pipe'[p].tag # "none" => p = 1 /\ pipe'[p].commit \in DriftCommit

SweepBesideOne ==
  /\ part = "sweep"
  /\ DriftNext /\ OnePipeline /\ tampers' <= FewTampers
  /\ UNCHANGED part /\ cmd'["restore"] = cmd["restore"]

RestorationBesideOne ==
  /\ part = "restoration"
  /\ DriftNext /\ OnePipeline
  /\ UNCHANGED part /\ cmd'["audit"] = cmd["audit"]

RunsNext == TwoPipelines \/ SweepBesideOne \/ RestorationBesideOne

\* The fairness of both.  A restoration could start in any behaviour, so its own
\* is bound to those that have it.
RunsSpec ==
  /\ RunsInit /\ [][RunsNext]_runsVars
  /\ \A p \in Pipeline : WF_vars(Work(p))
  /\ WF_runsVars(part = "restoration" /\ RestorationRuns /\ UNCHANGED part)

-----------------------------------------------------------------------------
(* Running the restoration again completes it, wherever earlier runs stopped *)
(* and whatever they left (RerunRestores), in the behaviours that have the   *)
(* restoration.                                                              *)
RestorationCompletes == part = "restoration" => RerunRestores
=============================================================================
