---------------------------- MODULE MC_Artifact ----------------------------
(* Two artifacts and a folder: enough for a stale answer to arrive after  *)
(* a newer selection of either kind.                                     *)
EXTENDS Artifact

CONSTANTS a1, a2, d1

MCNodes == {a1, a2, d1}
MCArtifacts == {a1, a2}
=============================================================================
