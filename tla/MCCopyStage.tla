---------------------------- MODULE MCCopyStage ----------------------------
(* Constants of CopyStage for TLC. *)
EXTENDS CopyStage

CONSTANTS w1, w2, w3, j1, j2, j3

TwoWorkers == {w1, w2}
ThreeWorkers == {w1, w2, w3}
TwoJobs == {j1, j2}
ThreeJobs == {j1, j2, j3}
=============================================================================
