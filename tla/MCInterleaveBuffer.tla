------------------------- MODULE MCInterleaveBuffer -------------------------
(* Constants of InterleaveBuffer for TLC: an image with four tags, so that   *)
(* FlushBuffer calls itself, one with two, and a third during whose job      *)
(* entries of the filter expire.                                             *)
EXTENDS InterleaveBuffer

MCJobs == {"a1", "a2", "a3", "a4", "b1", "b2", "c1"}
MCImages == {"a", "b", "c"}
MCImageOf ==
  [j \in MCJobs |-> CASE j \in {"b1", "b2"} -> "b"
                      [] j = "c1" -> "c"
                      [] OTHER -> "a"]
=============================================================================
