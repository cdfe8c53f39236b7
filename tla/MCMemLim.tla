------------------------------ MODULE MCMemLim ------------------------------
(***************************************************************************)
(* Three calls of WaitForFreeMemory: two of 4 units and one of 7, with a   *)
(* limit of 10 and integers modulo 16.  Memory is free, short or exceeded. *)
(***************************************************************************)
EXTENDS MemLim, TLC

CONSTANTS r1, r2, r3

MCRequests == {r1, r2, r3}
MCSize == (r1 :> 4) @@ (r2 :> 4) @@ (r3 :> 7)
MCAllocs == {1, 5, 9, 12}
=============================================================================
