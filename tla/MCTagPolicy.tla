----------------------------- MODULE MCTagPolicy -----------------------------
(***************************************************************************)
(* Up to four entries, two of them platforms of one tag; two times are     *)
(* after the threshold and one before; minNum and maxNum are nothing, less *)
(* or more than there is, and one below the other either way.              *)
(***************************************************************************)
EXTENDS TagPolicy, TLC

CONSTANTS amd, arm, e3, e4

MCEntries == {amd, arm, e3, e4}
MCNames == {"multi", "third", "fourth"}
MCNameOf == (amd :> "multi") @@ (arm :> "multi") @@ (e3 :> "third") @@ (e4 :> "fourth")
MCPolicies == [min : {0, 2, 3}, max : {0, 1, 3, 4}]
=============================================================================
