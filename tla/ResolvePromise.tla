--------------------------- MODULE ResolvePromise ---------------------------
(***************************************************************************)
(* What the resolve stage promises to the filter: a tag of a source comes  *)
(* out or is missing, and never both; tags go missing together when their  *)
(* source or their image cannot be resolved; and the channel is closed     *)
(* only when every tag is accounted for, after which nothing comes.        *)
(***************************************************************************)
CONSTANT Wanted   \* pairs of a source and a tag

VARIABLES delivered, missing, closed

resolvePromiseVars == <<delivered, missing, closed>>

ResolvePromiseInit == delivered = {} /\ missing = {} /\ closed = FALSE

Deliver(x) ==
  /\ ~closed
  /\ x \in Wanted \ (delivered \cup missing)
  /\ delivered' = delivered \cup {x}
  /\ UNCHANGED <<missing, closed>>

Miss(S) ==
  /\ ~closed
  /\ S \cap delivered = {}
  /\ missing' = missing \cup S
  /\ UNCHANGED <<delivered, closed>>

Close ==
  /\ ~closed
  /\ delivered \cup missing = Wanted
  /\ closed' = TRUE
  /\ UNCHANGED <<delivered, missing>>

ResolvePromiseNext ==
  (\E x \in Wanted : Deliver(x)) \/ (\E S \in SUBSET Wanted : Miss(S)) \/ Close

ResolvePromiseSpec ==
  ResolvePromiseInit /\ [][ResolvePromiseNext]_resolvePromiseVars
=============================================================================
