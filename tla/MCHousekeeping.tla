--------------------------- MODULE MCHousekeeping ---------------------------
(***************************************************************************)
(* Two desired tags, one that is not, and one of schema 1; buffers of      *)
(* one job, so that the sends to the copy stage and to housekeeping block. *)
(***************************************************************************)
EXTENDS Housekeeping, TLC

CONSTANTS t1, t2, old, ancient

MCTags == {t1, t2, old, ancient}
MCDesired == {t1, t2}
MCSchema1 == {ancient}
=============================================================================
