------------------------------ MODULE JobRelay ------------------------------
(***************************************************************************)
(* What the interleave stage of the mirror pipeline promises to the stages *)
(* around it, without saying how it chooses the order of the jobs          *)
(* (src/pkg/cim/run.go, comment of Runner.interleave: the stage transforms *)
(* the stream "by reordering subsets of copyJobs").                        *)
(*                                                                         *)
(* A relay takes jobs one at a time.  It passes a job on at once or keeps  *)
(* it; while its input is open it releases nothing it has kept; after the  *)
(* input is closed it releases, in any order, all it has kept.             *)
(***************************************************************************)
CONSTANT Jobs

VARIABLES
  open,       \* the input channel has not been closed
  offered,    \* jobs the input has not handed over yet
  held,       \* jobs taken and not passed on
  delivered   \* jobs passed on

relayVars == <<open, offered, held, delivered>>

RelayTypeOK ==
  /\ open \in BOOLEAN
  /\ offered \subseteq Jobs
  /\ held \subseteq Jobs
  /\ delivered \subseteq Jobs

RelayInit ==
  /\ open = TRUE
  /\ offered = Jobs
  /\ held = {}
  /\ delivered = {}

PassOn(j) ==
  /\ open
  /\ j \in offered
  /\ offered' = offered \ {j}
  /\ delivered' = delivered \cup {j}
  /\ UNCHANGED <<open, held>>

Keep(j) ==
  /\ open
  /\ j \in offered
  /\ offered' = offered \ {j}
  /\ held' = held \cup {j}
  /\ UNCHANGED <<open, delivered>>

Close ==
  /\ open
  /\ open' = FALSE
  /\ UNCHANGED <<offered, held, delivered>>

Release(j) ==
  /\ ~open
  /\ j \in held
  /\ held' = held \ {j}
  /\ delivered' = delivered \cup {j}
  /\ UNCHANGED <<open, offered>>

RelayNext ==
  \/ \E j \in Jobs : PassOn(j) \/ Keep(j) \/ Release(j)
  \/ Close

RelaySpec == RelayInit /\ [][RelayNext]_relayVars
=============================================================================
