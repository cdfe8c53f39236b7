---------------------------- MODULE CopyPromise ----------------------------
(***************************************************************************)
(* What the copy stage of a run promises to whoever called Runner.Run,     *)
(* without saying how workers share the jobs: every job is settled once,   *)
(* the run returns after the last job is settled, and it returns an error  *)
(* if a failure of another stage was counted, and otherwise only if a copy *)
(* has failed.  It may return nil although a copy failed.                  *)
(***************************************************************************)
CONSTANT Jobs

VARIABLES
  outcome,   \* what has become of each job
  elsewhere, \* Run has counted a failure of another stage
  result     \* what Run has returned

promiseVars == <<outcome, elsewhere, result>>

Outcomes == {"open", "skipped", "copied", "failed"}

PromiseInit ==
  /\ outcome = [j \in Jobs |-> "open"]
  /\ elsewhere = FALSE
  /\ result = "none"

Settle(j) ==
  /\ outcome[j] = "open"
  /\ \E o \in Outcomes \ {"open"} : outcome' = [outcome EXCEPT ![j] = o]
  /\ UNCHANGED <<elsewhere, result>>

FailElsewhere ==
  /\ result = "none"
  /\ ~elsewhere
  /\ elsewhere' = TRUE
  /\ UNCHANGED <<outcome, result>>

Return ==
  /\ result = "none"
  /\ \A j \in Jobs : outcome[j] # "open"
  /\ result' \in {"ok", "error"}
  /\ elsewhere => result' = "error"
  /\ result' = "error" => elsewhere \/ \E j \in Jobs : outcome[j] = "failed"
  /\ UNCHANGED <<outcome, elsewhere>>

PromiseNext == Return \/ FailElsewhere \/ \E j \in Jobs : Settle(j)

PromiseSpec == PromiseInit /\ [][PromiseNext]_promiseVars
=============================================================================
