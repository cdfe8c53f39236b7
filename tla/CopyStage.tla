----------------------------- MODULE CopyStage -----------------------------
(***************************************************************************)
(* The copy stage: the worker goroutines of Runner.copyImage, the channel  *)
(* of jobs they share with the interleave stage, and the way their events  *)
(* take to the loop at the end of Runner.Run (pkg/cim/run.go,              *)
(* concurrency.go, events.go).                                             *)
(*                                                                         *)
(* The job channel is unbuffered: a send and a receive are one step.  Its  *)
(* senders are the interleave stage, which closes it, and the workers      *)
(* themselves, which send back a job whose copy was cancelled or timed     *)
(* out.  A send on the closed channel ends the process with a panic.       *)
(*                                                                         *)
(* A worker's events are emitted on its own unbuffered channel without     *)
(* waiting, and pass a forwarder of Runner.copy and one of Runner.Run.     *)
(* Run merges them with those of the resolve stage and of housekeeping,    *)
(* which count toward the same failures; of those two this module has only *)
(* that a failure may arrive while they run and that they end.             *)
(*                                                                         *)
(* What a registry answers and when memlim admits or cancels a copy is a   *)
(* choice of the environment.  The context of the run is never cancelled   *)
(* (main.go makes it from context.Background).                             *)
(***************************************************************************)
EXTENDS Naturals, FiniteSets

CONSTANTS
  Workers,     \* ConfigNumParallelCopyJobs goroutines
  Jobs,        \* what the interleave stage sends
  NoJob,       \* the job of a worker that has none
  MaxCancels   \* bound: how often memlim cancels a copy

ASSUME CopyAssumption ==
  /\ IsFiniteSet(Workers) /\ Workers # {}
  /\ IsFiniteSet(Jobs)
  /\ NoJob \notin Jobs
  /\ MaxCancels \in Nat

VARIABLES
  pending,    \* jobs the interleave stage has not sent
  closed,     \* it has closed the channel
  pc,         \* where each worker is
  job,        \* its x
  timeout,    \* ConfigCopyImageTimeout is 2^timeout times the default
  loaded,     \* the value of timeout a worker has read to double it
  cancels,    \* copies memlim has cancelled
  outcome,    \* history: what has become of each job
  fwd,        \* the forwarder of each worker's events in Runner.copy
  relay,      \* the forwarder of the copy stage's events in Runner.Run
  failures,   \* the failures of copies among those Run has counted
  elsewhere,  \* it has counted one of the resolve stage or of housekeeping
  othersEnded, \* the event channels of those two are closed
  crashed,    \* the process has panicked
  result      \* what Run has returned

channelVars == <<pending, closed>>
copyVars == <<timeout, loaded, cancels>>
otherVars == <<elsewhere, othersEnded>>
eventVars == <<fwd, relay, failures, result, otherVars>>
workerVars == <<pc, job, copyVars, outcome>>
vars == <<channelVars, workerVars, eventVars, crashed>>

\* A worker in "deadline" has found the default timeout and in "doubling" has
\* read it; in "requeue" it is blocked in a send on the job channel.
Places == {"receive", "check", "wait", "copy", "deadline", "doubling",
           "requeue", "done"}

\* A forwarder in "holding" is blocked in its send.
Forwarding == {"starting", "receiving", "holding", "ended"}

Outcomes == {"open", "skipped", "copied", "failed"}

TypeOK ==
  /\ pending \subseteq Jobs
  /\ closed \in BOOLEAN
  /\ pc \in [Workers -> Places]
  /\ job \in [Workers -> Jobs \cup {NoJob}]
  /\ timeout \in Nat
  /\ loaded \in [Workers -> Nat]
  /\ cancels \in 0..MaxCancels
  /\ outcome \in [Jobs -> Outcomes]
  /\ fwd \in [Workers -> Forwarding]
  /\ relay \in Forwarding
  /\ failures \in Nat
  /\ elsewhere \in BOOLEAN
  /\ othersEnded \in BOOLEAN
  /\ crashed \in BOOLEAN
  /\ result \in {"none", "ok", "error"}

Init ==
  /\ pending = Jobs
  /\ closed = FALSE
  /\ pc = [w \in Workers |-> "receive"]
  /\ job = [w \in Workers |-> NoJob]
  /\ timeout = 0
  /\ loaded = [w \in Workers |-> 0]
  /\ cancels = 0
  /\ outcome = [j \in Jobs |-> "open"]
  /\ fwd = [w \in Workers |-> "starting"]
  /\ relay = "starting"
  /\ failures = 0
  /\ elsewhere = FALSE
  /\ othersEnded = FALSE
  /\ crashed = FALSE
  /\ result = "none"

-----------------------------------------------------------------------------
(* The job channel *)

\* No goroutine of a process that has panicked takes a step.
Running == ~crashed /\ UNCHANGED crashed

\* Worker w takes a step from one place to another.
Goes(w, from, to) ==
  /\ Running
  /\ pc[w] = from
  /\ pc' = [pc EXCEPT ![w] = to]

\* The interleave stage sends j and w receives it.
Receive(w, j) ==
  /\ Goes(w, "receive", "check")
  /\ j \in pending
  /\ pending' = pending \ {j}
  /\ job' = [job EXCEPT ![w] = j]
  /\ UNCHANGED <<closed, copyVars, outcome, eventVars>>

\* v sends its job to w and goes on at place with left.
Handover(v, w, place, left) ==
  /\ Running
  /\ ~closed
  /\ pc[v] = "requeue"
  /\ pc[w] = "receive"
  /\ pc' = [pc EXCEPT ![v] = place, ![w] = "check"]
  /\ job' = [job EXCEPT ![v] = left, ![w] = job[v]]
  /\ UNCHANGED <<channelVars, copyVars, outcome, eventVars>>

\* Mutant of Requeue: without the continue, v goes on with the job it sent.
RequeueKeepsJob(v, w) == Handover(v, w, "copy", job[v])

\* v sends its job back and w receives it.
Requeue(v, w) == Handover(v, w, "receive", NoJob)

\* The interleave stage closes the channel after its last job.
CloseInput ==
  /\ Running
  /\ ~closed
  /\ pending = {}
  /\ closed' = TRUE
  /\ UNCHANGED <<pending, workerVars, eventVars>>

\* Mutant of SendOnClosed: the panic is recovered and the job forgotten.
SendOnClosedRecovers(w) ==
  /\ closed
  /\ Goes(w, "requeue", "receive")
  /\ job' = [job EXCEPT ![w] = NoJob]
  /\ UNCHANGED <<channelVars, copyVars, outcome, eventVars>>

\* The send of w was blocked when the channel was closed, or comes later.
SendOnClosed(w) ==
  /\ ~crashed
  /\ closed
  /\ pc[w] = "requeue"
  /\ crashed' = TRUE
  /\ UNCHANGED <<channelVars, workerVars, eventVars>>

\* w finds the channel closed, leaves its loop and closes its event channel.
Leave(w) ==
  /\ closed
  /\ Goes(w, "receive", "done")
  /\ UNCHANGED <<channelVars, job, copyVars, outcome, eventVars>>

-----------------------------------------------------------------------------
(* The loop of Runner.copyImage *)

\* w is finished with its job and goes on to the next one.
Settles(w, from, what) ==
  /\ Goes(w, from, "receive")
  /\ outcome' = [outcome EXCEPT ![job[w]] = what]
  /\ job' = [job EXCEPT ![w] = NoJob]
  /\ UNCHANGED <<channelVars, copyVars>>

\* The digest of the target is that of the source.
UpToDate(w) == Settles(w, "check", "skipped") /\ UNCHANGED eventVars

\* It is not, or could not be resolved: w calls WaitForFreeMemory.
Outdated(w) ==
  /\ Goes(w, "check", "wait")
  /\ UNCHANGED <<channelVars, job, copyVars, outcome, eventVars>>

\* memlim admits the job and w calls crane.Copy.
Admitted(w) ==
  /\ Goes(w, "wait", "copy")
  /\ UNCHANGED <<channelVars, job, copyVars, outcome, eventVars>>

CopySucceeds(w) == Settles(w, "copy", "copied") /\ UNCHANGED eventVars

\* emit: the event is lost unless the forwarder is waiting in its receive.
Emit(w) ==
  /\ fwd' = [fwd EXCEPT ![w] = IF @ = "receiving" THEN "holding" ELSE @]
  /\ UNCHANGED <<relay, failures, result, otherVars>>

\* Any other error, or a deadline after the timeout has been doubled.
CopyFails(w) == Settles(w, "copy", "failed") /\ Emit(w)

\* memlim has called the LoadSheddingFnc of w, which cancels the context.
Cancelled(w) ==
  /\ Goes(w, "copy", "requeue")
  /\ cancels < MaxCancels
  /\ cancels' = cancels + 1
  /\ UNCHANGED <<channelVars, job, timeout, loaded, outcome>>

\* Mutant of CopyCancelled: a cancelled copy is also reported as failed.
CopyCancelledReported(w) == Cancelled(w) /\ Emit(w)

CopyCancelled(w) == Cancelled(w) /\ UNCHANGED eventVars

\* Mutant of DeadlineExceeded: every expired copy doubles the timeout.
DeadlineExceededAgain(w) ==
  /\ Goes(w, "copy", "deadline")
  /\ UNCHANGED <<channelVars, job, copyVars, outcome, eventVars>>

\* The deadline has passed, and the timeout is the default one.
DeadlineExceeded(w) ==
  /\ Goes(w, "copy", "deadline")
  /\ timeout = 0
  /\ UNCHANGED <<channelVars, job, copyVars, outcome, eventVars>>

\* ConfigCopyImageTimeout *= 2, on a variable all the workers share without
\* a lock: a read and a write.
ReadTimeout(w) ==
  /\ Goes(w, "deadline", "doubling")
  /\ loaded' = [loaded EXCEPT ![w] = timeout]
  /\ UNCHANGED <<channelVars, job, timeout, cancels, outcome, eventVars>>

StoreTimeout(w, t) ==
  /\ Goes(w, "doubling", "requeue")
  /\ timeout' = t
  /\ loaded' = [loaded EXCEPT ![w] = 0]
  /\ UNCHANGED <<channelVars, job, cancels, outcome, eventVars>>

\* Mutants of WriteTimeout: the timeout is halved; only a copy of the timeout
\* is doubled.
WriteTimeoutHalves(w) == StoreTimeout(w, loaded[w] - 1)
WriteTimeoutForgets(w) == StoreTimeout(w, timeout)

WriteTimeout(w) == StoreTimeout(w, loaded[w] + 1)

-----------------------------------------------------------------------------
(* The way of an event: mergeEventChs in Runner.copy and in Runner.Run *)

\* The forwarder of w takes a step from one place to another.
Forwards(w, from, to) ==
  /\ Running
  /\ fwd[w] = from
  /\ fwd' = [fwd EXCEPT ![w] = to]
  /\ UNCHANGED <<channelVars, workerVars, failures, result, otherVars>>

RelayGoes(from, to) ==
  /\ Running
  /\ relay = from
  /\ relay' = to
  /\ UNCHANGED <<channelVars, workerVars, fwd, result, otherVars>>

ForwarderStarts(w) == Forwards(w, "starting", "receiving") /\ UNCHANGED relay

Forward(w) ==
  /\ Forwards(w, "holding", "receiving")
  /\ relay = "receiving"
  /\ relay' = "holding"

ForwarderEnds(w) ==
  /\ Forwards(w, "receiving", "ended")
  /\ pc[w] = "done"
  /\ UNCHANGED relay

RelayStarts == RelayGoes("starting", "receiving") /\ UNCHANGED failures

\* The loop of Run receives the event; updateStatus counts it.
ProcessEvent == RelayGoes("holding", "receiving") /\ failures' = failures + 1

\* The merged channel of the copy stage is closed after its last forwarder.
RelayEnds ==
  /\ RelayGoes("receiving", "ended")
  /\ \A w \in Workers : fwd[w] = "ended"
  /\ UNCHANGED failures

\* Run counts a failure of a source directory or a tag (resolve) or of a
\* deletion (housekeeping); how often does not matter.
FailElsewhere ==
  /\ Running
  /\ ~othersEnded /\ ~elsewhere
  /\ elsewhere' = TRUE
  /\ UNCHANGED <<channelVars, workerVars, fwd, relay, failures, result, othersEnded>>

\* The last event of the other stages has been received.  When that is does
\* not depend on the copy stage here, which leaves more orders than the code.
OthersEnd ==
  /\ Running
  /\ ~othersEnded
  /\ othersEnded' = TRUE
  /\ UNCHANGED <<channelVars, workerVars, fwd, relay, failures, result, elsewhere>>

\* The merged channel is closed after its three sources: Run looks at the sum
\* of all counters Failed.
Return ==
  /\ Running
  /\ relay = "ended" /\ othersEnded
  /\ result = "none"
  /\ result' = IF failures > 0 \/ elsewhere THEN "error" ELSE "ok"
  /\ UNCHANGED <<channelVars, workerVars, fwd, relay, failures, otherVars>>

-----------------------------------------------------------------------------
(* The specification *)

\* Every worker waits for another one to receive its job, and so does the
\* interleave stage.
Stuck ==
  /\ pending # {}
  /\ \A w \in Workers : pc[w] = "requeue"

Halted == (Stuck \/ crashed \/ result # "none") /\ UNCHANGED vars

Next ==
  \/ CloseInput
  \/ \E w \in Workers, j \in Jobs : Receive(w, j)
  \/ \E v \in Workers, w \in Workers : Requeue(v, w)
  \/ \E w \in Workers :
       \/ SendOnClosed(w) \/ Leave(w)
       \/ UpToDate(w) \/ Outdated(w) \/ Admitted(w)
       \/ CopySucceeds(w) \/ CopyCancelled(w) \/ CopyFails(w)
       \/ DeadlineExceeded(w) \/ ReadTimeout(w) \/ WriteTimeout(w)
       \/ ForwarderStarts(w) \/ Forward(w) \/ ForwarderEnds(w)
  \/ RelayStarts \/ ProcessEvent \/ RelayEnds
  \/ FailElsewhere \/ OthersEnd \/ Return
  \/ Halted

\* Some goroutine that can run does, registries answer or time out, memlim
\* admits every job at last, and the other stages end.
Fairness == WF_vars(Next)

Spec == Init /\ [][Next]_vars /\ Fairness

-----------------------------------------------------------------------------
(* Properties *)

Holders(j) == {w \in Workers : job[w] = j}

\* A job is with the interleave stage, with one worker, or settled: handing
\* it back and forth over the channel neither loses nor doubles it.
JobInOnePlace ==
  \A j \in Jobs :
    /\ j \in pending => outcome[j] = "open"
    /\ j \in pending \/ outcome[j] # "open" => Holders(j) = {}
    /\ j \notin pending /\ outcome[j] = "open" => \E w \in Workers : Holders(j) = {w}

Failed == {j \in Jobs : outcome[j] = "failed"}

\* The failures a forwarder is sending on.
Forwarded == {w \in Workers : fwd[w] = "holding"}
Relayed == IF relay = "holding" THEN 1 ELSE 0

\* The failures of copies that are counted and on their way are not more than
\* the copies that failed: a retried copy is not reported as a failure.
NoFalseFailure ==
  failures + Cardinality(Forwarded) + Relayed <= Cardinality(Failed)

\* Workers that find the default timeout at once may all double it, but only
\* those: it is at most 2^N times the default, for N workers.
TimeoutBounded == timeout <= Cardinality(Workers)

\* The run returns, unless the process panics or the workers are stuck.
Ends == <>(result # "none" \/ crashed \/ Stuck)

\* Run returns only after all the jobs it was given have been settled, each
\* once; with an error if a failure of another stage was counted, and
\* otherwise only if a copy has failed.
Promise == INSTANCE CopyPromise

KeepsPromise == Promise!PromiseSpec

-----------------------------------------------------------------------------
(* What comments and messages of run.go say and the code does not do *)

\* run.go:511 "Cancel and requeue operation if we run out of memory": the
\* job is sent back and some worker receives it.
RequeueDoesNotPanic == ~crashed

\* run.go:119, 122: "Notify user to check error log", "At least some images
\* could not be copied successfully": Run returns nil only if none failed.
FailuresReported ==
  result = "ok" => \A j \in Jobs : outcome[j] # "failed"
=============================================================================
