-------------------------- MODULE CopyStageProofs --------------------------
(***************************************************************************)
(* Theorems about the copy stage, for every set of workers and jobs and    *)
(* every number of cancelled copies: its invariants, that it implements    *)
(* CopyPromise, that the goroutines wait for each other in one state only, *)
(* and that a run goes on for ever only if memlim cancels copies for ever. *)
(***************************************************************************)
EXTENDS CopyStage, FiniteSetTheorems, TLAPS

-----------------------------------------------------------------------------
(* The inductive invariant *)

Busy == {"check", "wait", "copy", "deadline", "doubling", "requeue"}

\* A worker has a job exactly while it is busy with one.
JobShape == \A w \in Workers : job[w] # NoJob <=> pc[w] \in Busy

\* Stages end in order: the interleave stage, a worker, its forwarder, the
\* relay; Run returns after the other stages.
ClosingOrder ==
  /\ closed => pending = {}
  /\ \A w \in Workers : pc[w] = "done" => closed
  /\ \A w \in Workers : fwd[w] = "ended" => pc[w] = "done"
  /\ relay = "ended" => \A w \in Workers : fwd[w] = "ended"
  /\ result # "none" => othersEnded

\* The workers that have found the default timeout and not yet doubled it.
Doublers == {w \in Workers : pc[w] \in {"deadline", "doubling"}}

\* Each of them may still add one to the timeout it will have read, and none
\* joins them once one of them has written.
DoublingsLeft ==
  /\ timeout + Cardinality(Doublers) <= Cardinality(Workers)
  /\ \A w \in Workers :
       /\ pc[w] = "doubling" =>
            loaded[w] + Cardinality(Doublers) <= Cardinality(Workers)
       /\ timeout = 0 => loaded[w] = 0

IInv ==
  /\ TypeOK
  /\ JobShape
  /\ JobInOnePlace
  /\ ClosingOrder
  /\ DoublingsLeft
  /\ NoFalseFailure

LEMMA InitEstablishesIInv == Init => IInv
<1> SUFFICES ASSUME Init PROVE IInv
  OBVIOUS
<1> USE CopyAssumption DEF Init
<1>1. TypeOK
  <2>1. /\ closed \in BOOLEAN /\ crashed \in BOOLEAN
        /\ elsewhere \in BOOLEAN /\ othersEnded \in BOOLEAN
    OBVIOUS
  <2>2. cancels \in 0..MaxCancels /\ timeout \in Nat /\ failures \in Nat
    OBVIOUS
  <2>3. /\ pc \in [Workers -> Places] /\ fwd \in [Workers -> Forwarding]
        /\ relay \in Forwarding /\ outcome \in [Jobs -> Outcomes]
    BY DEF Places, Forwarding, Outcomes
  <2>4. job \in [Workers -> Jobs \cup {NoJob}] /\ loaded \in [Workers -> Nat]
    OBVIOUS
  <2>5. QED
    BY <2>1, <2>2, <2>3, <2>4 DEF TypeOK
<1>2. JobShape /\ JobInOnePlace /\ ClosingOrder
  BY DEF JobShape, Busy, JobInOnePlace, Holders, ClosingOrder
<1>3. Doublers = {}
  BY DEF Doublers
<1>4. DoublingsLeft
  BY <1>3, FS_EmptySet, FS_CardinalityType DEF DoublingsLeft
<1>5. Forwarded = {} /\ Failed = {} /\ Relayed = 0
  BY DEF Forwarded, Failed, Relayed
<1>6. NoFalseFailure
  BY <1>5, FS_EmptySet DEF NoFalseFailure
<1>7. QED
  BY <1>1, <1>2, <1>4, <1>6 DEF IInv

-----------------------------------------------------------------------------
(* Types and places *)

LEMMA TypeStep ==
  ASSUME TypeOK, [Next]_vars
  PROVE  TypeOK'
<1> USE CopyAssumption DEF TypeOK, Places, Forwarding, Outcomes, channelVars,
    copyVars, otherVars, eventVars, workerVars, Running, Goes, Forwards, RelayGoes
<1>1. ASSUME NEW w \in Workers, NEW j \in Jobs, Receive(w, j) PROVE TypeOK'
  BY <1>1 DEF Receive
<1>2. ASSUME NEW v \in Workers, NEW w \in Workers, Requeue(v, w) PROVE TypeOK'
  BY <1>2 DEF Requeue, Handover
<1>3. CASE CloseInput
  BY <1>3 DEF CloseInput
<1>4. ASSUME NEW w \in Workers, SendOnClosed(w) \/ Leave(w) PROVE TypeOK'
  BY <1>4 DEF SendOnClosed, Leave
<1>5. ASSUME NEW w \in Workers, UpToDate(w) \/ CopySucceeds(w) PROVE TypeOK'
  BY <1>5 DEF UpToDate, CopySucceeds, Settles
<1>6. ASSUME NEW w \in Workers, CopyFails(w) PROVE TypeOK'
  BY <1>6 DEF CopyFails, Settles, Emit
<1>7. ASSUME NEW w \in Workers, Outdated(w) \/ Admitted(w) PROVE TypeOK'
  BY <1>7 DEF Outdated, Admitted
<1>8. ASSUME NEW w \in Workers, CopyCancelled(w) PROVE TypeOK'
  BY <1>8 DEF CopyCancelled, Cancelled
<1>9. ASSUME NEW w \in Workers, DeadlineExceeded(w) \/ ReadTimeout(w) PROVE TypeOK'
  BY <1>9 DEF DeadlineExceeded, ReadTimeout
<1>10. ASSUME NEW w \in Workers, WriteTimeout(w) PROVE TypeOK'
  BY <1>10 DEF WriteTimeout, StoreTimeout
<1>11. ASSUME NEW w \in Workers, ForwarderStarts(w) \/ Forward(w) \/ ForwarderEnds(w)
       PROVE  TypeOK'
  BY <1>11 DEF ForwarderStarts, Forward, ForwarderEnds
<1>12. CASE RelayStarts \/ ProcessEvent \/ RelayEnds
  BY <1>12 DEF RelayStarts, ProcessEvent, RelayEnds
<1>13. CASE FailElsewhere \/ OthersEnd \/ Return
  BY <1>13 DEF FailElsewhere, OthersEnd, Return
<1>14. CASE UNCHANGED vars
  BY <1>14 DEF vars
<1>15. QED
  BY <1>1, <1>2, <1>3, <1>4, <1>5, <1>6, <1>7, <1>8, <1>9, <1>10, <1>11,
     <1>12, <1>13, <1>14 DEF Next, Halted

LEMMA JobShapeStep ==
  ASSUME TypeOK, JobShape, [Next]_vars
  PROVE  JobShape'
<1> USE CopyAssumption DEF TypeOK, JobShape, Busy, channelVars, copyVars,
    eventVars, workerVars, Running, Goes, Forwards, RelayGoes
<1>1. ASSUME NEW w \in Workers, NEW j \in Jobs, Receive(w, j) PROVE JobShape'
  BY <1>1 DEF Receive
<1>2. ASSUME NEW v \in Workers, NEW w \in Workers, Requeue(v, w) PROVE JobShape'
  BY <1>2 DEF Requeue, Handover
<1>3. ASSUME NEW w \in Workers, Leave(w) PROVE JobShape'
  BY <1>3 DEF Leave
<1>4. ASSUME NEW w \in Workers, UpToDate(w) \/ CopySucceeds(w) \/ CopyFails(w)
      PROVE  JobShape'
  BY <1>4 DEF UpToDate, CopySucceeds, CopyFails, Settles
<1>5. ASSUME NEW w \in Workers, Outdated(w) \/ Admitted(w) \/ CopyCancelled(w)
      PROVE  JobShape'
  BY <1>5 DEF Outdated, Admitted, CopyCancelled, Cancelled
<1>6. ASSUME NEW w \in Workers, DeadlineExceeded(w) \/ ReadTimeout(w) \/ WriteTimeout(w)
      PROVE  JobShape'
  BY <1>6 DEF DeadlineExceeded, ReadTimeout, WriteTimeout, StoreTimeout
<1>7. ASSUME NEW w \in Workers, SendOnClosed(w) \/ ForwarderStarts(w)
                                 \/ Forward(w) \/ ForwarderEnds(w)
      PROVE  JobShape'
  BY <1>7 DEF SendOnClosed, ForwarderStarts, Forward, ForwarderEnds
<1>8. CASE \/ CloseInput \/ RelayStarts \/ ProcessEvent \/ RelayEnds
           \/ FailElsewhere \/ OthersEnd \/ Return
  BY <1>8 DEF CloseInput, RelayStarts, ProcessEvent, RelayEnds, FailElsewhere, OthersEnd,
              Return
<1>9. CASE UNCHANGED vars
  BY <1>9 DEF vars
<1>10. QED
  BY <1>1, <1>2, <1>3, <1>4, <1>5, <1>6, <1>7, <1>8, <1>9 DEF Next, Halted

\* The steps that move or settle a job; all others leave the jobs alone.
LEMMA JobSteps ==
  ASSUME TypeOK, [Next]_vars
  PROVE  \/ \E w \in Workers, j \in Jobs : Receive(w, j)
         \/ \E v \in Workers, w \in Workers : Requeue(v, w)
         \/ \E w \in Workers : UpToDate(w) \/ CopySucceeds(w) \/ CopyFails(w)
         \/ UNCHANGED <<pending, job, outcome>>
<1> USE DEF channelVars, copyVars, eventVars, workerVars, vars, Running, Goes
<1>1. ASSUME NEW w \in Workers,
             \/ SendOnClosed(w) \/ Leave(w) \/ Outdated(w) \/ Admitted(w)
             \/ CopyCancelled(w) \/ DeadlineExceeded(w) \/ ReadTimeout(w)
             \/ WriteTimeout(w)
      PROVE  UNCHANGED <<pending, job, outcome>>
  BY <1>1 DEF SendOnClosed, Leave, Outdated, Admitted, CopyCancelled, Cancelled,
              DeadlineExceeded, ReadTimeout, WriteTimeout, StoreTimeout
<1>2. ASSUME NEW w \in Workers, ForwarderStarts(w) \/ Forward(w) \/ ForwarderEnds(w)
      PROVE  UNCHANGED <<pending, job, outcome>>
  BY <1>2 DEF ForwarderStarts, Forward, ForwarderEnds, Forwards
<1>3. ASSUME \/ CloseInput \/ RelayStarts \/ ProcessEvent \/ RelayEnds
             \/ FailElsewhere \/ OthersEnd \/ Return \/ UNCHANGED vars
      PROVE  UNCHANGED <<pending, job, outcome>>
  BY <1>3 DEF CloseInput, RelayStarts, ProcessEvent, RelayEnds, FailElsewhere, OthersEnd,
              Return, RelayGoes
<1>4. QED
  BY <1>1, <1>2, <1>3 DEF Next, Halted

\* A busy worker's job has not been settled and nobody else has it.
LEMMA BusyJob ==
  ASSUME TypeOK, JobShape, JobInOnePlace, NEW w \in Workers, pc[w] \in Busy
  PROVE  /\ job[w] \in Jobs
         /\ job[w] \notin pending
         /\ outcome[job[w]] = "open"
         /\ \A v \in Workers : job[v] = job[w] => v = w
<1>1. job[w] \in Jobs /\ w \in Holders(job[w])
  BY DEF TypeOK, JobShape, Holders
<1>2. job[w] \notin pending /\ outcome[job[w]] = "open"
  BY <1>1 DEF JobInOnePlace
<1>3. \E u \in Workers : Holders(job[w]) = {u}
  BY <1>1, <1>2 DEF JobInOnePlace
<1>4. Holders(job[w]) = {w}
  BY <1>1, <1>3
<1>5. QED
  BY <1>1, <1>2, <1>4 DEF Holders

LEMMA JobInOnePlaceStep ==
  ASSUME TypeOK, JobShape, JobInOnePlace, [Next]_vars
  PROVE  JobInOnePlace'
<1>1. ASSUME NEW w \in Workers, NEW j \in Jobs, Receive(w, j)
      PROVE  JobInOnePlace'
  <2>1. /\ job[w] = NoJob /\ j \in pending /\ outcome[j] = "open"
        /\ Holders(j) = {}
    BY <1>1 DEF Receive, Goes, JobShape, Busy, JobInOnePlace
  <2>2. Holders(j)' = {w}
    BY <1>1, <2>1 DEF Receive, Holders, TypeOK
  <2>3. \A k \in Jobs \ {j} : Holders(k)' = Holders(k)
    BY <1>1, <2>1, CopyAssumption DEF Receive, Holders, TypeOK
  <2>4. pending' = pending \ {j} /\ outcome' = outcome
    BY <1>1 DEF Receive
  <2>5. QED
    BY <2>1, <2>2, <2>3, <2>4 DEF JobInOnePlace
<1>2. ASSUME NEW v \in Workers, NEW w \in Workers, Requeue(v, w)
      PROVE  JobInOnePlace'
  <2>1. /\ v # w
        /\ job[w] = NoJob
        /\ job' = [job EXCEPT ![v] = NoJob, ![w] = job[v]]
        /\ pending' = pending /\ outcome' = outcome
    BY <1>2 DEF Requeue, Handover, JobShape, Busy, channelVars
  <2>2. PICK x \in Jobs :
          /\ job[v] = x /\ x \notin pending /\ outcome[x] = "open"
          /\ \A u \in Workers : job[u] = x => u = v
    BY <1>2, BusyJob DEF Requeue, Handover, Busy
  <2>3. Holders(x)' = {w}
    BY <2>1, <2>2, CopyAssumption DEF TypeOK, Holders
  <2>4. \A k \in Jobs \ {x} : Holders(k)' = Holders(k)
    BY <2>1, <2>2, CopyAssumption DEF TypeOK, Holders
  <2>5. QED
    BY <2>1, <2>2, <2>3, <2>4 DEF JobInOnePlace
<1>3. ASSUME NEW w \in Workers, UpToDate(w) \/ CopySucceeds(w) \/ CopyFails(w)
      PROVE  JobInOnePlace'
  <2>1. PICK what \in {"skipped", "copied", "failed"} :
             /\ pc[w] \in Busy
             /\ outcome' = [outcome EXCEPT ![job[w]] = what]
             /\ job' = [job EXCEPT ![w] = NoJob]
             /\ pending' = pending
    BY <1>3 DEF UpToDate, CopySucceeds, CopyFails, Settles, Goes, Busy, channelVars
  <2>2. PICK x \in Jobs :
          /\ job[w] = x /\ x \notin pending
          /\ \A u \in Workers : job[u] = x => u = w
    BY <2>1, BusyJob
  <2>3. /\ outcome'[x] # "open"
        /\ \A k \in Jobs \ {x} : outcome'[k] = outcome[k]
    BY <2>1, <2>2 DEF TypeOK
  <2>4. Holders(x)' = {}
    BY <2>1, <2>2, CopyAssumption DEF TypeOK, Holders
  <2>5. \A k \in Jobs \ {x} : Holders(k)' = Holders(k)
    BY <2>1, <2>2, CopyAssumption DEF TypeOK, Holders
  <2>6. QED
    BY <2>1, <2>2, <2>3, <2>4, <2>5 DEF JobInOnePlace
<1>4. CASE UNCHANGED <<pending, job, outcome>>
  BY <1>4 DEF JobInOnePlace, Holders
<1>5. QED
  BY <1>1, <1>2, <1>3, <1>4, JobSteps

-----------------------------------------------------------------------------
(* Closing *)

LEMMA ClosingOrderStep ==
  ASSUME TypeOK, ClosingOrder, [Next]_vars
  PROVE  ClosingOrder'
<1> USE DEF TypeOK, ClosingOrder, channelVars, copyVars, otherVars, eventVars,
    workerVars, Running, Goes, Forwards, RelayGoes
<1>1. ASSUME NEW w \in Workers, NEW j \in Jobs, Receive(w, j) PROVE ClosingOrder'
  BY <1>1 DEF Receive
<1>2. ASSUME NEW v \in Workers, NEW w \in Workers, Requeue(v, w) PROVE ClosingOrder'
  BY <1>2 DEF Requeue, Handover
<1>3. CASE CloseInput
  BY <1>3 DEF CloseInput
<1>4. ASSUME NEW w \in Workers, SendOnClosed(w) \/ Leave(w) PROVE ClosingOrder'
  BY <1>4 DEF SendOnClosed, Leave
<1>5. ASSUME NEW w \in Workers, UpToDate(w) \/ CopySucceeds(w) PROVE ClosingOrder'
  BY <1>5 DEF UpToDate, CopySucceeds, Settles
<1>6. ASSUME NEW w \in Workers, CopyFails(w) PROVE ClosingOrder'
  BY <1>6 DEF CopyFails, Settles, Emit
<1>7. ASSUME NEW w \in Workers, Outdated(w) \/ Admitted(w) \/ CopyCancelled(w)
      PROVE  ClosingOrder'
  BY <1>7 DEF Outdated, Admitted, CopyCancelled, Cancelled
<1>8. ASSUME NEW w \in Workers, DeadlineExceeded(w) \/ ReadTimeout(w) \/ WriteTimeout(w)
      PROVE  ClosingOrder'
  BY <1>8 DEF DeadlineExceeded, ReadTimeout, WriteTimeout, StoreTimeout
<1>9. ASSUME NEW w \in Workers, ForwarderStarts(w) \/ Forward(w) \/ ForwarderEnds(w)
      PROVE  ClosingOrder'
  BY <1>9 DEF ForwarderStarts, Forward, ForwarderEnds
<1>10. CASE \/ RelayStarts \/ ProcessEvent \/ RelayEnds
            \/ FailElsewhere \/ OthersEnd \/ Return
  BY <1>10 DEF RelayStarts, ProcessEvent, RelayEnds, FailElsewhere, OthersEnd, Return
<1>11. CASE UNCHANGED vars
  BY <1>11 DEF vars
<1>12. QED
  BY <1>1, <1>2, <1>3, <1>4, <1>5, <1>6, <1>7, <1>8, <1>9, <1>10, <1>11
     DEF Next, Halted

-----------------------------------------------------------------------------
(* The timeout *)

\* The steps that matter to the timeout; all others leave it and the set of
\* doublers alone.
LEMMA TimeoutSteps ==
  ASSUME TypeOK, [Next]_vars
  PROVE  \/ \E w \in Workers : DeadlineExceeded(w) \/ ReadTimeout(w) \/ WriteTimeout(w)
         \/ /\ UNCHANGED <<timeout, loaded>>
            /\ Doublers' = Doublers
            /\ \A w \in Workers : pc'[w] = "doubling" => pc[w] = "doubling"
<1> DEFINE Quiet ==
      /\ UNCHANGED <<timeout, loaded>>
      /\ \A w \in Workers : /\ pc'[w] = "doubling" <=> pc[w] = "doubling"
                            /\ pc'[w] = "deadline" <=> pc[w] = "deadline"
<1> USE DEF TypeOK, channelVars, copyVars, eventVars, workerVars, vars, Running, Goes
<1>1. ASSUME NEW w \in Workers, NEW j \in Jobs, Receive(w, j) PROVE Quiet
  BY <1>1 DEF Receive
<1>2. ASSUME NEW v \in Workers, NEW w \in Workers, Requeue(v, w) PROVE Quiet
  BY <1>2 DEF Requeue, Handover
<1>3. ASSUME NEW w \in Workers,
             \/ SendOnClosed(w) \/ Leave(w) \/ UpToDate(w) \/ CopySucceeds(w)
             \/ CopyFails(w) \/ Outdated(w) \/ Admitted(w) \/ CopyCancelled(w)
      PROVE  Quiet
  BY <1>3 DEF SendOnClosed, Leave, UpToDate, CopySucceeds, CopyFails, Settles,
              Outdated, Admitted, CopyCancelled, Cancelled
<1>4. ASSUME NEW w \in Workers, ForwarderStarts(w) \/ Forward(w) \/ ForwarderEnds(w)
      PROVE  Quiet
  BY <1>4 DEF ForwarderStarts, Forward, ForwarderEnds, Forwards
<1>5. ASSUME \/ CloseInput \/ RelayStarts \/ ProcessEvent \/ RelayEnds
             \/ FailElsewhere \/ OthersEnd \/ Return \/ UNCHANGED vars
      PROVE  Quiet
  BY <1>5 DEF CloseInput, RelayStarts, ProcessEvent, RelayEnds, FailElsewhere, OthersEnd,
              Return, RelayGoes
<1>6. Quiet => /\ UNCHANGED <<timeout, loaded>>
               /\ Doublers' = Doublers
               /\ \A w \in Workers : pc'[w] = "doubling" => pc[w] = "doubling"
  BY DEF Doublers
<1> HIDE DEF Quiet
<1>7. QED
  BY <1>1, <1>2, <1>3, <1>4, <1>5, <1>6 DEF Next, Halted

LEMMA DoublersFinite ==
  /\ IsFiniteSet(Doublers)
  /\ Cardinality(Doublers) \in Nat
  /\ Cardinality(Workers) \in Nat
  /\ \A w \in Workers \ Doublers :
       Cardinality(Doublers \cup {w}) = Cardinality(Doublers) + 1
  /\ \A w \in Workers \ Doublers : Cardinality(Doublers) + 1 <= Cardinality(Workers)
  /\ \A w \in Doublers : Cardinality(Doublers \ {w}) = Cardinality(Doublers) - 1
<1>1. IsFiniteSet(Workers) /\ Doublers \in SUBSET Workers
  BY CopyAssumption DEF Doublers
<1>2. IsFiniteSet(Doublers)
  BY <1>1, FS_Subset
<1>3. Cardinality(Doublers) \in Nat /\ Cardinality(Workers) \in Nat
  BY <1>1, <1>2, FS_CardinalityType
<1>4. ASSUME NEW w \in Workers \ Doublers
      PROVE  /\ Cardinality(Doublers \cup {w}) = Cardinality(Doublers) + 1
             /\ Cardinality(Doublers) + 1 <= Cardinality(Workers)
  <2>1. Cardinality(Doublers \cup {w}) = Cardinality(Doublers) + 1
    BY <1>2, FS_AddElement
  <2>2. Doublers \cup {w} \in SUBSET Workers
    BY <1>1
  <2>3. Cardinality(Doublers \cup {w}) <= Cardinality(Workers)
    BY <1>1, <2>2, FS_Subset
  <2>4. QED
    BY <2>1, <2>3
<1>5. ASSUME NEW w \in Doublers
      PROVE  Cardinality(Doublers \ {w}) = Cardinality(Doublers) - 1
  BY <1>2, FS_RemoveElement
<1>6. QED
  BY <1>2, <1>3, <1>4, <1>5

LEMMA DoublingsLeftStep ==
  ASSUME TypeOK, DoublingsLeft, [Next]_vars
  PROVE  DoublingsLeft'
<1> USE DEF TypeOK, Goes, channelVars
<1>1. ASSUME NEW w \in Workers, DeadlineExceeded(w) PROVE DoublingsLeft'
  <2>1. /\ timeout = 0 /\ timeout' = 0 /\ loaded' = loaded
        /\ w \in Workers \ Doublers
        /\ Doublers' = Doublers \cup {w}
        /\ \A v \in Workers : loaded[v] = 0
    BY <1>1 DEF DeadlineExceeded, Doublers, DoublingsLeft, copyVars
  <2>2. Cardinality(Doublers') <= Cardinality(Workers) /\ Cardinality(Doublers') \in Nat
    BY <2>1, DoublersFinite
  <2>3. QED
    BY <2>1, <2>2, DoublersFinite DEF DoublingsLeft
<1>2. ASSUME NEW w \in Workers, ReadTimeout(w) PROVE DoublingsLeft'
  <2>1. /\ timeout' = timeout
        /\ loaded' = [loaded EXCEPT ![w] = timeout]
        /\ Doublers' = Doublers
        /\ \A v \in Workers \ {w} : pc'[v] = pc[v]
    BY <1>2 DEF ReadTimeout, Doublers
  <2>2. QED
    BY <2>1, DoublersFinite DEF DoublingsLeft
<1>3. ASSUME NEW w \in Workers, WriteTimeout(w) PROVE DoublingsLeft'
  <2>1. /\ timeout' = loaded[w] + 1
        /\ loaded' = [loaded EXCEPT ![w] = 0]
        /\ w \in Doublers
        /\ Doublers' = Doublers \ {w}
        /\ loaded[w] + Cardinality(Doublers) <= Cardinality(Workers)
        /\ \A v \in Workers : pc'[v] = "doubling" => pc[v] = "doubling"
    BY <1>3 DEF WriteTimeout, StoreTimeout, Doublers, DoublingsLeft
  <2>2. Cardinality(Doublers') = Cardinality(Doublers) - 1
    BY <2>1, DoublersFinite
  <2>3. timeout' + Cardinality(Doublers') <= Cardinality(Workers) /\ timeout' # 0
    BY <2>1, <2>2, DoublersFinite
  <2>4. ASSUME NEW v \in Workers, pc'[v] = "doubling"
        PROVE  loaded'[v] + Cardinality(Doublers') <= Cardinality(Workers)
    <3>1. loaded[v] + Cardinality(Doublers) <= Cardinality(Workers)
      BY <2>1, <2>4 DEF DoublingsLeft
    <3>2. loaded'[v] \in Nat /\ loaded'[v] <= loaded[v]
      BY <2>1
    <3>3. QED
      BY <3>1, <3>2, <2>2, DoublersFinite
  <2>5. QED
    BY <2>3, <2>4 DEF DoublingsLeft
<1>4. CASE /\ UNCHANGED <<timeout, loaded>>
           /\ Doublers' = Doublers
           /\ \A w \in Workers : pc'[w] = "doubling" => pc[w] = "doubling"
  BY <1>4 DEF DoublingsLeft
<1>5. QED
  BY <1>1, <1>2, <1>3, <1>4, TimeoutSteps

-----------------------------------------------------------------------------
(* Events *)

LEMMA EventSetsFinite ==
  /\ IsFiniteSet(Forwarded) /\ Cardinality(Forwarded) \in Nat
  /\ IsFiniteSet(Failed) /\ Cardinality(Failed) \in Nat
<1>1. Forwarded \in SUBSET Workers /\ Failed \in SUBSET Jobs
  BY DEF Forwarded, Failed
<1>2. IsFiniteSet(Forwarded) /\ IsFiniteSet(Failed)
  BY <1>1, FS_Subset, CopyAssumption
<1>3. QED
  BY <1>2, FS_CardinalityType

\* The steps an event of a failed copy takes; all others leave the events
\* and the failed jobs alone.
LEMMA EventSteps ==
  ASSUME TypeOK, JobShape, JobInOnePlace, [Next]_vars
  PROVE  \/ \E w \in Workers : CopyFails(w) \/ Forward(w)
         \/ ProcessEvent
         \/ /\ failures' = failures
            /\ Forwarded' = Forwarded
            /\ Failed' = Failed
            /\ Relayed' = Relayed
<1> DEFINE Quiet == /\ failures' = failures
                    /\ \A w \in Workers : fwd'[w] = "holding" <=> fwd[w] = "holding"
                    /\ \A j \in Jobs : outcome'[j] = "failed" <=> outcome[j] = "failed"
                    /\ relay' = "holding" <=> relay = "holding"
<1> USE DEF TypeOK, channelVars, copyVars, eventVars, workerVars, vars, Running, Goes
<1>1. ASSUME NEW w \in Workers, NEW j \in Jobs, Receive(w, j) PROVE Quiet
  BY <1>1 DEF Receive
<1>2. ASSUME NEW v \in Workers, NEW w \in Workers, Requeue(v, w) PROVE Quiet
  BY <1>2 DEF Requeue, Handover
<1>3. ASSUME NEW w \in Workers, UpToDate(w) \/ CopySucceeds(w) PROVE Quiet
  <2>1. PICK what \in {"skipped", "copied"} :
          /\ pc[w] \in Busy
          /\ outcome' = [outcome EXCEPT ![job[w]] = what]
          /\ UNCHANGED <<fwd, relay, failures>>
    BY <1>3 DEF UpToDate, CopySucceeds, Settles, Busy
  <2>2. job[w] \in Jobs /\ outcome[job[w]] = "open"
    BY <2>1, BusyJob
  <2>3. QED
    BY <2>1, <2>2
<1>4. ASSUME NEW w \in Workers,
             \/ SendOnClosed(w) \/ Leave(w) \/ Outdated(w) \/ Admitted(w)
             \/ CopyCancelled(w) \/ DeadlineExceeded(w) \/ ReadTimeout(w)
             \/ WriteTimeout(w)
      PROVE  Quiet
  BY <1>4 DEF SendOnClosed, Leave, Outdated, Admitted, CopyCancelled, Cancelled,
              DeadlineExceeded, ReadTimeout, WriteTimeout, StoreTimeout
<1>5. ASSUME NEW w \in Workers, ForwarderStarts(w) \/ ForwarderEnds(w)
      PROVE  Quiet
  BY <1>5 DEF ForwarderStarts, ForwarderEnds, Forwards
<1>6. ASSUME \/ CloseInput \/ RelayStarts \/ RelayEnds
             \/ FailElsewhere \/ OthersEnd \/ Return \/ UNCHANGED vars
      PROVE  Quiet
  BY <1>6 DEF CloseInput, RelayStarts, RelayEnds, FailElsewhere, OthersEnd, Return,
              RelayGoes
<1>7. Quiet => /\ failures' = failures
               /\ Forwarded' = Forwarded
               /\ Failed' = Failed
               /\ Relayed' = Relayed
  BY DEF Forwarded, Failed, Relayed
<1> HIDE DEF Quiet
<1>8. QED
  BY <1>1, <1>2, <1>3, <1>4, <1>5, <1>6, <1>7 DEF Next, Halted

LEMMA NoFalseFailureStep ==
  ASSUME TypeOK, JobShape, JobInOnePlace, NoFalseFailure, [Next]_vars
  PROVE  NoFalseFailure'
<1> USE DEF TypeOK
<1>0. Relayed \in {0, 1}
  BY DEF Relayed
<1>1. ASSUME NEW w \in Workers, CopyFails(w) PROVE NoFalseFailure'
  <2>1. /\ pc[w] \in Busy
        /\ outcome' = [outcome EXCEPT ![job[w]] = "failed"]
        /\ fwd' = [fwd EXCEPT ![w] = IF @ = "receiving" THEN "holding" ELSE @]
        /\ relay' = relay /\ failures' = failures
    BY <1>1 DEF CopyFails, Settles, Emit, Goes, Busy
  <2>2. PICK j \in Jobs : job[w] = j /\ outcome[j] = "open"
    BY <2>1, BusyJob
  <2>3. j \notin Failed /\ Failed' = Failed \cup {j}
    BY <2>1, <2>2 DEF Failed
  <2>4. Cardinality(Failed') = Cardinality(Failed) + 1
    BY <2>3, EventSetsFinite, FS_AddElement
  <2>5. Forwarded' = Forwarded \/ Forwarded' = Forwarded \cup {w}
    BY <2>1 DEF Forwarded
  <2>6. /\ Cardinality(Forwarded') <= Cardinality(Forwarded) + 1
        /\ Cardinality(Forwarded') \in Nat
    <3>1. Cardinality(Forwarded \cup {w}) \in {Cardinality(Forwarded), Cardinality(Forwarded) + 1}
      BY EventSetsFinite, FS_AddElement
    <3>2. \/ Cardinality(Forwarded') = Cardinality(Forwarded)
          \/ Cardinality(Forwarded') = Cardinality(Forwarded) + 1
      <4>1. CASE Forwarded' = Forwarded
        BY <4>1
      <4>2. CASE Forwarded' = Forwarded \cup {w}
        BY <4>2, <3>1
      <4>3. QED
        BY <2>5, <4>1, <4>2
    <3>3. QED
      BY <3>2, EventSetsFinite
  <2>7. Relayed' = Relayed
    BY <2>1 DEF Relayed
  <2>8. QED
    BY <1>0, <2>1, <2>4, <2>6, <2>7, EventSetsFinite DEF NoFalseFailure
<1>2. ASSUME NEW w \in Workers, Forward(w) PROVE NoFalseFailure'
  <2>1. /\ fwd[w] = "holding" /\ fwd' = [fwd EXCEPT ![w] = "receiving"]
        /\ relay = "receiving" /\ relay' = "holding"
        /\ failures' = failures /\ outcome' = outcome
    BY <1>2 DEF Forward, Forwards, workerVars
  <2>2. w \in Forwarded /\ Forwarded' = Forwarded \ {w}
    BY <2>1 DEF Forwarded
  <2>3. Cardinality(Forwarded') = Cardinality(Forwarded) - 1
    BY <2>2, EventSetsFinite, FS_RemoveElement
  <2>4. Relayed = 0 /\ Relayed' = 1 /\ Failed' = Failed
    BY <2>1 DEF Relayed, Failed
  <2>5. QED
    BY <2>1, <2>3, <2>4, EventSetsFinite DEF NoFalseFailure
<1>3. ASSUME ProcessEvent PROVE NoFalseFailure'
  <2>1. /\ relay = "holding" /\ relay' = "receiving"
        /\ failures' = failures + 1 /\ fwd' = fwd /\ outcome' = outcome
    BY <1>3 DEF ProcessEvent, RelayGoes, workerVars
  <2>2. Relayed = 1 /\ Relayed' = 0 /\ Failed' = Failed /\ Forwarded' = Forwarded
    BY <2>1 DEF Relayed, Failed, Forwarded
  <2>3. QED
    BY <2>1, <2>2, EventSetsFinite DEF NoFalseFailure
<1>4. CASE /\ failures' = failures /\ Forwarded' = Forwarded
           /\ Failed' = Failed /\ Relayed' = Relayed
  BY <1>4 DEF NoFalseFailure
<1>5. QED
  BY <1>1, <1>2, <1>3, <1>4, EventSteps

-----------------------------------------------------------------------------
(* Theorems *)

\* The invariant of the copy stage holds of every behaviour of Spec.
THEOREM CopyInvariant == Spec => []IInv
<1>1. Init => IInv
  BY InitEstablishesIInv
<1>2. IInv /\ [Next]_vars => IInv'
  BY TypeStep, JobShapeStep, JobInOnePlaceStep, ClosingOrderStep,
     DoublingsLeftStep, NoFalseFailureStep DEF IInv
<1>3. QED
  BY <1>1, <1>2, PTL DEF Spec

\* Handing jobs back and forth over the shared channel neither loses nor
\* doubles one, for any number of workers, cancellations and timeouts.
THEOREM JobsAreKept == Spec => []JobInOnePlace
<1>1. IInv => JobInOnePlace
  BY DEF IInv
<1>2. QED
  BY <1>1, CopyInvariant, PTL

\* Run's counter of failures never exceeds the number of failed copies.
THEOREM FailuresAreReal == Spec => []NoFalseFailure
<1>1. IInv => NoFalseFailure
  BY DEF IInv
<1>2. QED
  BY <1>1, CopyInvariant, PTL

\* The unsynchronised doublings of N workers stop at 2^N times the default.
THEOREM DoublingStops == Spec => []TimeoutBounded
<1>1. IInv => TimeoutBounded
  BY DoublersFinite DEF IInv, DoublingsLeft, TimeoutBounded, TypeOK
<1>2. QED
  BY <1>1, CopyInvariant, PTL

\* The copy stage of every run keeps its types.
THEOREM CopyTypeCorrect == Spec => []TypeOK
<1>1. IInv => TypeOK
  BY DEF IInv
<1>2. QED
  BY <1>1, CopyInvariant, PTL

-----------------------------------------------------------------------------
(* Implementation *)

\* When Run returns, every worker has left its loop, so no job is held, and
\* every job has been settled.
LEMMA ReturnAfterLastJob ==
  ASSUME IInv, Return
  PROVE  Promise!Return
<1> USE CopyAssumption DEF IInv
<1>1. /\ result = "none" /\ outcome' = outcome /\ elsewhere' = elsewhere
      /\ result' = IF failures > 0 \/ elsewhere THEN "error" ELSE "ok"
      /\ relay = "ended"
  BY DEF Return, workerVars, otherVars
<1>2. /\ \A w \in Workers : pc[w] = "done"
      /\ pending = {}
  BY <1>1 DEF ClosingOrder
<1>3. \A w \in Workers : job[w] = NoJob
  BY <1>2 DEF JobShape, Busy
<1>4. ASSUME NEW j \in Jobs PROVE outcome[j] # "open"
  <2>1. Holders(j) = {}
    BY <1>3 DEF Holders
  <2>2. j \notin pending
    BY <1>2
  <2>3. QED
    BY <2>1, <2>2 DEF JobInOnePlace
<1>5. ASSUME failures > 0 PROVE \E j \in Jobs : outcome[j] = "failed"
  <2>1. Cardinality(Failed) # 0
    BY <1>5, EventSetsFinite DEF NoFalseFailure, TypeOK, Relayed
  <2>2. Failed # {}
    BY <2>1, FS_EmptySet
  <2>3. QED
    BY <2>2 DEF Failed
<1>6. QED
  BY <1>1, <1>4, <1>5 DEF Promise!Return, TypeOK

LEMMA PromiseStep ==
  ASSUME IInv, [Next]_vars
  PROVE  [Promise!PromiseNext]_(Promise!promiseVars)
<1> USE DEF IInv, Promise!PromiseNext, Promise!promiseVars
<1>1. CASE Return
  BY <1>1, ReturnAfterLastJob
<1>2. ASSUME NEW w \in Workers, UpToDate(w) \/ CopySucceeds(w) \/ CopyFails(w)
      PROVE  \E j \in Jobs : Promise!Settle(j)
  <2>1. PICK what \in {"skipped", "copied", "failed"} :
          /\ pc[w] \in Busy
          /\ outcome' = [outcome EXCEPT ![job[w]] = what]
          /\ UNCHANGED <<elsewhere, result>>
    BY <1>2 DEF UpToDate, CopySucceeds, CopyFails, Settles, Emit, Goes, Busy, eventVars,
                otherVars
  <2>2. job[w] \in Jobs /\ outcome[job[w]] = "open"
    BY <2>1, BusyJob
  <2>3. Promise!Settle(job[w])
    BY <2>1, <2>2 DEF Promise!Settle, Promise!Outcomes
  <2>4. QED
    BY <2>2, <2>3
<1>3. CASE FailElsewhere
  <2>1. /\ ~othersEnded /\ ~elsewhere /\ elsewhere' = TRUE
        /\ UNCHANGED <<outcome, result>>
    BY <1>3 DEF FailElsewhere, workerVars
  <2>2. result = "none"
    BY <2>1 DEF ClosingOrder
  <2> QED BY <2>1, <2>2 DEF Promise!FailElsewhere
<1>4. ASSUME ~Return, ~FailElsewhere,
             \A w \in Workers : ~(UpToDate(w) \/ CopySucceeds(w) \/ CopyFails(w))
      PROVE  UNCHANGED Promise!promiseVars
  <2> USE DEF channelVars, copyVars, otherVars, eventVars, workerVars, vars, Running, Goes
  <2>1. ASSUME NEW w \in Workers, NEW j \in Jobs, Receive(w, j)
        PROVE  UNCHANGED <<outcome, elsewhere, result>>
    BY <2>1 DEF Receive
  <2>2. ASSUME NEW v \in Workers, NEW w \in Workers, Requeue(v, w)
        PROVE  UNCHANGED <<outcome, elsewhere, result>>
    BY <2>2 DEF Requeue, Handover
  <2>3. ASSUME NEW w \in Workers,
               \/ SendOnClosed(w) \/ Leave(w) \/ Outdated(w) \/ Admitted(w)
               \/ CopyCancelled(w) \/ DeadlineExceeded(w) \/ ReadTimeout(w)
               \/ WriteTimeout(w)
        PROVE  UNCHANGED <<outcome, elsewhere, result>>
    BY <2>3 DEF SendOnClosed, Leave, Outdated, Admitted, CopyCancelled, Cancelled,
                DeadlineExceeded, ReadTimeout, WriteTimeout, StoreTimeout
  <2>4. ASSUME NEW w \in Workers, ForwarderStarts(w) \/ Forward(w) \/ ForwarderEnds(w)
        PROVE  UNCHANGED <<outcome, elsewhere, result>>
    BY <2>4 DEF ForwarderStarts, Forward, ForwarderEnds, Forwards
  <2>5. ASSUME \/ CloseInput \/ RelayStarts \/ ProcessEvent \/ RelayEnds
               \/ OthersEnd \/ UNCHANGED vars
        PROVE  UNCHANGED <<outcome, elsewhere, result>>
    BY <2>5 DEF CloseInput, RelayStarts, ProcessEvent, RelayEnds, OthersEnd, RelayGoes
  <2>6. QED
    BY <1>4, <2>1, <2>2, <2>3, <2>4, <2>5 DEF Next, Halted
<1>5. QED
  BY <1>1, <1>2, <1>3, <1>4

\* Run returns only after every job has been settled, each once; with an error
\* if it has counted a failure of another stage, and otherwise only if a copy
\* has failed.  If the process panics or the workers are stuck it returns
\* nothing.
THEOREM CopyKeepsPromise == Spec => KeepsPromise
<1>1. Init => Promise!PromiseInit
  BY DEF Init, Promise!PromiseInit
<1>2. IInv /\ [Next]_vars => [Promise!PromiseNext]_(Promise!promiseVars)
  BY PromiseStep
<1>3. QED
  BY <1>1, <1>2, CopyInvariant, PTL DEF Spec, KeepsPromise, Promise!PromiseSpec

-----------------------------------------------------------------------------
(* That the run ends: who may wait for whom, and how often *)

\* The worker is not waiting for another goroutine.
WorkerCanGo(w) ==
  \/ pc[w] \in {"check", "wait", "copy", "deadline", "doubling"}
  \/ pc[w] = "receive" /\ (closed \/ pending # {} \/ \E v \in Workers : pc[v] = "requeue")
  \/ pc[w] = "requeue" /\ (closed \/ \E v \in Workers : pc[v] = "receive")

ForwarderCanGo(w) ==
  \/ fwd[w] = "starting"
  \/ fwd[w] = "holding" /\ relay = "receiving"
  \/ fwd[w] = "receiving" /\ pc[w] = "done"

\* Some goroutine is not waiting: the guards of the actions.
SomeoneCanGo ==
  \/ ~closed /\ pending = {}
  \/ \E w \in Workers : WorkerCanGo(w) \/ ForwarderCanGo(w)
  \/ relay \in {"starting", "holding"}
  \/ relay = "receiving" /\ \A w \in Workers : fwd[w] = "ended"
  \/ relay = "ended" /\ othersEnded /\ result = "none"

\* Once the other stages have ended, the workers, the forwarders of their
\* events and Run wait for each other in one state only, that of run.go:528
\* where every worker sends a job back while the interleave stage still has
\* one.
THEOREM OnlyRequeuesGetStuck ==
  Spec => [](Stuck \/ crashed \/ result # "none" \/ ~othersEnded \/ SomeoneCanGo)
<1>1. IInv => Stuck \/ crashed \/ result # "none" \/ ~othersEnded \/ SomeoneCanGo
  <2>1. SUFFICES ASSUME IInv, result = "none", othersEnded, ~SomeoneCanGo PROVE Stuck
    OBVIOUS
  <2>2. \A w \in Workers : ~WorkerCanGo(w) /\ ~ForwarderCanGo(w)
    BY <2>1 DEF SomeoneCanGo
  <2>t. /\ \A w \in Workers : pc[w] \in Places /\ fwd[w] \in Forwarding
        /\ relay \in Forwarding /\ closed \in BOOLEAN
    BY <2>1 DEF IInv, TypeOK
  <2>3. \A w \in Workers : pc[w] \in {"receive", "requeue", "done"}
    BY <2>2, <2>t DEF WorkerCanGo, Places
  <2>4. CASE closed
    <3>1. \A w \in Workers : pc[w] = "done"
      BY <2>2, <2>3, <2>4 DEF WorkerCanGo
    <3>2. relay = "receiving"
      BY <2>1, <2>t DEF SomeoneCanGo, Forwarding
    <3>3. \A w \in Workers : fwd[w] = "ended"
      BY <2>2, <2>t, <3>1, <3>2 DEF ForwarderCanGo, Forwarding
    <3> QED BY <2>1, <3>2, <3>3 DEF SomeoneCanGo
  <2>5. CASE ~closed
    <3>1. pending # {}
      BY <2>1, <2>5 DEF SomeoneCanGo
    <3>2. \A w \in Workers : pc[w] # "receive" /\ pc[w] # "done"
      BY <2>1, <2>2, <2>5, <3>1 DEF WorkerCanGo, IInv, ClosingOrder
    <3> QED BY <2>3, <3>1, <3>2 DEF Stuck
  <2> QED BY <2>4, <2>5
<1> QED BY <1>1, CopyInvariant, PTL

\* The workers that may still find the default timeout after a deadline.
MayDouble == IF timeout = 0 THEN Workers \ Doublers ELSE {}

\* How often a deadline may still send a job back.
RetriesLeft == Cardinality(MayDouble)

PlaceLeft(place) ==
  CASE place = "done" -> 0 [] place = "receive" -> 1
    [] place = "copy" -> 4 [] place = "wait" -> 5 [] place = "check" -> 6
    [] place = "requeue" -> 7 [] place = "doubling" -> 8 [] place = "deadline" -> 9

ForwarderLeft(place) ==
  CASE place = "ended" -> 0 [] place = "receiving" -> 1
    [] place = "starting" -> 2 [] place = "holding" -> 3

RelayLeft ==
  CASE relay = "ended" -> 0 [] relay = "receiving" -> 1
    [] relay = "starting" -> 2 [] relay = "holding" -> 2

\* The steps that each worker and its forwarder may take before the next retry,
\* and their sum, one by one.
LeftOf == [w \in Workers |-> PlaceLeft(pc[w]) + ForwarderLeft(fwd[w])]
Units(f) == {u \in Workers \X (1..12) : u[2] <= f[u[1]]}
WorkersLeft == Cardinality(Units(LeftOf))

InputLeft == 6 * Cardinality(pending) + (IF closed THEN 0 ELSE 1)
EventsLeft == (IF elsewhere THEN 0 ELSE 1) + (IF othersEnded THEN 0 ELSE 1)
RunLeft ==
  RelayLeft + (IF result = "none" THEN 1 ELSE 0) + (IF crashed THEN 0 ELSE 1) + EventsLeft

StepsLeft == InputLeft + WorkersLeft + RunLeft

\* memlim cancels a copy.
SomeCancel == \E w \in Workers : CopyCancelled(w)

\* A deadline takes from the retries, which nothing restores; any other step
\* takes from the steps before the next retry, and only a cancellation by
\* memlim, however many there are, adds to those.
StepsRunOut ==
  /\ RetriesLeft \in Nat /\ RetriesLeft' \in Nat
  /\ StepsLeft \in Nat /\ StepsLeft' \in Nat
  /\ RetriesLeft' <= RetriesLeft
  /\ SomeCancel \/ RetriesLeft' < RetriesLeft \/ StepsLeft' < StepsLeft

OnlyCancelsProlong == [][StepsRunOut]_vars

\* One worker's part of the sum.
LEMMA UnitsChange ==
  ASSUME NEW f \in [Workers -> 0..12], NEW g \in [Workers -> 0..12], NEW w \in Workers,
         \A v \in Workers \ {w} : g[v] = f[v]
  PROVE  /\ Cardinality(Units(f)) \in Nat /\ Cardinality(Units(g)) \in Nat
         /\ Cardinality(Units(g)) + f[w] = Cardinality(Units(f)) + g[w]
<1> DEFINE rest == {u \in Workers \X (1..12) : u[1] # w /\ u[2] <= f[u[1]]}
           own(n) == {w} \X (1..n)
<1>1. IsFiniteSet(rest) /\ Cardinality(rest) \in Nat
  <2>1. IsFiniteSet(Workers) /\ IsFiniteSet(1..12)
    <3>1. 1 \in Int /\ 12 \in Int
      OBVIOUS
    <3>2. IsFiniteSet(1..12)
      BY ONLY <3>1, FS_Interval
    <3> QED BY <3>2, CopyAssumption
  <2>2. IsFiniteSet(Workers \X (1..12))
    BY <2>1, FS_Product
  <2>3. rest \in SUBSET (Workers \X (1..12))
    OBVIOUS
  <2> QED BY <2>2, <2>3, FS_Subset, FS_CardinalityType
<1>2. ASSUME NEW h \in [Workers -> 0..12], \A v \in Workers \ {w} : h[v] = f[v]
      PROVE  Cardinality(Units(h)) = Cardinality(rest) + h[w]
  <2>1. h[w] \in 0..12
    OBVIOUS
  <2>2. Units(h) = rest \cup own(h[w])
    <3>1. ASSUME NEW u \in Units(h) PROVE u \in rest \cup own(h[w])
      BY <1>2, <3>1 DEF Units
    <3>2. ASSUME NEW u \in rest PROVE u \in Units(h)
      BY <1>2, <3>2 DEF Units
    <3>3. ASSUME NEW u \in own(h[w]) PROVE u \in Units(h)
      <4>1. u[1] = w /\ u[2] \in 1..12 /\ u[2] <= h[w] /\ u = <<u[1], u[2]>>
        BY <2>1, <3>3
      <4> QED BY <4>1 DEF Units
    <3> QED BY <3>1, <3>2, <3>3
  <2>3. rest \cap own(h[w]) = {}
    <3>1. \A u \in own(h[w]) : u[1] = w
      OBVIOUS
    <3> QED BY <3>1
  <2>4. IsFiniteSet(own(h[w])) /\ Cardinality(own(h[w])) = h[w]
    <3>1. IsFiniteSet({w}) /\ Cardinality({w}) = 1
      BY FS_Singleton
    <3>2. IsFiniteSet(1..h[w]) /\ Cardinality(1..h[w]) = h[w]
      BY <2>1, FS_Interval
    <3>3. IsFiniteSet(own(h[w])) /\ Cardinality(own(h[w])) = 1 * h[w]
      BY <3>1, <3>2, FS_Product
    <3> QED BY <2>1, <3>3
  <2> HIDE DEF own, rest
  <2>5. Cardinality(rest \cup own(h[w])) = Cardinality(rest) + h[w] - Cardinality({})
    BY <1>1, <2>3, <2>4, FS_Union
  <2>6. Cardinality({}) = 0
    BY FS_EmptySet
  <2> QED BY <1>1, <2>1, <2>2, <2>5, <2>6
<1>3. Cardinality(Units(f)) = Cardinality(rest) + f[w]
  BY <1>2
<1>4. Cardinality(Units(g)) = Cardinality(rest) + g[w]
  BY <1>2
<1>5. f[w] \in Nat /\ g[w] \in Nat
  OBVIOUS
<1> HIDE DEF rest
<1> QED BY <1>1, <1>3, <1>4, <1>5

LEMMA Weights ==
  /\ PlaceLeft("done") = 0 /\ PlaceLeft("receive") = 1 /\ PlaceLeft("copy") = 4
  /\ PlaceLeft("wait") = 5 /\ PlaceLeft("check") = 6 /\ PlaceLeft("requeue") = 7
  /\ PlaceLeft("doubling") = 8 /\ PlaceLeft("deadline") = 9
  /\ ForwarderLeft("ended") = 0 /\ ForwarderLeft("receiving") = 1
  /\ ForwarderLeft("starting") = 2 /\ ForwarderLeft("holding") = 3
  /\ \A place \in Places : PlaceLeft(place) \in 0..9
  /\ \A place \in Forwarding : ForwarderLeft(place) \in 0..3
<1>1. /\ PlaceLeft("done") = 0 /\ PlaceLeft("receive") = 1 /\ PlaceLeft("copy") = 4
      /\ PlaceLeft("wait") = 5 /\ PlaceLeft("check") = 6 /\ PlaceLeft("requeue") = 7
      /\ PlaceLeft("doubling") = 8 /\ PlaceLeft("deadline") = 9
  BY DEF PlaceLeft
<1>2. /\ ForwarderLeft("ended") = 0 /\ ForwarderLeft("receiving") = 1
      /\ ForwarderLeft("starting") = 2 /\ ForwarderLeft("holding") = 3
  BY DEF ForwarderLeft
<1>3. \A place \in Places : PlaceLeft(place) \in 0..9
  BY <1>1 DEF Places
<1>4. \A place \in Forwarding : ForwarderLeft(place) \in 0..3
  BY <1>2 DEF Forwarding
<1> QED BY <1>1, <1>2, <1>3, <1>4

LeftOfIsSum ==
  /\ LeftOf \in [Workers -> 0..12]
  /\ \A w \in Workers : LeftOf[w] = PlaceLeft(pc[w]) + ForwarderLeft(fwd[w])

LEMMA LeftOfType == TypeOK => LeftOfIsSum
<1> SUFFICES ASSUME TypeOK PROVE LeftOfIsSum
  OBVIOUS
<1>1. ASSUME NEW w \in Workers PROVE PlaceLeft(pc[w]) + ForwarderLeft(fwd[w]) \in 0..12
  <2>1. pc[w] \in Places /\ fwd[w] \in Forwarding
    BY DEF TypeOK
  <2>2. PlaceLeft(pc[w]) \in 0..9 /\ ForwarderLeft(fwd[w]) \in 0..3
    BY <2>1, Weights
  <2> QED BY <2>2
<1> QED BY <1>1 DEF LeftOf, LeftOfIsSum

\* A step of one worker or its forwarder.
LEMMA OneWorker ==
  ASSUME TypeOK, TypeOK', NEW w \in Workers,
         \A v \in Workers \ {w} : pc'[v] = pc[v] /\ fwd'[v] = fwd[v]
  PROVE  /\ WorkersLeft \in Nat /\ WorkersLeft' \in Nat
         /\ WorkersLeft' + (PlaceLeft(pc[w]) + ForwarderLeft(fwd[w]))
              = WorkersLeft + (PlaceLeft(pc'[w]) + ForwarderLeft(fwd'[w]))
<1>1. /\ LeftOf \in [Workers -> 0..12]
      /\ \A v \in Workers : LeftOf[v] = PlaceLeft(pc[v]) + ForwarderLeft(fwd[v])
  BY LeftOfType DEF LeftOfIsSum
<1>2. (TypeOK => LeftOfIsSum)'
  BY LeftOfType, PTL
<1>3. /\ LeftOf' \in [Workers -> 0..12]
      /\ \A v \in Workers : LeftOf'[v] = PlaceLeft(pc'[v]) + ForwarderLeft(fwd'[v])
  BY <1>2 DEF LeftOfIsSum
<1>4. \A v \in Workers \ {w} : LeftOf'[v] = LeftOf[v]
  BY <1>1, <1>3
<1>5. WorkersLeft = Cardinality(Units(LeftOf)) /\ WorkersLeft' = Cardinality(Units(LeftOf'))
  BY DEF WorkersLeft, Units
<1>6. /\ Cardinality(Units(LeftOf)) \in Nat /\ Cardinality(Units(LeftOf')) \in Nat
      /\ Cardinality(Units(LeftOf')) + LeftOf[w] = Cardinality(Units(LeftOf)) + LeftOf'[w]
  BY <1>1, <1>3, <1>4, UnitsChange
<1> QED BY <1>1, <1>3, <1>5, <1>6

\* A rendezvous of two.
LEMMA TwoWorkers ==
  ASSUME TypeOK, TypeOK', NEW v \in Workers, NEW w \in Workers \ {v}, fwd' = fwd,
         \A x \in Workers \ {v, w} : pc'[x] = pc[x]
  PROVE  /\ WorkersLeft \in Nat /\ WorkersLeft' \in Nat
         /\ WorkersLeft' + PlaceLeft(pc[v]) + PlaceLeft(pc[w])
              = WorkersLeft + PlaceLeft(pc'[v]) + PlaceLeft(pc'[w])
<1> DEFINE mid == [LeftOf EXCEPT ![v] = LeftOf'[v]]
<1>1. /\ LeftOf \in [Workers -> 0..12]
      /\ \A x \in Workers : LeftOf[x] = PlaceLeft(pc[x]) + ForwarderLeft(fwd[x])
  BY LeftOfType DEF LeftOfIsSum
<1>2. (TypeOK => LeftOfIsSum)'
  BY LeftOfType, PTL
<1>3. /\ LeftOf' \in [Workers -> 0..12]
      /\ \A x \in Workers : LeftOf'[x] = PlaceLeft(pc'[x]) + ForwarderLeft(fwd[x])
  BY <1>2 DEF LeftOfIsSum
<1>4. /\ mid \in [Workers -> 0..12] /\ mid[v] = LeftOf'[v] /\ mid[w] = LeftOf[w]
      /\ \A x \in Workers \ {v} : mid[x] = LeftOf[x]
      /\ \A x \in Workers \ {w} : LeftOf'[x] = mid[x]
  BY <1>1, <1>3
<1> HIDE DEF mid
<1>5. WorkersLeft = Cardinality(Units(LeftOf)) /\ WorkersLeft' = Cardinality(Units(LeftOf'))
  BY DEF WorkersLeft, Units
<1>6. /\ Cardinality(Units(LeftOf)) \in Nat /\ Cardinality(Units(mid)) \in Nat
      /\ Cardinality(Units(mid)) + LeftOf[v] = Cardinality(Units(LeftOf)) + mid[v]
  BY <1>1, <1>4, UnitsChange
<1>7. /\ Cardinality(Units(LeftOf')) \in Nat
      /\ Cardinality(Units(LeftOf')) + mid[w] = Cardinality(Units(mid)) + LeftOf'[w]
  BY <1>3, <1>4, UnitsChange
<1>8. /\ PlaceLeft(pc[v]) \in Nat /\ PlaceLeft(pc'[v]) \in Nat /\ ForwarderLeft(fwd[v]) \in Nat
      /\ PlaceLeft(pc[w]) \in Nat /\ PlaceLeft(pc'[w]) \in Nat /\ ForwarderLeft(fwd[w]) \in Nat
  <2>1. \A x \in {v, w} : pc[x] \in Places /\ pc'[x] \in Places /\ fwd[x] \in Forwarding
    BY DEF TypeOK
  <2> QED BY <2>1, Weights
<1>9. /\ LeftOf[v] = PlaceLeft(pc[v]) + ForwarderLeft(fwd[v])
      /\ LeftOf[w] = PlaceLeft(pc[w]) + ForwarderLeft(fwd[w])
      /\ LeftOf'[v] = PlaceLeft(pc'[v]) + ForwarderLeft(fwd[v])
      /\ LeftOf'[w] = PlaceLeft(pc'[w]) + ForwarderLeft(fwd[w])
  BY <1>1, <1>3
<1> QED BY <1>4, <1>5, <1>6, <1>7, <1>8, <1>9

LEMMA InputAndRun ==
  ASSUME TypeOK
  PROVE  InputLeft \in Nat /\ RunLeft \in Nat /\ IsFiniteSet(pending)
         /\ Cardinality(pending) \in Nat
<1>1. IsFiniteSet(pending) /\ Cardinality(pending) \in Nat
  BY CopyAssumption, FS_Subset, FS_CardinalityType DEF TypeOK
<1>2. InputLeft \in Nat
  BY <1>1 DEF InputLeft
<1>3. RelayLeft \in Nat
  <2>1. relay \in {"starting", "receiving", "holding", "ended"}
    BY DEF TypeOK, Forwarding
  <2> QED BY <2>1 DEF RelayLeft
<1>4. RunLeft \in Nat
  BY <1>3 DEF RunLeft, EventsLeft
<1> QED BY <1>1, <1>2, <1>4

LEMMA Less ==
  ASSUME NEW a \in Nat, NEW b \in Nat, NEW x \in Nat, NEW y \in Nat,
         b + x = a + y, y < x
  PROVE  b < a
OBVIOUS

\* A deadline costs a worker its doubling, and nothing gives one back.
LEMMA RetriesNeverGrow ==
  ASSUME IInv, Next
  PROVE  /\ RetriesLeft \in Nat /\ RetriesLeft' \in Nat /\ RetriesLeft' <= RetriesLeft
         /\ (\E w \in Workers : DeadlineExceeded(w)) => RetriesLeft' < RetriesLeft
<1> USE DEF IInv
<1>1. IsFiniteSet(MayDouble) /\ RetriesLeft \in Nat /\ RetriesLeft' \in Nat
  <2>1. MayDouble \in SUBSET Workers /\ MayDouble' \in SUBSET Workers
    BY DEF MayDouble
  <2> QED BY <2>1, CopyAssumption, FS_Subset, FS_CardinalityType DEF RetriesLeft
<1>2. ASSUME NEW w \in Workers, DeadlineExceeded(w)
      PROVE  RetriesLeft' = RetriesLeft - 1
  <2>1. /\ timeout = 0 /\ timeout' = 0
        /\ w \in Workers \ Doublers /\ Doublers' = Doublers \cup {w}
    BY <1>2 DEF DeadlineExceeded, Goes, copyVars, Doublers, TypeOK
  <2>2. MayDouble' = MayDouble \ {w} /\ w \in MayDouble
    BY <2>1 DEF MayDouble
  <2>3. Cardinality(MayDouble \ {w}) = Cardinality(MayDouble) - 1
    BY <1>1, <2>2, FS_RemoveElement
  <2> QED BY <2>2, <2>3 DEF RetriesLeft
<1>3. ASSUME NEW w \in Workers, WriteTimeout(w)
      PROVE  RetriesLeft' = 0
  <2>1. timeout' # 0
    BY <1>3 DEF WriteTimeout, StoreTimeout, TypeOK
  <2>2. MayDouble' = {}
    BY <2>1 DEF MayDouble
  <2> QED BY <2>2, FS_EmptySet DEF RetriesLeft
<1>4. ASSUME \A w \in Workers : ~DeadlineExceeded(w) /\ ~WriteTimeout(w)
      PROVE  RetriesLeft' = RetriesLeft
  <2>1. UNCHANGED timeout /\ Doublers' = Doublers
    <3>1. ASSUME NEW w \in Workers, ReadTimeout(w) PROVE UNCHANGED timeout /\ Doublers' = Doublers
      BY <3>1 DEF ReadTimeout, Goes, Doublers, TypeOK
    <3> QED BY <1>4, <3>1, TimeoutSteps
  <2> QED BY <2>1 DEF MayDouble, RetriesLeft
<1>5. CASE \E w \in Workers : DeadlineExceeded(w)
  <2>1. RetriesLeft' = RetriesLeft - 1
    BY <1>2, <1>5
  <2> QED BY <1>1, <2>1
<1>6. CASE \A w \in Workers : ~DeadlineExceeded(w)
  <2>1. RetriesLeft' = 0 \/ RetriesLeft' = RetriesLeft
    BY <1>3, <1>4, <1>6
  <2> QED BY <1>1, <1>6, <2>1
<1> QED BY <1>5, <1>6

\* The steps of a worker alone.
LEMMA WorkerLeaves ==
  ASSUME TypeOK, TypeOK', NEW w \in Workers,
         \/ Leave(w) \/ UpToDate(w) \/ Outdated(w) \/ Admitted(w)
         \/ CopySucceeds(w) \/ CopyFails(w) \/ ReadTimeout(w) \/ WriteTimeout(w)
  PROVE  /\ WorkersLeft \in Nat /\ WorkersLeft' \in Nat /\ WorkersLeft' < WorkersLeft
         /\ InputLeft' = InputLeft /\ RunLeft' = RunLeft
<1> DEFINE p == PlaceLeft(pc[w])  f == ForwarderLeft(fwd[w])
           pp == PlaceLeft(pc'[w])  ff == ForwarderLeft(fwd'[w])
<1>1. /\ UNCHANGED <<channelVars, relay, result, crashed, elsewhere, othersEnded>>
      /\ \A v \in Workers \ {w} : pc'[v] = pc[v] /\ fwd'[v] = fwd[v]
  BY DEF Leave, UpToDate, Outdated, Admitted, CopySucceeds, CopyFails, Settles, Emit,
         ReadTimeout, WriteTimeout, StoreTimeout, Goes, Running, eventVars, otherVars, TypeOK
<1>2. \/ pc[w] = "receive" /\ pc'[w] = "done" /\ fwd'[w] = fwd[w]
      \/ pc[w] = "check" /\ pc'[w] \in {"receive", "wait"} /\ fwd'[w] = fwd[w]
      \/ pc[w] = "wait" /\ pc'[w] = "copy" /\ fwd'[w] = fwd[w]
      \/ pc[w] = "copy" /\ pc'[w] = "receive" /\ fwd'[w] = fwd[w]
      \/ /\ pc[w] = "copy" /\ pc'[w] = "receive"
         /\ fwd[w] = "receiving" /\ fwd'[w] = "holding"
      \/ pc[w] = "deadline" /\ pc'[w] = "doubling" /\ fwd'[w] = fwd[w]
      \/ pc[w] = "doubling" /\ pc'[w] = "requeue" /\ fwd'[w] = fwd[w]
  BY DEF Leave, UpToDate, Outdated, Admitted, CopySucceeds, CopyFails, Settles, Emit,
         ReadTimeout, WriteTimeout, StoreTimeout, Goes, eventVars, TypeOK
<1>3. p \in Nat /\ f \in Nat /\ pp \in Nat /\ ff \in Nat /\ pp + ff < p + f
  <2>1. fwd[w] \in Forwarding
    BY DEF TypeOK
  <2>2. f \in Nat
    BY <2>1, Weights
  <2> QED BY <1>2, <2>2, Weights
<1>4. /\ WorkersLeft \in Nat /\ WorkersLeft' \in Nat
      /\ WorkersLeft' + (p + f) = WorkersLeft + (pp + ff)
  BY <1>1, OneWorker
<1>5. InputLeft' = InputLeft /\ RunLeft' = RunLeft
  BY <1>1 DEF InputLeft, RunLeft, RelayLeft, EventsLeft, channelVars
<1>6. p + f \in Nat /\ pp + ff \in Nat
  BY <1>3
<1> HIDE DEF p, f, pp, ff
<1>7. WorkersLeft' < WorkersLeft
  BY <1>3, <1>4, <1>6, Less
<1> QED BY <1>4, <1>5, <1>7

\* A job is received, from the interleave stage or from another worker.
LEMMA ReceivingLeaves ==
  ASSUME TypeOK, TypeOK',
         \/ \E w \in Workers, j \in Jobs : Receive(w, j)
         \/ \E v \in Workers, w \in Workers : Requeue(v, w)
  PROVE  /\ WorkersLeft \in Nat /\ WorkersLeft' \in Nat /\ RunLeft' = RunLeft
         /\ InputLeft' + WorkersLeft' < InputLeft + WorkersLeft
<1>1. RunLeft' = RunLeft
  <2>1. UNCHANGED <<relay, result, crashed, elsewhere, othersEnded>>
    BY DEF Receive, Requeue, Handover, Goes, Running, eventVars, otherVars
  <2> QED BY <2>1 DEF RunLeft, RelayLeft, EventsLeft
<1>2. ASSUME NEW w \in Workers, NEW j \in Jobs, Receive(w, j)
      PROVE  /\ WorkersLeft \in Nat /\ WorkersLeft' \in Nat
             /\ InputLeft' + WorkersLeft' < InputLeft + WorkersLeft
  <2>1. /\ pc[w] = "receive" /\ pc'[w] = "check" /\ fwd'[w] = fwd[w]
        /\ \A v \in Workers \ {w} : pc'[v] = pc[v] /\ fwd'[v] = fwd[v]
        /\ j \in pending /\ pending' = pending \ {j} /\ closed' = closed
    BY <1>2 DEF Receive, Goes, eventVars, TypeOK
  <2>2. Cardinality(pending') = Cardinality(pending) - 1
    BY <2>1, InputAndRun, FS_RemoveElement
  <2>3. InputLeft' = InputLeft - 6
    BY <2>1, <2>2, InputAndRun DEF InputLeft
  <2>4. ForwarderLeft(fwd[w]) \in Nat
    BY Weights DEF TypeOK
  <2>5. /\ WorkersLeft \in Nat /\ WorkersLeft' \in Nat
        /\ WorkersLeft' + (1 + ForwarderLeft(fwd[w])) = WorkersLeft + (6 + ForwarderLeft(fwd[w]))
    BY <2>1, OneWorker, Weights
  <2> QED BY <2>3, <2>4, <2>5, InputAndRun
<1>3. ASSUME NEW v \in Workers, NEW w \in Workers, Requeue(v, w)
      PROVE  /\ WorkersLeft \in Nat /\ WorkersLeft' \in Nat
             /\ InputLeft' + WorkersLeft' < InputLeft + WorkersLeft
  <2>1. /\ pc[v] = "requeue" /\ pc[w] = "receive" /\ w \in Workers \ {v}
        /\ pc'[v] = "receive" /\ pc'[w] = "check" /\ fwd' = fwd
        /\ \A x \in Workers \ {v, w} : pc'[x] = pc[x]
        /\ UNCHANGED channelVars
    BY <1>3 DEF Requeue, Handover, eventVars, TypeOK
  <2>2. InputLeft' = InputLeft
    BY <2>1 DEF InputLeft, channelVars
  <2>3. WorkersLeft \in Nat /\ WorkersLeft' \in Nat /\ WorkersLeft' + 7 + 1 = WorkersLeft + 1 + 6
    BY <2>1, TwoWorkers, Weights
  <2>4. InputLeft \in Nat
    BY InputAndRun
  <2>5. \A i \in Nat, m \in Nat, n \in Nat : n + 7 + 1 = m + 1 + 6 => i + n < i + m
    OBVIOUS
  <2> QED BY ONLY <2>2, <2>3, <2>4, <2>5
<1> QED BY <1>1, <1>2, <1>3

\* The steps of the forwarders, of Run, and the closing of the channel.
LEMMA EventLeaves ==
  ASSUME TypeOK, TypeOK',
         \/ CloseInput \/ RelayStarts \/ ProcessEvent \/ RelayEnds
         \/ FailElsewhere \/ OthersEnd \/ Return
         \/ \E w \in Workers : \/ SendOnClosed(w) \/ ForwarderStarts(w)
                               \/ Forward(w) \/ ForwarderEnds(w)
  PROVE  \/ InputLeft' < InputLeft /\ WorkersLeft' = WorkersLeft /\ RunLeft' = RunLeft
         \/ InputLeft' = InputLeft /\ WorkersLeft' = WorkersLeft /\ RunLeft' < RunLeft
         \/ /\ InputLeft' = InputLeft /\ RunLeft' <= RunLeft + 1
            /\ WorkersLeft' = WorkersLeft - 2
         \/ /\ InputLeft' = InputLeft /\ RunLeft' = RunLeft
            /\ WorkersLeft' = WorkersLeft - 1
<1>1. CASE CloseInput
  <2>1. /\ ~closed /\ closed' /\ pending' = pending
        /\ UNCHANGED <<pc, fwd, relay, result, crashed, EventsLeft>>
    BY <1>1 DEF CloseInput, Running, workerVars, eventVars, otherVars, EventsLeft
  <2>2. InputLeft' < InputLeft
    BY <2>1, InputAndRun DEF InputLeft
  <2>3. WorkersLeft' = WorkersLeft /\ RunLeft' = RunLeft
    BY <2>1 DEF WorkersLeft, Units, LeftOf, RunLeft, RelayLeft
  <2> QED BY <2>2, <2>3
<1>2. CASE \E w \in Workers : SendOnClosed(w)
  <2>1. ~crashed /\ crashed' /\ UNCHANGED <<channelVars, pc, fwd, relay, result, EventsLeft>>
    BY <1>2 DEF SendOnClosed, workerVars, eventVars, otherVars, EventsLeft
  <2>2. InputLeft' = InputLeft /\ WorkersLeft' = WorkersLeft
    BY <2>1 DEF WorkersLeft, Units, LeftOf, InputLeft, channelVars
  <2>3. RunLeft' < RunLeft
    <3>1. RelayLeft' = RelayLeft /\ RelayLeft \in Nat
      BY <2>1, InputAndRun DEF RelayLeft, TypeOK, Forwarding
    <3>2. EventsLeft \in Nat /\ EventsLeft' = EventsLeft
      BY <2>1 DEF EventsLeft
    <3> QED BY <2>1, <3>1, <3>2 DEF RunLeft
  <2> QED BY <2>2, <2>3
<1>3. CASE RelayStarts \/ ProcessEvent \/ RelayEnds \/ Return
  <2>1. /\ UNCHANGED <<channelVars, pc, fwd, crashed, EventsLeft>>
        /\ \/ relay = "starting" /\ relay' = "receiving" /\ result' = result
           \/ relay = "holding" /\ relay' = "receiving" /\ result' = result
           \/ relay = "receiving" /\ relay' = "ended" /\ result' = result
           \/ relay' = relay /\ result = "none" /\ result' # "none"
    BY <1>3 DEF RelayStarts, ProcessEvent, RelayEnds, Return, RelayGoes, Running,
                workerVars, otherVars, EventsLeft
  <2>2. InputLeft' = InputLeft /\ WorkersLeft' = WorkersLeft
    BY <2>1 DEF WorkersLeft, Units, LeftOf, InputLeft, channelVars
  <2>e. EventsLeft \in Nat /\ EventsLeft' = EventsLeft
    BY <2>1 DEF EventsLeft
  <2>3. CASE relay' = relay /\ result = "none" /\ result' # "none"
    <3>1. RelayLeft' = RelayLeft /\ RelayLeft \in {0, 1, 2}
      BY <2>3 DEF RelayLeft, TypeOK, Forwarding
    <3>2. RunLeft' < RunLeft
      BY <2>1, <2>e, <2>3, <3>1 DEF RunLeft
    <3> QED BY <2>2, <3>2
  <2>4. CASE relay # relay' /\ result' = result
    <3>1. \/ RelayLeft = 2 /\ RelayLeft' = 1
          \/ RelayLeft = 1 /\ RelayLeft' = 0
      BY <2>1, <2>4 DEF RelayLeft
    <3>2. RunLeft' < RunLeft
      BY <2>1, <2>e, <2>4, <3>1 DEF RunLeft
    <3> QED BY <2>2, <3>2
  <2> QED BY <2>1, <2>3, <2>4
<1>4. ASSUME NEW w \in Workers, Forward(w)
      PROVE  /\ InputLeft' = InputLeft /\ RunLeft' <= RunLeft + 1
             /\ WorkersLeft' = WorkersLeft - 2
  <2>1. /\ UNCHANGED <<channelVars, pc, result, crashed, EventsLeft>>
        /\ fwd[w] = "holding" /\ fwd'[w] = "receiving"
        /\ \A v \in Workers \ {w} : pc'[v] = pc[v] /\ fwd'[v] = fwd[v]
        /\ relay = "receiving" /\ relay' = "holding"
    BY <1>4 DEF Forward, Forwards, Running, workerVars, otherVars, EventsLeft, TypeOK
  <2>2. InputLeft' = InputLeft
    BY <2>1 DEF InputLeft, channelVars
  <2>3. RunLeft' <= RunLeft + 1
    <3>1. EventsLeft \in Nat /\ EventsLeft' = EventsLeft
      BY <2>1 DEF EventsLeft
    <3> QED BY <2>1, <3>1 DEF RunLeft, RelayLeft
  <2>4. PlaceLeft(pc[w]) \in Nat /\ pc'[w] = pc[w]
    BY <2>1, Weights DEF TypeOK
  <2>5. /\ WorkersLeft \in Nat /\ WorkersLeft' \in Nat
        /\ WorkersLeft' + (PlaceLeft(pc[w]) + 3) = WorkersLeft + (PlaceLeft(pc[w]) + 1)
    BY <2>1, <2>4, OneWorker, Weights
  <2> QED BY <2>2, <2>3, <2>4, <2>5
<1>5. ASSUME NEW w \in Workers, ForwarderStarts(w) \/ ForwarderEnds(w)
      PROVE  /\ InputLeft' = InputLeft /\ RunLeft' = RunLeft
             /\ WorkersLeft' = WorkersLeft - 1
  <2>1. /\ UNCHANGED <<channelVars, pc, result, crashed, relay, EventsLeft>>
        /\ \A v \in Workers \ {w} : pc'[v] = pc[v] /\ fwd'[v] = fwd[v]
        /\ \/ fwd[w] = "starting" /\ fwd'[w] = "receiving"
           \/ fwd[w] = "receiving" /\ fwd'[w] = "ended"
    BY <1>5 DEF ForwarderStarts, ForwarderEnds, Forwards, Running, workerVars, otherVars,
                EventsLeft, TypeOK
  <2>2. InputLeft' = InputLeft /\ RunLeft' = RunLeft
    BY <2>1 DEF InputLeft, channelVars, RunLeft, RelayLeft
  <2>3. PlaceLeft(pc[w]) \in Nat /\ pc'[w] = pc[w]
    BY <2>1, Weights DEF TypeOK
  <2>4. \E n \in Nat : ForwarderLeft(fwd[w]) = n + 1 /\ ForwarderLeft(fwd'[w]) = n
    BY <2>1, Weights
  <2>5. PICK n \in Nat : ForwarderLeft(fwd[w]) = n + 1 /\ ForwarderLeft(fwd'[w]) = n
    BY <2>4
  <2>6. /\ WorkersLeft \in Nat /\ WorkersLeft' \in Nat
        /\ WorkersLeft' + (PlaceLeft(pc[w]) + (n + 1)) = WorkersLeft + (PlaceLeft(pc[w]) + n)
    BY <2>1, <2>3, <2>5, OneWorker
  <2> QED BY <2>2, <2>3, <2>6
<1>6. CASE FailElsewhere \/ OthersEnd
  <2>1. /\ UNCHANGED <<channelVars, pc, fwd, relay, result, crashed>>
        /\ \/ ~elsewhere /\ elsewhere' /\ othersEnded' = othersEnded
           \/ ~othersEnded /\ othersEnded' /\ elsewhere' = elsewhere
    BY <1>6 DEF FailElsewhere, OthersEnd, Running, workerVars
  <2>2. InputLeft' = InputLeft /\ WorkersLeft' = WorkersLeft
    BY <2>1 DEF WorkersLeft, Units, LeftOf, InputLeft, channelVars
  <2>3. /\ RelayLeft' = RelayLeft /\ RelayLeft \in Nat
        /\ EventsLeft \in Nat /\ EventsLeft' \in Nat /\ EventsLeft' < EventsLeft
    BY <2>1, InputAndRun DEF RelayLeft, EventsLeft, TypeOK, Forwarding
  <2>4. RunLeft' < RunLeft
    <3>1. \E x \in Nat : /\ (IF result = "none" THEN 1 ELSE 0) = x
                       /\ (IF result' = "none" THEN 1 ELSE 0) = x
      BY <2>1
    <3>2. \E y \in Nat : /\ (IF crashed THEN 0 ELSE 1) = y
                       /\ (IF crashed' THEN 0 ELSE 1) = y
      BY <2>1
    <3>3. PICK x \in Nat, y \in Nat :
            /\ RunLeft = RelayLeft + x + y + EventsLeft
            /\ RunLeft' = RelayLeft' + x + y + EventsLeft'
      BY <3>1, <3>2 DEF RunLeft
    <3>4. \A a \in Nat, b \in Nat, d \in Nat, m \in Nat, n \in Nat :
            m < n => a + b + d + m < a + b + d + n
      OBVIOUS
    <3> QED BY <2>3, <3>3, <3>4
  <2> QED BY <2>2, <2>4
<1> QED BY <1>1, <1>2, <1>3, <1>4, <1>5, <1>6

AllLeft == InputLeft \in Nat /\ WorkersLeft \in Nat /\ RunLeft \in Nat

LEMMA LeftType == TypeOK => AllLeft
<1> SUFFICES ASSUME TypeOK PROVE AllLeft
  OBVIOUS
<1>1. LeftOf \in [Workers -> 0..12]
  BY LeftOfType DEF LeftOfIsSum
<1>2. PICK w \in Workers : TRUE
  BY CopyAssumption
<1>3. Cardinality(Units(LeftOf)) \in Nat
  BY <1>1, <1>2, UnitsChange
<1> QED BY <1>3, InputAndRun DEF AllLeft, WorkersLeft

\* The copy stage comes to rest between the cancellations of memlim: an
\* expired copy is requeued at most once per worker, and between two retries
\* only so many steps are taken, whatever the interleaving of the workers,
\* the forwarders and Run.  A run that never rests is therefore one in which
\* memlim cancels copies again and again.  With OnlyRequeuesGetStuck this is
\* Ends but for the step from a measure to a liveness formula.
THEOREM RestBetweenCancels == Spec => OnlyCancelsProlong
<1> DEFINE R == RetriesLeft  S == StepsLeft
<1>1. ASSUME IInv, Next, vars' # vars PROVE StepsRunOut
  <2>1. TypeOK /\ TypeOK'
    <3>1. TypeOK /\ [Next]_vars
      BY <1>1 DEF IInv
    <3> QED BY <3>1, TypeStep
  <2>2. /\ R \in Nat /\ R' \in Nat /\ R' <= R
        /\ (\E w \in Workers : DeadlineExceeded(w)) => R' < R
    BY <1>1, RetriesNeverGrow
  <2>3. AllLeft /\ AllLeft'
    <3>1. (TypeOK => AllLeft)'
      BY LeftType, PTL
    <3> QED BY <2>1, <3>1, LeftType
  <2> DEFINE i == InputLeft  u == WorkersLeft  r == RunLeft
  <2>4. /\ i \in Nat /\ i' \in Nat /\ u \in Nat /\ u' \in Nat /\ r \in Nat /\ r' \in Nat
        /\ S = i + u + r /\ S' = i' + u' + r'
    BY <2>3 DEF AllLeft, StepsLeft
  <2>5. S \in Nat /\ S' \in Nat
    <3>1. \A x \in Nat, y \in Nat, z \in Nat : x + y + z \in Nat
      OBVIOUS
    <3> HIDE DEF i, u, r, S
    <3> QED BY <2>4, <3>1
  <2>6. CASE \E w \in Workers : DeadlineExceeded(w) \/ CopyCancelled(w)
    BY <2>2, <2>5, <2>6 DEF StepsRunOut, SomeCancel
  <2>7. CASE \E w \in Workers :
               \/ Leave(w) \/ UpToDate(w) \/ Outdated(w) \/ Admitted(w)
               \/ CopySucceeds(w) \/ CopyFails(w) \/ ReadTimeout(w) \/ WriteTimeout(w)
    <3>1. u' < u /\ i' = i /\ r' = r
      BY <2>1, <2>7, WorkerLeaves
    <3>2. \A x \in Nat, y \in Nat, z \in Nat, m \in Nat : m < y => x + m + z < x + y + z
      OBVIOUS
    <3> HIDE DEF i, u, r, S, R
    <3>3. S' < S
      BY <2>4, <3>1, <3>2
    <3> QED BY <2>2, <2>5, <3>3 DEF StepsRunOut, R, S
  <2>8. CASE \/ \E w \in Workers, j \in Jobs : Receive(w, j)
             \/ \E v \in Workers, w \in Workers : Requeue(v, w)
    <3>1. i' + u' < i + u /\ r' = r
      BY <2>1, <2>8, ReceivingLeaves
    <3>2. \A x \in Nat, y \in Nat, z \in Nat, l \in Nat, m \in Nat :
             l + m < x + y => l + m + z < x + y + z
      OBVIOUS
    <3> HIDE DEF i, u, r, S, R
    <3>3. S' < S
      BY <2>4, <3>1, <3>2
    <3> QED BY <2>2, <2>5, <3>3 DEF StepsRunOut, R, S
  <2>9. CASE \/ CloseInput \/ RelayStarts \/ ProcessEvent \/ RelayEnds
             \/ FailElsewhere \/ OthersEnd \/ Return
             \/ \E w \in Workers : \/ SendOnClosed(w) \/ ForwarderStarts(w)
                                   \/ Forward(w) \/ ForwarderEnds(w)
    <3>1. \/ i' < i /\ u' = u /\ r' = r
          \/ i' = i /\ u' = u /\ r' < r
          \/ i' = i /\ r' <= r + 1 /\ u' = u - 2
          \/ i' = i /\ r' = r /\ u' = u - 1
      BY <2>1, <2>9, EventLeaves
    <3>2. \A x \in Nat, y \in Nat, z \in Nat, l \in Nat, m \in Nat, n \in Nat :
             \/ l < x /\ m = y /\ n = z
             \/ l = x /\ m = y /\ n < z
             \/ l = x /\ n <= z + 1 /\ m = y - 2
             \/ l = x /\ n = z /\ m = y - 1
             => l + m + n < x + y + z
      OBVIOUS
    <3> HIDE DEF i, u, r, S, R
    <3>3. S' < S
      BY ONLY <2>4, <3>1, <3>2
    <3> QED BY <2>2, <2>5, <3>3 DEF StepsRunOut, R, S
  <2>10. ~Halted
    BY <1>1 DEF Halted
  <2> QED BY <1>1, <2>6, <2>7, <2>8, <2>9, <2>10 DEF Next
<1>2. IInv /\ [Next]_vars => [StepsRunOut]_vars
  BY <1>1
<1> QED BY <1>2, CopyInvariant, PTL DEF Spec, OnlyCancelsProlong
=============================================================================
