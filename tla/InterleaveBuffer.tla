-------------------------- MODULE InterleaveBuffer --------------------------
(***************************************************************************)
(* The interleave stage: the goroutine of Runner.interleave (pkg/cim/      *)
(* run.go) and the InterleaveBuffer it drives (pkg/cim/                    *)
(* interleave_buffer.go).                                                  *)
(*                                                                         *)
(* The goroutine calls Tick for every job it receives, passes on the job   *)
(* Tick returns, if any, and calls FlushBuffer when its input is closed.   *)
(* FlushBuffer empties the closed buffer through the Tick of a fresh one   *)
(* and, if that one kept two jobs or more, calls itself on it: a tail      *)
(* call, so the recursion is a loop over a pair of buffers, `drain` (the   *)
(* receiver) and `buf` (flushBuf).  One action is one iteration of one of  *)
(* the loops; nothing but the goroutine touches this state.                *)
(*                                                                         *)
(* A job is its pointer, a member of Jobs; ImageOf is what stripTag makes  *)
(* of its destination reference.  The epoch is a natural number: it counts *)
(* the jobs the buffer has returned and does not reach 2^64.               *)
(***************************************************************************)
EXTENDS Naturals, Sequences, FiniteSets, Functions

CONSTANTS
  Jobs,        \* the copy jobs the stage may receive
  Images,      \* destination repositories
  ImageOf,     \* the destination repository of a job
  Interval,    \* InterleaveBuffer.cap, the number of parallel copy jobs
  BufferSize   \* ConfigBufferSize, the capacity of the channel buf

ASSUME InterleaveAssumption ==
  /\ ImageOf \in [Jobs -> Images]
  /\ Interval \in Nat
  /\ BufferSize \in Nat \ {0}

VARIABLES
  phase,    \* where the goroutine is
  offered,  \* jobs the input channel has not handed over
  hand,     \* the argument of a Tick that is blocked on a full buffer
  drain,    \* the closed buffer a FlushBuffer call is emptying
  buf,      \* the channel of the InterleaveBuffer being ticked
  filter,   \* its map from image to the epoch the image expires
  epoch,    \* its epoch
  out       \* jobs sent to the copy stage, in order

vars == <<phase, offered, hand, drain, buf, filter, epoch, out>>

Phases == {"ticking", "blocked", "flushing", "done"}

NoEntries == [i \in {} |-> 0]

TypeOK ==
  /\ phase \in Phases
  /\ offered \subseteq Jobs
  /\ hand \subseteq Jobs
  /\ drain \in Seq(Jobs)
  /\ buf \in Seq(Jobs)
  /\ DOMAIN filter \subseteq Images
  /\ filter \in [DOMAIN filter -> Nat]
  /\ epoch \in Nat
  /\ out \in Seq(Jobs)

Init ==
  /\ phase = "ticking"
  /\ offered = Jobs
  /\ hand = {}
  /\ drain = <<>>
  /\ buf = <<>>
  /\ filter = NoEntries
  /\ epoch = 0
  /\ out = <<>>

-----------------------------------------------------------------------------
(* InterleaveBuffer.Tick *)

\* The image of j is not in the filter, or its entry has expired.
Fresh(j) ==
  ImageOf[j] \in DOMAIN filter => filter[ImageOf[j]] <= epoch

\* Mutant of Remember: the entry lives one epoch too short.
RememberShort(j) ==
  [i \in DOMAIN filter \cup {ImageOf[j]} |->
     IF i = ImageOf[j]
     THEN IF Interval = 0 THEN epoch ELSE epoch + Interval - 1
     ELSE filter[i]]

Remember(j) ==
  [i \in DOMAIN filter \cup {ImageOf[j]} |->
     IF i = ImageOf[j] THEN epoch + Interval ELSE filter[i]]

\* Tick returns j.
Emit(j) ==
  /\ filter' = Remember(j)
  /\ epoch' = epoch + 1
  /\ out' = Append(out, j)

\* The positions of s the scan over the buffer stops at: the first job whose
\* image has no entry in the filter, even if the entry has expired.
Unfiltered(s) ==
  {k \in 1..Len(s) : /\ ImageOf[s[k]] \notin DOMAIN filter
                     /\ \A i \in 1..(k - 1) : ImageOf[s[i]] \in DOMAIN filter}

\* s after the scan has moved the k - 1 jobs it skipped to the back and
\* taken the k-th out.
Rotated(s, k) == SubSeq(s, k + 1, Len(s)) \o SubSeq(s, 1, k - 1)

TickPass(j) ==
  /\ Fresh(j)
  /\ Emit(j)
  /\ UNCHANGED buf

\* Mutant of TickKeep: a round that returns nil moves the epoch.
TickKeepCounts(j) ==
  /\ ~Fresh(j)
  /\ Len(buf) < BufferSize
  /\ buf' = Append(buf, j)
  /\ epoch' = epoch - 1
  /\ UNCHANGED <<filter, out>>

\* Mutant of TickKeep: the job it buffers is also returned.
TickKeepAndReturn(j) ==
  /\ ~Fresh(j)
  /\ Len(buf) < BufferSize
  /\ buf' = Append(buf, j)
  /\ Emit(j)

\* j goes into the buffer, and the scan replaces it or cycles all the buffer
\* and changes nothing.
TickKeep(j) ==
  LET full == Append(buf, j) IN
  /\ ~Fresh(j)
  /\ Len(buf) < BufferSize
  /\ IF Unfiltered(full) = {}
     THEN /\ buf' = full
          /\ UNCHANGED <<filter, epoch, out>>
     ELSE \E k \in Unfiltered(full) :
            /\ buf' = Rotated(full, k)
            /\ Emit(full[k])

-----------------------------------------------------------------------------
(* Runner.interleave *)

Receive(j) ==
  /\ phase = "ticking"
  /\ j \in offered
  /\ offered' = offered \ {j}

TickInput(j) ==
  /\ Receive(j)
  /\ TickPass(j) \/ TickKeep(j)
  /\ UNCHANGED <<phase, hand, drain>>

\* Mutant of TickBlocks: the channel blocks one job too early.
TickBlocksEarly(j) ==
  /\ Receive(j)
  /\ ~Fresh(j)
  /\ Len(buf) + 1 >= BufferSize
  /\ phase' = "blocked"
  /\ hand' = {j}
  /\ UNCHANGED <<drain, buf, filter, epoch, out>>

\* i.buf <- in, with no room: the only receiver of the channel is the
\* goroutine itself, which never runs again.
TickBlocks(j) ==
  /\ Receive(j)
  /\ ~Fresh(j)
  /\ Len(buf) >= BufferSize
  /\ phase' = "blocked"
  /\ hand' = {j}
  /\ UNCHANGED <<drain, buf, filter, epoch, out>>

-----------------------------------------------------------------------------
(* InterleaveBuffer.FlushBuffer *)

\* Mutant of EnterFlush: the old buffer is not replaced.
EnterFlushKeepsBuffer ==
  /\ drain' = buf
  /\ buf' = buf
  /\ filter' = NoEntries
  /\ epoch' = 0

\* Close the buffer and make a fresh one to empty it through.
EnterFlush ==
  /\ drain' = buf
  /\ buf' = <<>>
  /\ filter' = NoEntries
  /\ epoch' = 0

\* The input is closed: transform may close it after any number of jobs.
InputClosed ==
  /\ phase = "ticking"
  /\ phase' = "flushing"
  /\ EnterFlush
  /\ UNCHANGED <<offered, hand, out>>

FlushTick ==
  /\ phase = "flushing"
  /\ drain # <<>>
  /\ drain' = Tail(drain)
  /\ TickPass(Head(drain)) \/ TickKeep(Head(drain))
  /\ UNCHANGED <<phase, offered, hand>>

FlushAgain ==
  /\ phase = "flushing"
  /\ drain = <<>>
  /\ Len(buf) > 1
  /\ EnterFlush
  /\ UNCHANGED <<phase, offered, hand, out>>

\* Mutant of FlushLast: the last buffer is closed without sending its job.
FlushLastDrops ==
  /\ phase = "flushing"
  /\ drain = <<>>
  /\ Len(buf) <= 1
  /\ phase' = "done"
  /\ buf' = <<>>
  /\ UNCHANGED <<offered, hand, drain, filter, epoch, out>>

FlushLast ==
  /\ phase = "flushing"
  /\ drain = <<>>
  /\ Len(buf) <= 1
  /\ phase' = "done"
  /\ out' = out \o buf
  /\ buf' = <<>>
  /\ UNCHANGED <<offered, hand, drain, filter, epoch>>

Halted == phase \in {"done", "blocked"} /\ UNCHANGED vars

Next ==
  \/ \E j \in Jobs : TickInput(j) \/ TickBlocks(j)
  \/ InputClosed
  \/ FlushTick
  \/ FlushAgain
  \/ FlushLast
  \/ Halted

\* The goroutine is scheduled while it can run, and its input is closed at
\* last: transform closes it when its own input ends.
Fairness == WF_vars(Next)

Spec == Init /\ [][Next]_vars /\ Fairness

-----------------------------------------------------------------------------
(* Properties *)

\* Every job the goroutine has received is in exactly one place, once: sent,
\* in a buffer, or in the hand of the blocked Tick.  This is what
\* Test_InterleaveBuffer samples with ElementsMatch, for one input.
EveryJobOnce ==
  /\ IsInjective(out) /\ IsInjective(drain) /\ IsInjective(buf)
  /\ Range(out) \cap Range(drain) = {}
  /\ Range(out) \cap Range(buf) = {}
  /\ Range(drain) \cap Range(buf) = {}
  /\ hand \cap offered = {}
  /\ Range(out) \cup Range(drain) \cup Range(buf) = (Jobs \ offered) \ hand

\* Two jobs of one image that one buffer has returned are at least Interval
\* jobs apart, so that with Interval copy workers the second finds the first
\* one's worker free if all jobs take as long.  A buffer's own jobs are the
\* last `epoch` sent ones: the epoch stands still in a Tick that returns nil.
Spacing ==
  phase # "done" =>
    \A m \in 1..Len(out), n \in 1..Len(out) :
      /\ Len(out) < m + epoch
      /\ m < n
      /\ ImageOf[out[m]] = ImageOf[out[n]]
      => m + Interval <= n

\* FlushBuffer never blocks: its fresh buffer has room for whatever the
\* closed one still holds, although both have the same capacity.
FlushHasRoom ==
  phase = "flushing" => Len(drain) + Len(buf) <= BufferSize

\* The goroutine blocks only on more than BufferSize jobs on top of one per
\* image: ConfigGlobalTagLimit, which nothing enforces, is what keeps the
\* stage from stopping for good.
BlocksOnlyBeyondLimit ==
  phase = "blocked" =>
    Cardinality(Jobs \ offered) > BufferSize + Cardinality(DOMAIN filter)

\* The stage ends and all it has received has been sent.
AllDelivered ==
  <>(phase = "done" /\ Range(out) = Jobs \ offered)

\* The interleave stage implements a relay.  A job in the hand of a blocked
\* Tick counts as not taken.
Relay == INSTANCE JobRelay
           WITH open      <- phase \in {"ticking", "blocked"},
                offered   <- offered \cup hand,
                held      <- Range(drain) \cup Range(buf),
                delivered <- Range(out)

ImplementsRelay == Relay!RelaySpec

\* The stage ends and all it has received has been sent, unless it blocks:
\* whatever the order of the jobs, FlushBuffer calls itself only so often.
DeliveredUnlessBlocked ==
  <>(phase = "blocked" \/ (phase = "done" /\ Range(out) = Jobs \ offered))
=============================================================================
