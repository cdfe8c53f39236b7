------------------------------- MODULE MemLim -------------------------------
(***************************************************************************)
(* The memory limiter (pkg/memlim/memlim.go).  Copy workers append a       *)
(* request to a queue and wait for its channel; a timer admits one queued  *)
(* request at a time while memory allows.  Only the timer takes the lock   *)
(* runmx, so every update of a variable they share is a load and a store.  *)
(*                                                                         *)
(* The queue is a slice: an append writes behind the length it has loaded, *)
(* a removal shifts the array in place.  The array is large enough; that   *)
(* it grows is not modelled.  Run gives a hint before the first request    *)
(* (run.go:83), so freedmemhints is set.                                   *)
(***************************************************************************)
EXTENDS Integers, FiniteSets, Sequences

CONSTANTS
  Requests,   \* calls of WaitForFreeMemory
  Size,       \* RequestedMem of each
  NumCallers, \* copy workers, each with one call at a time
  Shedders,   \* bound: the calls of shedLoad
  Slots,      \* bound: the capacity of the queue
  Limit,      \* memlimit
  Word,       \* unsigned integers are modulo Word
  Allocs,     \* values of ReadMemAlloc
  Nobody      \* no request

ASSUME MemLimAssumption ==
  /\ IsFiniteSet(Requests) /\ Nobody \notin Requests
  /\ NumCallers \in Nat /\ Slots \in Nat
  /\ Limit \in Nat \ {0} /\ Word \in Nat /\ Limit < Word
  /\ Size \in [Requests -> 0 .. Word - 1]
  /\ Allocs \subseteq 0 .. Word - 1

VARIABLES
  slots, len, \* queue: its array and its length
  active,     \* activeGoRoutines
  memtrack,
  released,   \* the requests whose waitCh is closed
  req,        \* where each request is, and the value its goroutine has loaded
  mgr,        \* where runMemoryManagement is, and its local variables
  shed,       \* the same for each shedLoad
  killed,     \* the requests whose cancelFnc has been called
  crashed,    \* the process has panicked
  raced       \* history: two updates of the queue or of memtrack overlapped

vars == <<slots, len, active, memtrack, released, req, mgr, shed, killed, crashed, raced>>

\* In "hinting" the copy has ended; "freeing" is within FreedMemHint.
Places == {"new", "appending", "written", "waiting", "running", "hinting", "freeing", "done"}

RequestStates == [pc : Places, seen : Nat]
ManagerStates ==
  [pc : {"idle", "scan", "activate", "remove", "track"}, seen : Nat, at : 0..Slots,
   picked : Requests \cup {Nobody}, list : Seq(Requests)]
ShedStates == [pc : {"new", "started", "killing", "ended"}, list : Seq(Requests)]

TypeOK ==
  /\ slots \in [1..Slots -> Requests \cup {Nobody}] /\ len \in 0..Slots
  /\ active \in Seq(Requests)
  /\ memtrack \in 0 .. Word - 1
  /\ released \subseteq Requests /\ killed \subseteq Requests
  /\ req \in [Requests -> RequestStates]
  /\ mgr \in ManagerStates
  /\ shed \in [Shedders -> ShedStates]
  /\ crashed \in BOOLEAN /\ raced \in BOOLEAN

Idle == [pc |-> "idle", seen |-> 0, at |-> 0, picked |-> Nobody, list |-> <<>>]

Init ==
  /\ slots = [i \in 1..Slots |-> Nobody] /\ len = 0
  /\ active = <<>>
  /\ memtrack = 0
  /\ released = {} /\ killed = {}
  /\ req = [r \in Requests |-> [pc |-> "new", seen |-> 0]]
  /\ mgr = Idle
  /\ shed = [s \in Shedders |-> [pc |-> "new", list |-> <<>>]]
  /\ crashed = FALSE /\ raced = FALSE

At(places) == {r \in Requests : req[r].pc \in places}

\* Someone is between its load and its store of the queue or of memtrack.
QueueBusy == At({"appending", "written"}) # {} \/ mgr.pc = "remove"
TrackBusy == At({"freeing"}) # {} \/ mgr.pc = "track"

-----------------------------------------------------------------------------
(* WaitForFreeMemory and FreedMemHint *)

Goes(r, from, to, seen) ==
  /\ ~crashed
  /\ req[r].pc = from
  /\ req' = [req EXCEPT ![r] = [pc |-> to, seen |-> seen]]
  /\ UNCHANGED <<active, released, mgr, shed, killed, crashed>>

\* A worker calls WaitForFreeMemory, and append loads the queue.
Call(r) ==
  /\ Cardinality(At({"appending", "written", "waiting", "running"})) < NumCallers
  /\ Goes(r, "new", "appending", len)
  /\ raced' = (raced \/ QueueBusy)
  /\ UNCHANGED <<slots, len, memtrack>>

AppendWrite(r) ==
  /\ Goes(r, "appending", "written", req[r].seen)
  /\ req[r].seen < Slots
  /\ slots' = [slots EXCEPT ![req[r].seen + 1] = r]
  /\ UNCHANGED <<len, memtrack, raced>>

AppendStore(r) ==
  /\ Goes(r, "written", "waiting", 0)
  /\ len' = req[r].seen + 1
  /\ UNCHANGED <<slots, memtrack, raced>>

\* r receives from its closed channel and its copy starts.
Proceed(r) ==
  /\ r \in released
  /\ Goes(r, "waiting", "running", 0)
  /\ UNCHANGED <<slots, len, memtrack, raced>>

\* The worker goes on; the hint is still to come.
CopyEnds(r) == Goes(r, "running", "hinting", 0) /\ UNCHANGED <<slots, len, memtrack, raced>>

\* memtrack -= freedMemBytes
HintLoad(r) ==
  /\ Goes(r, "hinting", "freeing", memtrack)
  /\ raced' = (raced \/ TrackBusy)
  /\ UNCHANGED <<slots, len, memtrack>>

StoreHint(r, m) ==
  /\ Goes(r, "freeing", "done", 0)
  /\ memtrack' = m
  /\ UNCHANGED <<slots, len, raced>>

\* Mutants of HintStore: a signed memtrack; nothing is subtracted.
HintStoreSigned(r) == StoreHint(r, req[r].seen - Size[r])
HintStoreForgets(r) == StoreHint(r, req[r].seen)

HintStore(r) == StoreHint(r, (req[r].seen - Size[r]) % Word)

-----------------------------------------------------------------------------
(* runMemoryManagement and shedLoad *)

Manages(from, m) ==
  /\ ~crashed
  /\ mgr.pc = from
  /\ mgr' = m
  /\ UNCHANGED <<req, killed>>

\* Mutant of Used: hints are ignored.
UsedAllocated(alloc) == alloc

Used(alloc) == IF memtrack > alloc THEN memtrack ELSE alloc
Available(alloc) == (Limit - Used(alloc)) % Word

\* fac > 1.1: shedLoad starts in a goroutine of its own.
TickSheds ==
  /\ Manages("idle", Idle)
  /\ \E alloc \in Allocs : 10 * alloc > 11 * Limit
  /\ \E s \in Shedders : shed[s].pc = "new" /\ shed' = [shed EXCEPT ![s].pc = "started"]
  /\ UNCHANGED <<slots, len, active, memtrack, released, crashed, raced>>

\* fac < 0.8; for a fac in between only the garbage collector is called.
TickAdmits(alloc) ==
  /\ 10 * alloc < 8 * Limit
  /\ Manages("idle", [Idle EXCEPT !.pc = "scan", !.seen = Available(alloc)])
  /\ UNCHANGED <<slots, len, active, memtrack, released, shed, crashed, raced>>

Fits(i) == Size[slots[i]] < mgr.seen

\* The loop finds the first request that fits; append loads activeGoRoutines.
Scan ==
  /\ \E i \in 1..len :
       /\ Fits(i)
       /\ \A k \in 1 .. i - 1 : ~Fits(k)
       /\ Manages("scan", [pc |-> "activate", seen |-> 0, at |-> i,
                           picked |-> slots[i], list |-> active])
  /\ UNCHANGED <<slots, len, active, memtrack, released, shed, crashed, raced>>

ScanFails ==
  /\ \A i \in 1..len : ~Fits(i)
  /\ Manages("scan", Idle)
  /\ UNCHANGED <<slots, len, active, memtrack, released, shed, crashed, raced>>

\* Mutant of Shifted: the element after index i is removed.
ShiftedAfter(i) == [k \in 1..Slots |-> slots[IF k \in i + 1 .. len - 1 THEN k + 1 ELSE k]]

\* The array after the removal of index i; behind it the last one is left.
Shifted(i) == [k \in 1..Slots |-> slots[IF k \in i .. len - 1 THEN k + 1 ELSE k]]

\* activeGoRoutines is stored, with r.  The queue is loaded and shifted; when
\* it has become too short, slicing it panics.
ActivateThe(r) ==
  /\ Manages("activate", [mgr EXCEPT !.pc = "remove", !.seen = len, !.list = <<>>])
  /\ slots' = IF mgr.at <= len THEN Shifted(mgr.at) ELSE slots
  /\ active' = Append(mgr.list, r)
  /\ crashed' = (mgr.at > len)
  /\ raced' = (raced \/ QueueBusy)
  /\ UNCHANGED <<len, memtrack, released, shed>>

\* Mutant of Activate: the goroutine is looked up after the removal.
ActivateShifted == mgr.at <= len /\ ActivateThe(Shifted(mgr.at)[mgr.at])

Activate == ActivateThe(mgr.picked)

\* The length of the queue is stored; memtrack is loaded.
Remove ==
  /\ Manages("remove", [mgr EXCEPT !.pc = "track", !.seen = memtrack])
  /\ len' = mgr.seen - 1
  /\ raced' = (raced \/ TrackBusy)
  /\ UNCHANGED <<slots, active, memtrack, released, shed, crashed>>

\* memtrack is stored and the channel closed; closing it again panics.
Release ==
  /\ Manages("track", Idle)
  /\ memtrack' = (mgr.seen + Size[mgr.picked]) % Word
  /\ released' = released \cup {mgr.picked}
  /\ crashed' = (mgr.picked \in released)
  /\ UNCHANGED <<slots, len, active, shed, raced>>

ShedLoad(s) ==
  /\ ~crashed
  /\ shed[s].pc = "started"
  /\ shed' = [shed EXCEPT ![s] = [pc |-> IF active = <<>> THEN "ended" ELSE "killing", list |-> active]]
  /\ UNCHANGED <<slots, len, active, memtrack, released, req, mgr, killed, crashed, raced>>

\* The last one activated is removed and its cancelFnc called.
ShedKill(s) ==
  /\ ~crashed
  /\ shed[s].pc = "killing"
  /\ shed' = [shed EXCEPT ![s] = [pc |-> "ended", list |-> <<>>]]
  /\ LET list == shed[s].list IN
       /\ active' = SubSeq(list, 1, Len(list) - 1)
       /\ killed' = killed \cup {list[Len(list)]}
  /\ UNCHANGED <<slots, len, memtrack, released, req, mgr, crashed, raced>>

-----------------------------------------------------------------------------
(* The specification *)

Manager ==
  \/ \E alloc \in Allocs : TickAdmits(alloc)
  \/ Scan \/ ScanFails \/ Activate \/ Remove \/ Release

Request(r) ==
  \/ Call(r) \/ AppendWrite(r) \/ AppendStore(r) \/ Proceed(r) \/ CopyEnds(r)
  \/ HintLoad(r) \/ HintStore(r)

Next ==
  \/ Manager \/ TickSheds
  \/ \E r \in Requests : Request(r)
  \/ \E s \in Shedders : ShedLoad(s) \/ ShedKill(s)
  \/ crashed /\ UNCHANGED vars

\* A tick after the garbage collector has freed all that it can.
TickAfterCollection ==
  \E low \in Allocs : (\A alloc \in Allocs : low <= alloc) /\ TickAdmits(low)

\* Every goroutine that can run does, copies end, and the timer finds free
\* memory again and again.
Fairness ==
  /\ WF_vars(Manager) /\ SF_vars(TickAfterCollection)
  /\ \A r \in Requests : WF_vars(Request(r))

Spec == Init /\ [][Next]_vars /\ Fairness

-----------------------------------------------------------------------------
(* Properties *)

\* The queue, less an element shifted out whose length is not stored yet.
Listed == 1 .. (IF mgr.pc = "remove" THEN len - 1 ELSE len)

\* The request the manager has taken out of the queue and not released.
InHand == IF mgr.pc \in {"remove", "track"} THEN {mgr.picked} ELSE {}

\* Unless updates overlap, the queue holds each waiting request once, and
\* none that has been admitted: none is lost, and none comes back, whose
\* channel would be closed twice.
QueueExact ==
  ~raced =>
    /\ ~crashed
    /\ \A i, k \in Listed : slots[i] = slots[k] => i = k
    /\ {slots[i] : i \in Listed} = At({"waiting"}) \ (released \cup InHand)

\* The memory of the requests in S, unit by unit.
Units(S) == {u \in S \X (1 .. Word - 1) : u[2] <= Size[u[1]]}

\* The memory of the requests admitted whose hint has not been given.
Outstanding == Cardinality(Units(released \ At({"done"})))

\* Unless updates overlap, memtrack is that memory, and it is below the limit
\* although avail is computed before the request is admitted.
TrackExact == ~raced => memtrack = Outstanding
LimitKept == ~raced => Outstanding < Limit

\* Whatever overlaps, load is never shed from a request that still queues for
\* its first admission.
OnlyAdmittedKilled == killed \subseteq released \cup InHand

\* Unless updates overlap, every request below the limit is admitted at last,
\* however smaller ones overtake it.
Served == <>(raced \/ \A r \in Requests : req[r].pc = "done")

\* memlim.go:106 "suspends the execution of the caller's thread until
\* `RequestedMem` bytes of memory are available": it goes on at last, which
\* the code does not ensure when updates overlap.
WaitEnds == \A r \in Requests : req[r].pc = "waiting" ~> (req[r].pc # "waiting" \/ crashed)
=============================================================================
