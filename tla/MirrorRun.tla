----------------------------- MODULE MirrorRun ------------------------------
(***************************************************************************)
(* One mirror job from the command line (main.go: runSingleJob; run.go:    *)
(* Run, preflightChecks, processEvent; status.go; concurrency.go:          *)
(* mergeEventChs): the checks before it, the way of the workers' events to *)
(* Run, what Run counts, and what it returns.  What a stage does to a tag  *)
(* is an item of work here; the other modules say how.                     *)
(*                                                                         *)
(* Every event channel has a forwarder that sends into the channel it is   *)
(* merged into, resolve's within housekeeping's.  No channel has a buffer. *)
(***************************************************************************)
EXTENDS Naturals, FiniteSets

CONSTANTS
  Destinations,  \* spec.destinations
  Channels,      \* event channels
  EvtCh,         \* the one that Run reads
  Into,          \* of each channel the one it is merged into
  Work,          \* items of work of all workers
  ChannelOf,     \* the channel that the worker of an item emits to
  ObjType, Key, StatusType, \* of the item's event
  Needs,         \* items that make an item possible
  DestinationOf, \* where an item takes place, or NoDestination
  MayHang,       \* items that may never end
  MayPanic,      \* items that may end the process
  NoDestination, NoEvent

ObjectTypes == {"SourceDirectory", "Image", "Tag"}
StatusTypes == {"Resolved", "Copied", "Deleted"}
Counters == StatusTypes \cup {"Total", "Failed"}
Keys == {Key[w] : w \in Work}

\* What is "hung" waits for ever, or for a worker that does.
Outcomes == {"open", "absent", "skipped", "done", "failed", "hung"}

ASSUME RunAssumption ==
  /\ IsFiniteSet(Destinations) /\ IsFiniteSet(Work) /\ IsFiniteSet(Channels)
  /\ NoEvent \notin Work /\ EvtCh \notin Channels /\ NoDestination \notin Destinations
  /\ Into \in [Channels -> Channels \cup {EvtCh}]
     \* Through others, every channel is merged into EvtCh.
  /\ \A S \in SUBSET Channels :
       (\A c \in Channels : Into[c] \in S \cup {EvtCh} => c \in S) => S = Channels
  /\ ChannelOf \in [Work -> Channels \ {Into[c] : c \in Channels}]
  /\ ObjType \in [Work -> ObjectTypes] /\ StatusType \in [Work -> StatusTypes]
  /\ Needs \in [Work -> SUBSET Work]
     \* An item needs what earlier stages send.
  /\ \A S \in SUBSET Work : (\A w \in Work : Needs[w] \subseteq S => w \in S) => S = Work
  /\ DestinationOf \in [Work -> Destinations \cup {NoDestination}]
  /\ MayHang \subseteq Work /\ MayPanic \subseteq Work

VARIABLES
  phase,     \* "preflight", "run", "ended" or "crashed"
  unchecked, \* destinations that preflightChecks has not come to
  verified,  \* those that may be pushed to
  outcome,   \* what has become of the items
  taken,     \* history: items whose event has found a receiver
  held,      \* what the forwarder of a channel has received and not sent
  over,      \* channels whose forwarder has ended
  counts, stateKeys, stateFlags, \* runnerStatus
  newTags, deletedTags,          \* Summary
  result     \* what Run has returned

statusVars == <<counts, stateKeys, stateFlags, newTags, deletedTags>>
vars == <<phase, unchecked, verified, outcome, taken, held, over, statusVars, result>>

TypeOK ==
  /\ phase \in {"preflight", "run", "ended", "crashed"}
  /\ unchecked \subseteq Destinations /\ verified \subseteq Destinations
  /\ outcome \in [Work -> Outcomes] /\ taken \subseteq Work
  /\ held \in [Channels -> Work \cup {NoEvent}] /\ over \subseteq Channels
  /\ counts \in [ObjectTypes -> [Counters -> Nat]]
  /\ stateKeys \subseteq ObjectTypes \X Keys
  /\ stateFlags \subseteq ObjectTypes \X Keys \X StatusTypes
  /\ newTags \subseteq Keys /\ deletedTags \subseteq Keys
  /\ result \in {"none", "nil", "error"} /\ (result = "none" <=> phase # "ended")

Init ==
  /\ phase = "preflight" /\ unchecked = Destinations /\ verified = {}
  /\ outcome = [w \in Work |-> "open"] /\ taken = {}
  /\ held = [c \in Channels |-> NoEvent] /\ over = {}
  /\ counts = [o \in ObjectTypes |-> [c \in Counters |-> 0]]
  /\ stateKeys = {} /\ stateFlags = {} /\ newTags = {} /\ deletedTags = {}
  /\ result = "none"

-----------------------------------------------------------------------------
(* preflightChecks *)

\* The configuration is unreadable or names no images, a destination is
\* invalid or its registry not supported, or there is nowhere to push to.
PreflightFails ==
  /\ phase = "preflight" /\ (unchecked # {} \/ verified = {})
  /\ phase' = "ended" /\ result' = "error"
  /\ UNCHANGED <<unchecked, verified, outcome, taken, held, over, statusVars>>

CheckDestination(d) ==
  /\ phase = "preflight" /\ d \in unchecked
  /\ unchecked' = unchecked \ {d}
  /\ verified' \in {verified, verified \cup {d}}
  /\ UNCHANGED <<phase, outcome, taken, held, over, statusVars, result>>

\* Mutant of Places: a destination that may not be pushed to stays.
AllPlaces == Destinations \cup {NoDestination}

Places == verified \cup {NoDestination}

\* The stages get the destinations that are left.
Start ==
  /\ phase = "preflight" /\ unchecked = {} /\ verified # {}
  /\ phase' = "run"
  /\ outcome' = [w \in Work |-> IF DestinationOf[w] \in Places THEN "open" ELSE "absent"]
  /\ UNCHANGED <<unchecked, verified, taken, held, over, statusVars, result>>

-----------------------------------------------------------------------------
(* The workers *)

Settled(w) == outcome[w] \notin {"open", "hung"}

\* A worker has what the item needs.
Possible(w) ==
  /\ phase = "run" /\ outcome[w] = "open"
  /\ \A n \in Needs[w] : outcome[n] = "done"

\* A copy that succeeds has no event.
HasEvent(w, o) == o = "failed" \/ (o = "done" /\ StatusType[w] # "Copied")

\* emit: the event is lost unless the forwarder waits for one.
Emit(w) ==
  \/ /\ held[ChannelOf[w]] = NoEvent
     /\ held' = [held EXCEPT ![ChannelOf[w]] = w]
     /\ taken' = taken \cup {w}
  \/ UNCHANGED <<held, taken>>

\* A tag of schema 1 or one that is up to date is skipped; a deletion is not.
Finish(w, o) ==
  /\ Possible(w)
  /\ o = "skipped" => StatusType[w] # "Deleted"
  /\ outcome' = [outcome EXCEPT ![w] = o]
  /\ IF HasEvent(w, o) THEN Emit(w) ELSE UNCHANGED <<held, taken>>
  /\ UNCHANGED <<phase, unchecked, verified, over, statusVars, result>>

\* The worker's call does not return: Tick blocks on its own channel, a
\* request for memory is lost or too large, every worker sends a job back, a
\* request to a registry has no deadline; or no worker is left for the item.
Hang(w) ==
  /\ w \in MayHang /\ Possible(w)
  /\ outcome' = [outcome EXCEPT ![w] = "hung"]
  /\ UNCHANGED <<phase, unchecked, verified, taken, held, over, statusVars, result>>

\* A job is sent back on a closed channel, or a map is written under a reader.
Panic(w) ==
  /\ w \in MayPanic /\ Possible(w)
  /\ phase' = "crashed"
  /\ UNCHANGED <<unchecked, verified, outcome, taken, held, over, statusVars, result>>

\* Mutant of Omit: the worker waits for it for ever.
OmitNever(w) == FALSE

\* What the item needs has not come.
Omit(w) ==
  /\ phase = "run" /\ outcome[w] = "open"
  /\ \E n \in Needs[w] : outcome[n] \in {"absent", "skipped", "failed"}
  /\ outcome' = [outcome EXCEPT ![w] = "absent"]
  /\ UNCHANGED <<phase, unchecked, verified, taken, held, over, statusVars, result>>

-----------------------------------------------------------------------------
(* mergeEventChs *)

Forward(c) ==
  /\ phase = "run" /\ held[c] # NoEvent
  /\ Into[c] \in Channels \ over /\ held[Into[c]] = NoEvent
  /\ held' = [held EXCEPT ![c] = NoEvent, ![Into[c]] = held[c]]
  /\ UNCHANGED <<phase, unchecked, verified, outcome, taken, over, statusVars, result>>

Merged(c) == {d \in Channels : Into[d] = c}

\* Mutant of Closed: the first forwarder to end closes the channel.
ClosedByFirst(c) ==
  IF Merged(c) # {} THEN Merged(c) \cap over # {}
  ELSE \A w \in Work : ChannelOf[w] = c => Settled(w)

\* By wg.Wait, or by a worker whose input has ended.
Closed(c) ==
  IF Merged(c) # {} THEN Merged(c) \subseteq over
  ELSE \A w \in Work : ChannelOf[w] = c => Settled(w)

\* The forwarder calls wg.Done.
End(c) ==
  /\ phase = "run" /\ c \notin over
  /\ Closed(c) /\ held[c] = NoEvent
  /\ over' = over \cup {c}
  /\ UNCHANGED <<phase, unchecked, verified, outcome, taken, held, statusVars, result>>

-----------------------------------------------------------------------------
(* Run and its event handlers *)

CounterOf(w) == IF outcome[w] = "done" THEN StatusType[w] ELSE "Failed"

Flag(w) == <<ObjType[w], Key[w], StatusType[w]>>

\* Mutant of SetFlag: the entry starts anew with every event.
SetFlagOnly(w) ==
  stateFlags' = {f \in stateFlags : <<f[1], f[2]>> # <<ObjType[w], Key[w]>>}
                  \cup (IF outcome[w] = "done" THEN {Flag(w)} ELSE {})

SetFlag(w) ==
  stateFlags' = IF outcome[w] = "done" THEN stateFlags \cup {Flag(w)} ELSE stateFlags \ {Flag(w)}

UpdateStatus(w) ==
  /\ counts' = [counts EXCEPT ![ObjType[w]][CounterOf(w)] = @ + 1]
  /\ stateKeys' = stateKeys \cup {<<ObjType[w], Key[w]>>}
  /\ SetFlag(w)

InSummary(w, status) == ObjType[w] = "Tag" /\ outcome[w] = "done" /\ StatusType[w] = status

UpdateSummary(w) ==
  /\ newTags' = IF InSummary(w, "Copied") THEN newTags \cup {Key[w]} ELSE newTags
  /\ deletedTags' = IF InSummary(w, "Deleted") THEN deletedTags \cup {Key[w]} ELSE deletedTags

\* processEvent, on what c's forwarder sends.
Process(c) ==
  /\ phase = "run" /\ Into[c] = EvtCh /\ held[c] # NoEvent
  /\ UpdateStatus(held[c]) /\ UpdateSummary(held[c])
  /\ held' = [held EXCEPT ![c] = NoEvent]
  /\ UNCHANGED <<phase, unchecked, verified, outcome, taken, over, result>>

\* Asked for "Deleted", Count reads Copied.
Counter(o, c) == counts[o][IF c = "Deleted" THEN "Copied" ELSE c]

\* With "" for the type of object.
Count(c) == Counter("SourceDirectory", c) + Counter("Image", c) + Counter("Tag", c)

\* Mutant of Return: nothing is returned.
ReturnNothing ==
  /\ phase = "run" /\ Merged(EvtCh) \subseteq over
  /\ phase' = "ended"
  /\ UNCHANGED <<unchecked, verified, outcome, taken, held, over, statusVars, result>>

Return ==
  /\ phase = "run" /\ Merged(EvtCh) \subseteq over
  /\ phase' = "ended"
  /\ result' = IF Count("Failed") > 0 THEN "error" ELSE "nil"
  /\ UNCHANGED <<unchecked, verified, outcome, taken, held, over, statusVars>>

-----------------------------------------------------------------------------
(* The specification *)

\* All that is left is work that hangs or needs what hangs: no event is on
\* its way.
OnlyHungLeft ==
  /\ phase = "run" /\ \A c \in Channels : held[c] = NoEvent
  /\ \E w \in Work : outcome[w] = "hung"
  /\ \A w \in Work : outcome[w] = "open" => \E n \in Needs[w] : ~Settled(n)

Halted == phase \in {"ended", "crashed"} \/ OnlyHungLeft

Ended == Halted /\ UNCHANGED vars

Next ==
  \/ PreflightFails
  \/ \E d \in Destinations : CheckDestination(d)
  \/ Start
  \/ \E w \in Work :
       \/ Omit(w) \/ Hang(w) \/ Panic(w)
       \/ \E o \in {"done", "failed", "skipped"} : Finish(w, o)
  \/ \E c \in Channels : Forward(c) \/ End(c) \/ Process(c)
  \/ Return
  \/ Ended

\* Some goroutine that can run runs: preflightChecks gets its answers, and an
\* item of work that is possible ends, hangs or panics.
Spec == Init /\ [][Next]_vars /\ WF_vars(Next)

-----------------------------------------------------------------------------
(* Properties *)

InTransit == {w \in Work : \E c \in Channels : held[c] = w}

\* The events that the handlers have seen.
Seen == taken \ InTransit

\* However the forwarders' events overtake each other, the counters, the state
\* and the summary are those of the events taken and no longer under way: none
\* is counted twice, and none is lost behind emit.  A deletion is in the summary
\* though its tag was reported as resolved after it.
StatusExact ==
  /\ \A o \in ObjectTypes, c \in Counters :
       counts[o][c] = Cardinality({w \in Seen : ObjType[w] = o /\ CounterOf(w) = c})
  /\ stateKeys = {<<ObjType[w], Key[w]>> : w \in Seen}
  /\ \A f \in stateFlags : \E w \in Seen : outcome[w] = "done" /\ Flag(w) = f
  /\ \A w \in Seen : outcome[w] = "done" =>
       \/ Flag(w) \in stateFlags
       \/ \E v \in Seen : outcome[v] = "failed" /\ Flag(v) = Flag(w)
  /\ newTags = {Key[w] : w \in {v \in Seen : InSummary(v, "Copied")}}
  /\ deletedTags = {Key[w] : w \in {v \in Seen : InSummary(v, "Deleted")}}

\* When Run returns although preflightChecks has passed, all work is settled,
\* nothing has happened at a destination that may not be pushed to, and an
\* error is returned exactly if an event of a failure has found a receiver: no
\* such event is still with a forwarder.
ResultExact ==
  phase = "ended" /\ unchecked = {} /\ verified # {} =>
    /\ \A w \in Work : Settled(w)
    /\ \A w \in Work : DestinationOf[w] \in Destinations \ verified => outcome[w] = "absent"
    /\ result = "error" <=> \E w \in taken : outcome[w] = "failed"

\* The job ends, unless the process panics or work hangs; and work that hangs
\* holds up only what needs it: every other item is settled, and its event is
\* counted or lost, not kept by a forwarder.
Ends == <>Halted
=============================================================================
