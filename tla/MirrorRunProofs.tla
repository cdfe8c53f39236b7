-------------------------- MODULE MirrorRunProofs ---------------------------
(***************************************************************************)
(* Theorems about MirrorRun for every set of destinations, every tree of   *)
(* event channels and every work: the status and the result are exact,     *)
(* nobody waits for ever but for work that hangs, and the steps run out.   *)
(* They rest on RunAssumption.                                             *)
(***************************************************************************)
EXTENDS MirrorRun, FiniteSetTheorems, TLAPS

Passed == unchecked = {} /\ verified # {}

\* An event that is under way has been taken and is in one place.
InOnePlace ==
  /\ \A c \in Channels : held[c] # NoEvent => held[c] \in taken
  /\ \A c, d \in Channels : held[c] = held[d] /\ held[c] # NoEvent => c = d

\* An event says what has become of its item.
TakenSettled == \A w \in taken : outcome[w] \in {"done", "failed"}

Before ==
  phase = "preflight" =>
    taken = {} /\ over = {} /\ \A w \in Work : outcome[w] = "open"

OverClosed == \A c \in over : held[c] = NoEvent /\ Closed(c)

\* Once the workers have run.
Placed ==
  /\ phase = "run" => Passed
  /\ phase = "run" \/ (phase = "ended" /\ Passed) =>
       \A w \in Work : DestinationOf[w] \notin Places => outcome[w] = "absent"

Returned ==
  phase = "ended" /\ Passed =>
    Merged(EvtCh) \subseteq over /\ (result = "error" <=> Count("Failed") > 0)

RunInv ==
  /\ TypeOK /\ InOnePlace /\ TakenSettled /\ Before
  /\ OverClosed /\ Placed /\ Returned /\ StatusExact

-----------------------------------------------------------------------------
(* Type correctness *)

\* The variables keep their types, and there is a result exactly when the job
\* has ended.
THEOREM TypeCorrect == Spec => []TypeOK
<1>1. Init => TypeOK
  BY DEF Init, TypeOK, Outcomes, Counters
<1>2. TypeOK /\ [Next]_vars => TypeOK'
  <2> SUFFICES ASSUME TypeOK, [Next]_vars PROVE TypeOK'
    OBVIOUS
  <2> USE RunAssumption
  <2>1. CASE PreflightFails
    BY <2>1 DEF TypeOK, PreflightFails, statusVars
  <2>2. ASSUME NEW d \in Destinations, CheckDestination(d) PROVE TypeOK'
    BY <2>2 DEF TypeOK, CheckDestination, statusVars
  <2>3. CASE Start
    BY <2>3 DEF TypeOK, Start, statusVars, Outcomes
  <2>4. ASSUME NEW w \in Work, Omit(w) PROVE TypeOK'
    BY <2>4 DEF TypeOK, Omit, statusVars, Outcomes
  <2>5. ASSUME NEW w \in Work, NEW o \in {"done", "failed", "skipped"}, Finish(w, o)
        PROVE TypeOK'
    <3>1. outcome' \in [Work -> Outcomes]
      BY <2>5 DEF TypeOK, Finish, Possible, Outcomes
    <3>2. held' \in [Channels -> Work \cup {NoEvent}] /\ taken' \subseteq Work
      <4>1. /\ held \in [Channels -> Work \cup {NoEvent}] /\ taken \subseteq Work
            /\ \/ UNCHANGED <<held, taken>>
               \/ held' = [held EXCEPT ![ChannelOf[w]] = w] /\ taken' = taken \cup {w}
        BY <2>5 DEF TypeOK, Finish, Emit
      <4> QED BY ONLY <4>1, w \in Work
    <3> QED BY <2>5, <3>1, <3>2 DEF TypeOK, Finish, statusVars
  <2>6. ASSUME NEW c \in Channels, Forward(c) PROVE TypeOK'
    BY <2>6 DEF TypeOK, Forward, statusVars
  <2>7. ASSUME NEW c \in Channels, End(c) PROVE TypeOK'
    BY <2>7 DEF TypeOK, End, statusVars
  <2>8. ASSUME NEW c \in Channels, Process(c) PROVE TypeOK'
    <3>1. held[c] \in Work /\ held' \in [Channels -> Work \cup {NoEvent}]
      BY <2>8 DEF TypeOK, Process
    <3>2. ObjType[held[c]] \in ObjectTypes /\ StatusType[held[c]] \in StatusTypes
          /\ Key[held[c]] \in Keys
      BY <3>1 DEF Keys
    <3>3. CounterOf(held[c]) \in Counters
      BY <3>2 DEF CounterOf, Counters
    <3>4. counts' \in [ObjectTypes -> [Counters -> Nat]]
      BY <2>8, <3>2, <3>3 DEF TypeOK, Process, UpdateStatus
    <3>5. stateKeys' \subseteq ObjectTypes \X Keys
      BY <2>8, <3>2 DEF TypeOK, Process, UpdateStatus
    <3>6. stateFlags' \subseteq ObjectTypes \X Keys \X StatusTypes
      BY <2>8, <3>2 DEF TypeOK, Process, UpdateStatus, SetFlag, Flag
    <3>7. newTags' \subseteq Keys /\ deletedTags' \subseteq Keys
      BY <2>8, <3>2 DEF TypeOK, Process, UpdateSummary
    <3> QED BY <2>8, <3>1, <3>4, <3>5, <3>6, <3>7 DEF TypeOK, Process
  <2>9. CASE Return
    BY <2>9 DEF TypeOK, Return, statusVars
  <2>10. CASE Ended \/ UNCHANGED vars
    BY <2>10 DEF TypeOK, Ended, vars, statusVars
  <2>11. ASSUME NEW w \in Work, Hang(w) \/ Panic(w) PROVE TypeOK'
    BY <2>11 DEF TypeOK, Hang, Panic, Possible, statusVars, Outcomes
  <2> QED BY <2>1, <2>2, <2>3, <2>4, <2>5, <2>6, <2>7, <2>8, <2>9, <2>10, <2>11 DEF Next
<1> QED BY <1>1, <1>2, PTL DEF Spec

-----------------------------------------------------------------------------
(* Where the events are *)

\* The counters and the state do not see a step that leaves what the handlers
\* have seen.
LEMMA StatusFrame ==
  ASSUME StatusExact, Seen' = Seen, \A w \in Seen : outcome'[w] = outcome[w],
         UNCHANGED statusVars
  PROVE  StatusExact'
<1>1. \A w \in Seen : /\ CounterOf(w)' = CounterOf(w)
                      /\ \A s \in StatusTypes : InSummary(w, s)' = InSummary(w, s)
  BY DEF CounterOf, InSummary
<1>2. \A o \in ObjectTypes, c \in Counters :
        {w \in Seen : ObjType[w] = o /\ CounterOf(w) = c}'
          = {w \in Seen : ObjType[w] = o /\ CounterOf(w) = c}
  BY <1>1
<1>3. \A s \in StatusTypes : {v \in Seen : InSummary(v, s)}' = {v \in Seen : InSummary(v, s)}
  BY <1>1
<1>4. "Copied" \in StatusTypes /\ "Deleted" \in StatusTypes
  BY DEF StatusTypes
<1>5. UNCHANGED <<counts, stateKeys, stateFlags, newTags, deletedTags>>
  BY DEF statusVars
<1>6. (\A o \in ObjectTypes, c \in Counters :
         counts[o][c] = Cardinality({w \in Seen : ObjType[w] = o /\ CounterOf(w) = c}))'
  BY <1>2, <1>5 DEF StatusExact
<1>7. (stateKeys = {<<ObjType[w], Key[w]>> : w \in Seen})'
  BY <1>5 DEF StatusExact
<1>8. (\A f \in stateFlags : \E w \in Seen : outcome[w] = "done" /\ Flag(w) = f)'
  BY <1>5 DEF StatusExact, Flag
<1>9. (\A w \in Seen : outcome[w] = "done" =>
         \/ Flag(w) \in stateFlags
         \/ \E v \in Seen : outcome[v] = "failed" /\ Flag(v) = Flag(w))'
  BY <1>5 DEF StatusExact, Flag
<1>10. (newTags = {Key[w] : w \in {v \in Seen : InSummary(v, "Copied")}})'
  BY <1>3, <1>4, <1>5 DEF StatusExact
<1>11. (deletedTags = {Key[w] : w \in {v \in Seen : InSummary(v, "Deleted")}})'
  BY <1>3, <1>4, <1>5 DEF StatusExact
<1> QED
  BY <1>6, <1>7, <1>8, <1>9, <1>10, <1>11 DEF StatusExact

\* What is open has no event.
LEMMA OpenNotTaken ==
  ASSUME RunInv, NEW w \in Work, ~Settled(w)
  PROVE  w \notin taken /\ w \notin InTransit
<1>1. w \notin taken
  BY DEF RunInv, TakenSettled, Settled
<1>2. NoEvent \notin Work
  BY RunAssumption
<1> QED
  BY <1>1, <1>2 DEF RunInv, InOnePlace, InTransit

\* emit leaves what the handlers have seen.
LEMMA EmitSeen ==
  ASSUME RunInv, NEW w \in Work, ~Settled(w), Emit(w)
  PROVE  Seen' = Seen /\ InOnePlace' /\ taken \subseteq taken' /\ taken' \subseteq taken \cup {w}
<1> DEFINE k == ChannelOf[w]
<1>1. w \notin taken /\ w \notin InTransit
  BY OpenNotTaken
<1>2. k \in Channels /\ NoEvent \notin Work
  BY RunAssumption
<1>3. held \in [Channels -> Work \cup {NoEvent}] /\ InOnePlace
  BY DEF RunInv, TypeOK
<1>4. CASE UNCHANGED <<held, taken>>
  BY <1>3, <1>4 DEF Seen, InTransit, InOnePlace
<1>5. CASE /\ held[k] = NoEvent /\ held' = [held EXCEPT ![k] = w] /\ taken' = taken \cup {w}
  <2>1. held'[k] = w /\ \A c \in Channels : c # k => held'[c] = held[c]
    BY <1>2, <1>3, <1>5
  <2>2. \A c \in Channels : held[c] # w
    BY <1>1, <1>2, <1>3 DEF InTransit
  <2>3. InTransit' = InTransit \cup {w}
    BY <1>2, <1>5, <2>1 DEF InTransit
  <2>4. Seen' = Seen
    BY <1>1, <1>5, <2>3 DEF Seen
  <2>5. InOnePlace'
    BY <1>2, <1>3, <1>5, <2>1, <2>2 DEF InOnePlace
  <2> QED BY <1>5, <2>4, <2>5
<1> QED BY <1>4, <1>5 DEF Emit

-----------------------------------------------------------------------------
(* The steps *)

LEMMA PreflightSteps ==
  ASSUME RunInv, TypeOK',
         PreflightFails \/ Start \/ \E d \in Destinations : CheckDestination(d)
  PROVE  RunInv'
<1>1. phase = "preflight" /\ taken = {} /\ over = {} /\ \A w \in Work : outcome[w] = "open"
  BY DEF RunInv, Before, PreflightFails, Start, CheckDestination
<1>2. UNCHANGED <<taken, held, over, statusVars>>
  BY DEF PreflightFails, Start, CheckDestination
<1>3. Seen = {} /\ Seen' = {}
  BY <1>1, <1>2 DEF Seen
<1>4. StatusExact'
  BY <1>2, <1>3, StatusFrame DEF RunInv
<1>5. InOnePlace' /\ TakenSettled' /\ OverClosed'
  BY <1>1, <1>2 DEF RunInv, InOnePlace, TakenSettled, OverClosed
<1>6. CASE PreflightFails
  <2>1. ~Passed'
    BY <1>6 DEF PreflightFails, Passed
  <2>2. phase' = "ended"
    BY <1>6 DEF PreflightFails
  <2> QED BY <1>4, <1>5, <2>1, <2>2 DEF RunInv, Before, Placed, Returned
<1>7. CASE Start
  <2>1. Passed' /\ phase' = "run"
    BY <1>7 DEF Start, Passed
  <2>2. Places' = Places
    BY <1>7 DEF Start, Places
  <2>3. \A w \in Work : DestinationOf[w] \notin Places => outcome'[w] = "absent"
    BY <1>7 DEF Start
  <2> QED BY <1>4, <1>5, <2>1, <2>2, <2>3 DEF RunInv, Before, Placed, Returned
<1>8. ASSUME NEW d \in Destinations, CheckDestination(d) PROVE RunInv'
  <2>1. phase' = "preflight" /\ outcome' = outcome
    BY <1>1, <1>8 DEF CheckDestination
  <2> QED BY <1>1, <1>2, <1>4, <1>5, <2>1 DEF RunInv, Before, Placed, Returned
<1> QED BY <1>6, <1>7, <1>8

\* A worker settles w and, where it has something to report, emits.
LEMMA SettleStep ==
  ASSUME RunInv, TypeOK', NEW w \in Work, NEW o \in Outcomes \ {"open"},
         phase = "run", outcome[w] = "open", o = "absent" \/ DestinationOf[w] \in Places,
         outcome' = [outcome EXCEPT ![w] = o],
         IF HasEvent(w, o) THEN Emit(w) ELSE UNCHANGED <<held, taken>>,
         UNCHANGED <<phase, unchecked, verified, over, statusVars, result>>
  PROVE  RunInv'
<1>1. outcome'[w] = o /\ \A v \in Work : v # w => outcome'[v] = outcome[v]
  BY DEF RunInv, TypeOK
<1>2. ~Settled(w) /\ w \notin taken /\ w \notin InTransit
  BY OpenNotTaken DEF Settled
<1>3. Seen' = Seen /\ InOnePlace' /\ taken \subseteq taken'
      /\ taken' \subseteq taken \cup (IF HasEvent(w, o) THEN {w} ELSE {})
  <2>1. CASE HasEvent(w, o)
    BY <1>2, <2>1, EmitSeen
  <2>2. CASE ~HasEvent(w, o)
    BY <2>2 DEF RunInv, Seen, InTransit, InOnePlace
  <2> QED BY <2>1, <2>2
<1>4. \A v \in Seen : outcome'[v] = outcome[v]
  BY <1>1, <1>2 DEF Seen, RunInv, TypeOK
<1>5. StatusExact'
  BY <1>3, <1>4, StatusFrame DEF RunInv
<1>6. TakenSettled'
  <2>1. \A v \in taken : v \in Work /\ v # w
    BY <1>2 DEF RunInv, TypeOK
  <2>2. HasEvent(w, o) => o \in {"done", "failed"}
    BY DEF HasEvent
  <2> QED BY <1>1, <1>3, <2>1, <2>2 DEF RunInv, TakenSettled
<1>7. \A v \in Work : Settled(v) => Settled(v)'
  BY <1>1, <1>2 DEF Settled
<1>8. OverClosed'
  <2> SUFFICES ASSUME NEW c \in over PROVE held'[c] = NoEvent /\ Closed(c)'
    BY DEF OverClosed
  <2>1. Closed(c) /\ held[c] = NoEvent /\ c \in Channels
    BY DEF RunInv, OverClosed, TypeOK
  <2>2. Closed(c)'
    BY <2>1, <1>7 DEF Closed, Merged
  <2>3. c # ChannelOf[w]
    <3>1. Merged(ChannelOf[w]) = {}
      BY RunAssumption DEF Merged
    <3> QED BY <1>2, <2>1, <3>1 DEF Closed
  <2>4. held'[c] = held[c]
    BY <2>1, <2>3 DEF Emit, RunInv, TypeOK
  <2> QED BY <2>1, <2>2, <2>4
<1>9. Placed'
  <2>1. Places' = Places /\ Passed' = Passed
    BY DEF Places, Passed
  <2>2. Passed /\ \A v \in Work : DestinationOf[v] \notin Places => outcome[v] = "absent"
    BY DEF RunInv, Placed
  <2>3. \A v \in Work : DestinationOf[v] \notin Places => outcome'[v] = "absent"
    BY <1>1, <2>2
  <2> QED BY <2>1, <2>2, <2>3 DEF Placed
<1>10. Before' /\ Returned'
  BY DEF Before, Returned
<1> QED BY <1>3, <1>5, <1>6, <1>8, <1>9, <1>10 DEF RunInv

\* An event on its way to Run.
LEMMA ForwardStep ==
  ASSUME RunInv, TypeOK', NEW c \in Channels, Forward(c)
  PROVE  RunInv'
<1> DEFINE d == Into[c]
<1>1. c \in Channels /\ d \in Channels \ over /\ held[c] # NoEvent /\ held[d] = NoEvent /\ c # d
  BY DEF Forward
<1>2. held \in [Channels -> Work \cup {NoEvent}] /\ InOnePlace
  BY DEF RunInv, TypeOK
<1>3. /\ held'[c] = NoEvent /\ held'[d] = held[c]
      /\ \A e \in Channels : e \notin {c, d} => held'[e] = held[e]
  BY <1>1, <1>2 DEF Forward
<1>4. NoEvent \notin Work
  BY RunAssumption
<1>5. InTransit' = InTransit
  BY <1>1, <1>3, <1>4 DEF InTransit
<1>6. UNCHANGED <<phase, unchecked, verified, outcome, taken, over, statusVars, result>>
  BY DEF Forward
<1>7. Seen' = Seen
  BY <1>5, <1>6 DEF Seen
<1>8. StatusExact'
  BY <1>6, <1>7, StatusFrame DEF RunInv
<1>9. InOnePlace'
  BY <1>1, <1>2, <1>3, <1>6 DEF InOnePlace
<1>10. OverClosed'
  <2> SUFFICES ASSUME NEW e \in over PROVE held'[e] = NoEvent /\ Closed(e)'
    BY <1>6 DEF OverClosed
  <2>1. held[e] = NoEvent /\ Closed(e) /\ e \in Channels
    BY DEF RunInv, OverClosed, TypeOK
  <2>2. Closed(e)'
    BY <1>6, <2>1 DEF Closed, Settled, Merged
  <2> QED BY <1>1, <1>3, <2>1, <2>2
<1>11. TakenSettled' /\ Before' /\ Placed'
  BY <1>6 DEF RunInv, TakenSettled, Before, Placed, Passed, Places
<1>12. phase' # "ended"
  BY <1>6 DEF Forward
<1> QED BY <1>8, <1>9, <1>10, <1>11, <1>12 DEF RunInv, Returned

LEMMA EndStep ==
  ASSUME RunInv, TypeOK', NEW c \in Channels, End(c)
  PROVE  RunInv'
<1>1. UNCHANGED <<phase, unchecked, verified, outcome, taken, held, statusVars, result>>
  BY DEF End
<1>2. Seen' = Seen
  BY <1>1 DEF Seen, InTransit
<1>3. StatusExact'
  BY <1>1, <1>2, StatusFrame DEF RunInv
<1>4. OverClosed'
  <2> SUFFICES ASSUME NEW e \in over' PROVE held'[e] = NoEvent /\ Closed(e)'
    BY DEF OverClosed
  <2>1. over' = over \cup {c}
    BY DEF End
  <2>2. held[e] = NoEvent /\ Closed(e)
    BY <2>1 DEF End, RunInv, OverClosed
  <2>3. Closed(e)'
    BY <1>1, <2>1, <2>2 DEF Closed, Settled, Merged
  <2> QED BY <1>1, <2>2, <2>3
<1>5. InOnePlace' /\ TakenSettled' /\ Placed'
  BY <1>1 DEF RunInv, InOnePlace, TakenSettled, Placed, Passed, Places
<1>6. phase' = "run"
  BY <1>1 DEF End
<1> QED BY <1>3, <1>4, <1>5, <1>6 DEF RunInv, Before, Returned

-----------------------------------------------------------------------------
(* The handlers see one event more *)

LEMMA SeenOneMore ==
  ASSUME RunInv, NEW c \in Channels, Process(c)
  PROVE  /\ held[c] \in Work /\ held[c] \notin Seen /\ Seen' = Seen \cup {held[c]}
         /\ InOnePlace'
         /\ outcome[held[c]] \in {"done", "failed"}
<1> DEFINE e == held[c]
<1>1. held \in [Channels -> Work \cup {NoEvent}] /\ InOnePlace /\ e # NoEvent
  BY DEF RunInv, TypeOK, Process
<1>2. e \in Work /\ e \in taken /\ e \in InTransit
  BY <1>1 DEF InOnePlace, InTransit
<1>3. held'[c] = NoEvent /\ \A d \in Channels : d # c => held'[d] = held[d]
  BY <1>1 DEF Process
<1>4. NoEvent \notin Work
  BY RunAssumption
<1>5. InTransit' = InTransit \ {e}
  BY <1>1, <1>3, <1>4 DEF InTransit, InOnePlace
<1>6. taken' = taken
  BY DEF Process
<1>7. e \notin Seen /\ Seen' = Seen \cup {e}
  BY <1>2, <1>5, <1>6 DEF Seen
<1>8. InOnePlace'
  BY <1>1, <1>3, <1>6 DEF InOnePlace
<1>9. outcome[e] \in {"done", "failed"}
  BY <1>2 DEF RunInv, TakenSettled
<1> QED BY <1>2, <1>7, <1>8, <1>9

\* A set counted in P grows by e if e has P.
LEMMA CountGrows ==
  ASSUME NEW S, IsFiniteSet(S), NEW e, e \notin S, NEW P, NEW T,
         T = (S \cap P) \cup ({e} \cap P)
  PROVE  /\ e \in P => Cardinality(T) = Cardinality(S \cap P) + 1
         /\ e \notin P => T = S \cap P
<1>1. IsFiniteSet(S \cap P)
  BY FS_Subset
<1>2. e \in P => T = (S \cap P) \cup {e}
  OBVIOUS
<1>3. e \notin S \cap P
  OBVIOUS
<1>4. Cardinality((S \cap P) \cup {e}) = Cardinality(S \cap P) + 1
  BY <1>1, <1>3, FS_AddElement
<1> QED BY <1>2, <1>4

LEMMA ProcessCounts ==
  ASSUME RunInv, NEW c \in Channels, Process(c), NEW o \in ObjectTypes, NEW k \in Counters
  PROVE  counts'[o][k] = Cardinality({w \in Seen' : ObjType[w] = o /\ CounterOf(w)' = k})
<1> DEFINE e == held[c]
           P == {w \in Work : ObjType[w] = o /\ CounterOf(w) = k}
           T == {w \in Seen' : ObjType[w] = o /\ CounterOf(w)' = k}
<1>1. e \in Work /\ e \notin Seen /\ Seen' = Seen \cup {e}
  BY SeenOneMore
<1>2. Seen \subseteq Work /\ IsFiniteSet(Seen)
  <2>1. Seen \subseteq Work
    BY DEF RunInv, TypeOK, Seen
  <2> QED BY <2>1, RunAssumption, FS_Subset
<1>3. \A w : CounterOf(w)' = CounterOf(w)
  BY DEF Process, CounterOf
<1>4. T = (Seen \cap P) \cup ({e} \cap P)
  BY <1>1, <1>2, <1>3
<1>5. Seen \cap P = {w \in Seen : ObjType[w] = o /\ CounterOf(w) = k}
  BY <1>2
<1>6. counts[o][k] = Cardinality(Seen \cap P)
  BY <1>5 DEF RunInv, StatusExact
<1>7. /\ e \in P => Cardinality(T) = Cardinality(Seen \cap P) + 1
      /\ e \notin P => T = Seen \cap P
  <2> HIDE DEF P, T, e
  <2> QED BY <1>1, <1>2, <1>4, CountGrows
<1>8. counts \in [ObjectTypes -> [Counters -> Nat]]
  BY DEF RunInv, TypeOK
<1>9. counts' = [counts EXCEPT ![ObjType[e]][CounterOf(e)] = @ + 1]
  BY DEF Process, UpdateStatus
<1>10. ObjType[e] \in ObjectTypes /\ CounterOf(e) \in Counters
  BY <1>1, RunAssumption DEF CounterOf, Counters
<1>11. CASE e \in P
  <2>1. counts'[o][k] = counts[o][k] + 1
    BY <1>8, <1>9, <1>10, <1>11
  <2> QED BY <1>6, <1>7, <1>11, <2>1
<1>12. CASE e \notin P
  <2>1. ~(ObjType[e] = o /\ CounterOf(e) = k)
    BY <1>1, <1>12
  <2>2. counts'[o][k] = counts[o][k]
    BY <1>8, <1>9, <1>10, <2>1
  <2> QED BY <1>6, <1>7, <1>12, <2>2
<1> QED BY <1>11, <1>12

LEMMA ProcessStatus ==
  ASSUME RunInv, NEW c \in Channels, Process(c)
  PROVE  StatusExact'
<1> DEFINE e == held[c]
<1>1. e \in Work /\ Seen' = Seen \cup {e} /\ outcome[e] \in {"done", "failed"}
  BY SeenOneMore
<1>2. outcome' = outcome
  BY DEF Process
<1>3. (\A o \in ObjectTypes, k \in Counters :
         counts[o][k] = Cardinality({w \in Seen : ObjType[w] = o /\ CounterOf(w) = k}))'
  BY ProcessCounts
<1>4. (stateKeys = {<<ObjType[w], Key[w]>> : w \in Seen})'
  BY <1>1 DEF RunInv, StatusExact, Process, UpdateStatus
<1>5. stateFlags' = IF outcome[e] = "done" THEN stateFlags \cup {Flag(e)} ELSE stateFlags \ {Flag(e)}
  BY DEF Process, UpdateStatus, SetFlag
<1>6. (\A f \in stateFlags : \E w \in Seen : outcome[w] = "done" /\ Flag(w) = f)'
  <2>1. \A f \in stateFlags' : \E w \in Seen' : outcome[w] = "done" /\ Flag(w) = f
    BY <1>1, <1>5 DEF RunInv, StatusExact
  <2> QED BY <1>2, <2>1 DEF Flag
<1>7. (\A w \in Seen : outcome[w] = "done" =>
         \/ Flag(w) \in stateFlags
         \/ \E v \in Seen : outcome[v] = "failed" /\ Flag(v) = Flag(w))'
  <2>1. \A w \in Seen' : outcome[w] = "done" =>
          \/ Flag(w) \in stateFlags'
          \/ \E v \in Seen' : outcome[v] = "failed" /\ Flag(v) = Flag(w)
    BY <1>1, <1>5 DEF RunInv, StatusExact
  <2> QED BY <1>2, <2>1 DEF Flag
<1>8. \A w, s : InSummary(w, s)' = InSummary(w, s)
  BY <1>2 DEF InSummary
<1>9. (newTags = {Key[w] : w \in {v \in Seen : InSummary(v, "Copied")}})'
  <2>1. newTags = {Key[w] : w \in {v \in Seen : InSummary(v, "Copied")}}
    BY DEF RunInv, StatusExact
  <2>2. newTags' = IF InSummary(e, "Copied") THEN newTags \cup {Key[e]} ELSE newTags
    BY DEF Process, UpdateSummary
  <2> QED BY <1>1, <1>8, <2>1, <2>2
<1>10. (deletedTags = {Key[w] : w \in {v \in Seen : InSummary(v, "Deleted")}})'
  <2>1. deletedTags = {Key[w] : w \in {v \in Seen : InSummary(v, "Deleted")}}
    BY DEF RunInv, StatusExact
  <2>2. deletedTags' = IF InSummary(e, "Deleted") THEN deletedTags \cup {Key[e]} ELSE deletedTags
    BY DEF Process, UpdateSummary
  <2> QED BY <1>1, <1>8, <2>1, <2>2
<1> QED BY <1>3, <1>4, <1>6, <1>7, <1>9, <1>10 DEF StatusExact

LEMMA ProcessStep ==
  ASSUME RunInv, TypeOK', NEW c \in Channels, Process(c)
  PROVE  RunInv'
<1>1. UNCHANGED <<phase, unchecked, verified, outcome, taken, over, result>> /\ phase = "run"
  BY DEF Process
<1>2. held' = [held EXCEPT ![c] = NoEvent] /\ held \in [Channels -> Work \cup {NoEvent}]
  BY DEF Process, RunInv, TypeOK
<1>3. OverClosed'
  <2> SUFFICES ASSUME NEW e \in over PROVE held'[e] = NoEvent /\ Closed(e)'
    BY <1>1 DEF OverClosed
  <2>1. held[e] = NoEvent /\ Closed(e) /\ e \in Channels
    BY DEF RunInv, OverClosed, TypeOK
  <2>2. Closed(e)'
    BY <1>1, <2>1 DEF Closed, Settled, Merged
  <2> QED BY <1>2, <2>1, <2>2
<1>4. TakenSettled' /\ Placed'
  BY <1>1 DEF RunInv, TakenSettled, Placed, Passed, Places
<1>5. InOnePlace' /\ StatusExact'
  BY SeenOneMore, ProcessStatus
<1> QED BY <1>1, <1>3, <1>4, <1>5 DEF RunInv, Before, Returned

LEMMA PanicStep ==
  ASSUME RunInv, TypeOK', NEW w \in Work, Panic(w)
  PROVE  RunInv'
<1>1. /\ UNCHANGED <<unchecked, verified, outcome, taken, held, over, statusVars, result>>
      /\ phase' = "crashed"
  BY DEF Panic
<1>2. Seen' = Seen
  BY <1>1 DEF Seen, InTransit
<1>3. StatusExact'
  BY <1>1, <1>2, StatusFrame DEF RunInv
<1>4. InOnePlace' /\ TakenSettled'
  BY <1>1 DEF RunInv, InOnePlace, TakenSettled
<1>5. OverClosed'
  BY <1>1 DEF RunInv, OverClosed, Closed, Settled, Merged
<1> QED BY <1>1, <1>3, <1>4, <1>5 DEF RunInv, Before, Placed, Returned

LEMMA ReturnStep ==
  ASSUME RunInv, TypeOK', Return
  PROVE  RunInv'
<1>1. /\ UNCHANGED <<unchecked, verified, outcome, taken, held, over, statusVars>>
      /\ phase = "run" /\ phase' = "ended" /\ Merged(EvtCh) \subseteq over
  BY DEF Return
<1>2. Seen' = Seen
  BY <1>1 DEF Seen, InTransit
<1>3. StatusExact'
  BY <1>1, <1>2, StatusFrame DEF RunInv
<1>4. InOnePlace' /\ TakenSettled' /\ Placed'
  BY <1>1 DEF RunInv, InOnePlace, TakenSettled, Placed, Passed, Places
<1>5. OverClosed'
  BY <1>1 DEF RunInv, OverClosed, Closed, Settled, Merged
<1>6. Returned'
  <2>1. Count("Failed")' = Count("Failed") /\ Merged(EvtCh)' = Merged(EvtCh)
    BY <1>1 DEF Count, Counter, Merged, statusVars
  <2>2. result' = "error" <=> Count("Failed") > 0
    BY DEF Return
  <2> QED BY <1>1, <2>1, <2>2 DEF Returned
<1> QED BY <1>1, <1>3, <1>4, <1>5, <1>6 DEF RunInv, Before

-----------------------------------------------------------------------------
(* The invariant *)

LEMMA InitEstablishesRunInv == Init => RunInv
<1> SUFFICES ASSUME Init PROVE RunInv
  OBVIOUS
<1>1. TypeOK /\ phase = "preflight"
  BY DEF Init, TypeOK, Outcomes
<1>2. Seen = {} /\ InOnePlace
  BY DEF Init, Seen, InOnePlace
<1>3. StatusExact
  <2>1. \A o \in ObjectTypes, k \in Counters :
          counts[o][k] = 0 /\ {w \in Seen : ObjType[w] = o /\ CounterOf(w) = k} = {}
    BY <1>2 DEF Init
  <2>2. Cardinality({}) = 0
    BY FS_EmptySet
  <2>3. \A o \in ObjectTypes, k \in Counters :
          counts[o][k] = Cardinality({w \in Seen : ObjType[w] = o /\ CounterOf(w) = k})
    BY <2>1, <2>2
  <2> QED BY <1>2, <2>3 DEF Init, StatusExact
<1>4. TakenSettled /\ Before /\ OverClosed
  BY DEF Init, TakenSettled, Before, OverClosed
<1> QED BY <1>1, <1>2, <1>3, <1>4 DEF RunInv, Placed, Returned

LEMMA NextPreservesRunInv == RunInv /\ TypeOK' /\ [Next]_vars => RunInv'
<1> SUFFICES ASSUME RunInv, TypeOK', [Next]_vars PROVE RunInv'
  OBVIOUS
<1>1. CASE PreflightFails \/ Start \/ \E d \in Destinations : CheckDestination(d)
  BY <1>1, PreflightSteps
<1>2. ASSUME NEW w \in Work, Omit(w) PROVE RunInv'
  <2>1. "absent" \in Outcomes \ {"open"} /\ ~HasEvent(w, "absent")
    BY DEF Outcomes, HasEvent
  <2>2. /\ phase = "run" /\ outcome[w] = "open" /\ outcome' = [outcome EXCEPT ![w] = "absent"]
        /\ UNCHANGED <<held, taken>>
        /\ UNCHANGED <<phase, unchecked, verified, over, statusVars, result>>
    BY <1>2 DEF Omit
  <2> QED BY <2>1, <2>2, SettleStep
<1>3. ASSUME NEW w \in Work, NEW o \in {"done", "failed", "skipped"}, Finish(w, o) PROVE RunInv'
  <2>1. o \in Outcomes \ {"open"}
    BY DEF Outcomes
  <2>2. /\ phase = "run" /\ outcome[w] = "open" /\ outcome' = [outcome EXCEPT ![w] = o]
        /\ IF HasEvent(w, o) THEN Emit(w) ELSE UNCHANGED <<held, taken>>
        /\ UNCHANGED <<phase, unchecked, verified, over, statusVars, result>>
    BY <1>3 DEF Finish, Possible
  <2>3. DestinationOf[w] \in Places
    BY <2>2 DEF RunInv, Placed
  <2> QED BY <2>1, <2>2, <2>3, SettleStep
<1>4. ASSUME NEW c \in Channels, Forward(c) \/ End(c) \/ Process(c) PROVE RunInv'
  BY <1>4, ForwardStep, EndStep, ProcessStep
<1>5. CASE Return
  BY <1>5, ReturnStep
<1>6. CASE Ended \/ UNCHANGED vars
  <2>1. UNCHANGED vars
    BY <1>6 DEF Ended
  <2>2. Seen' = Seen /\ UNCHANGED statusVars /\ outcome' = outcome
    BY <2>1 DEF Seen, InTransit, vars
  <2>3. StatusExact'
    BY <2>2, StatusFrame DEF RunInv
  <2>4. Count("Failed")' = Count("Failed")
    BY <2>1 DEF Count, Counter, vars, statusVars
  <2>5. Returned'
    BY <2>1, <2>4 DEF RunInv, Returned, Passed, Merged, vars
  <2>6. InOnePlace' /\ TakenSettled' /\ Before' /\ Placed'
    BY <2>1 DEF RunInv, InOnePlace, TakenSettled, Before, Placed, Passed, Places, vars
  <2>7. OverClosed'
    BY <2>1 DEF RunInv, OverClosed, Closed, Settled, Merged, vars
  <2> QED BY <2>3, <2>5, <2>6, <2>7 DEF RunInv
<1>7. ASSUME NEW w \in Work, Hang(w) PROVE RunInv'
  <2>1. "hung" \in Outcomes \ {"open"} /\ ~HasEvent(w, "hung")
    BY DEF Outcomes, HasEvent
  <2>2. /\ phase = "run" /\ outcome[w] = "open" /\ outcome' = [outcome EXCEPT ![w] = "hung"]
        /\ UNCHANGED <<held, taken>>
        /\ UNCHANGED <<phase, unchecked, verified, over, statusVars, result>>
    BY <1>7 DEF Hang, Possible
  <2>3. DestinationOf[w] \in Places
    BY <2>2 DEF RunInv, Placed
  <2> QED BY <2>1, <2>2, <2>3, SettleStep
<1>8. ASSUME NEW w \in Work, Panic(w) PROVE RunInv'
  BY <1>8, PanicStep
<1> QED BY <1>1, <1>2, <1>3, <1>4, <1>5, <1>6, <1>7, <1>8 DEF Next

LEMMA RunInvHolds == Spec => []RunInv
<1>1. Spec => Init /\ [][Next]_vars
  BY PTL DEF Spec
<1> QED
  BY <1>1, InitEstablishesRunInv, NextPreservesRunInv, TypeCorrect, PTL

\* The counters, the state and the summary are those of the events that have
\* been taken and have arrived.
THEOREM StatusIsExact == Spec => []StatusExact
<1>1. RunInv => StatusExact
  BY DEF RunInv
<1> QED BY <1>1, RunInvHolds, PTL

-----------------------------------------------------------------------------
(* The result *)

\* When the channel that Run reads is closed, every forwarder has ended.
LEMMA AllOver ==
  ASSUME RunInv, Merged(EvtCh) \subseteq over
  PROVE  over = Channels
<1>1. over \in SUBSET Channels
  BY DEF RunInv, TypeOK
<1>2. ASSUME NEW c \in Channels, Into[c] \in over \cup {EvtCh} PROVE c \in over
  <2>1. c \in Merged(Into[c])
    BY DEF Merged
  <2>2. Into[c] \in over => Closed(Into[c])
    BY DEF RunInv, OverClosed
  <2> QED BY <1>2, <2>1, <2>2 DEF Closed
<1>3. \A S \in SUBSET Channels :
        (\A c \in Channels : Into[c] \in S \cup {EvtCh} => c \in S) => S = Channels
  BY RunAssumption
<1> QED BY <1>1, <1>2, <1>3

\* Run counts a failure exactly if the handlers have seen one.
LEMMA CountFailed ==
  ASSUME RunInv
  PROVE  Count("Failed") > 0 <=> \E w \in Seen : outcome[w] = "failed"
<1> DEFINE F(o) == {w \in Seen : ObjType[w] = o /\ CounterOf(w) = "Failed"}
<1>1. \A o \in ObjectTypes : counts[o]["Failed"] = Cardinality(F(o))
  BY DEF RunInv, StatusExact, Counters
<1>2. Seen \subseteq Work /\ IsFiniteSet(Seen)
  <2>1. Seen \subseteq Work
    BY DEF RunInv, TypeOK, Seen
  <2> QED BY <2>1, RunAssumption, FS_Subset
<1>3. \A o : IsFiniteSet(F(o))
  <2> TAKE o
  <2>1. F(o) \subseteq Seen
    OBVIOUS
  <2> QED BY <1>2, <2>1, FS_Subset
<1>4. \A o : Cardinality(F(o)) \in Nat /\ (Cardinality(F(o)) = 0 <=> F(o) = {})
  BY <1>3, FS_CardinalityType, FS_EmptySet
<1>5. Count("Failed") = Cardinality(F("SourceDirectory")) + Cardinality(F("Image"))
                          + Cardinality(F("Tag"))
  BY <1>1 DEF Count, Counter, ObjectTypes
<1>6. Count("Failed") > 0 <=> F("SourceDirectory") # {} \/ F("Image") # {} \/ F("Tag") # {}
  <2> HIDE DEF F
  <2>1. ASSUME NEW x \in Nat, NEW y \in Nat, NEW z \in Nat
        PROVE  x + y + z > 0 <=> x # 0 \/ y # 0 \/ z # 0
    OBVIOUS
  <2> QED BY <1>4, <1>5, <2>1
<1>7. \A w \in Seen : CounterOf(w) = "Failed" <=> outcome[w] = "failed"
  <2>1. \A w \in Seen : outcome[w] \in {"done", "failed"} /\ StatusType[w] \in StatusTypes
    BY <1>2, RunAssumption DEF RunInv, TakenSettled, Seen
  <2>2. "Failed" \notin StatusTypes
    BY DEF StatusTypes
  <2> QED BY <2>1, <2>2 DEF CounterOf
<1>8. \A w \in Seen : ObjType[w] \in {"SourceDirectory", "Image", "Tag"}
  BY <1>2, RunAssumption DEF ObjectTypes
<1> QED BY <1>6, <1>7, <1>8

\* Run returns after all work, has kept off the destinations it may not push
\* to, and returns an error exactly if an event of a failure was taken.
THEOREM ResultIsExact == Spec => []ResultExact
<1>1. RunInv => ResultExact
  <2> SUFFICES ASSUME RunInv, phase = "ended", unchecked = {}, verified # {}
               PROVE  /\ \A w \in Work : Settled(w)
                      /\ \A w \in Work : DestinationOf[w] \in Destinations \ verified => outcome[w] = "absent"
                      /\ result = "error" <=> \E w \in taken : outcome[w] = "failed"
    BY DEF ResultExact
  <2>1. Merged(EvtCh) \subseteq over /\ (result = "error" <=> Count("Failed") > 0)
    BY DEF RunInv, Returned, Passed
  <2>2. over = Channels
    BY <2>1, AllOver
  <2>3. Seen = taken
    <3>1. \A c \in Channels : held[c] = NoEvent
      BY <2>2 DEF RunInv, OverClosed
    <3>2. NoEvent \notin Work
      BY RunAssumption
    <3>3. InTransit = {}
      BY <3>1, <3>2 DEF InTransit
    <3> QED BY <3>3 DEF Seen
  <2>4. \A w \in Work : Settled(w)
    <3> TAKE w \in Work
    <3>1. ChannelOf[w] \in Channels /\ Merged(ChannelOf[w]) = {}
      BY RunAssumption DEF Merged
    <3>2. Closed(ChannelOf[w])
      BY <2>2, <3>1 DEF RunInv, OverClosed
    <3> QED BY <3>1, <3>2 DEF Closed
  <2>5. \A w \in Work : DestinationOf[w] \in Destinations \ verified => outcome[w] = "absent"
    BY RunAssumption DEF RunInv, Placed, Passed, Places
  <2> QED BY <2>1, <2>3, <2>4, <2>5, CountFailed
<1> QED BY <1>1, RunInvHolds, PTL

-----------------------------------------------------------------------------
(* That the run ends *)

\* Some goroutine is not waiting: the guards of the actions.  In preflight it
\* is the one that runs the checks.
SomeoneCanGo ==
  \/ phase = "preflight"
  \/ /\ phase = "run"
     /\ \/ \E w \in Work :
             /\ outcome[w] = "open"
             /\ \/ \A n \in Needs[w] : outcome[n] = "done"
                \/ \E n \in Needs[w] : outcome[n] \in {"absent", "skipped", "failed"}
        \/ \E c \in Channels :
             \/ /\ held[c] # NoEvent
                /\ \/ Into[c] = EvtCh
                   \/ Into[c] \in Channels \ over /\ held[Into[c]] = NoEvent
             \/ c \notin over /\ Closed(c) /\ held[c] = NoEvent
        \/ Merged(EvtCh) \subseteq over

\* A finite tree has leaves: no set of channels has, for each of its members,
\* one that is merged into it.
LEMMA TreeHasLeaves ==
  ASSUME NEW N \in SUBSET Channels, \A c \in N : \E d \in N : Into[d] = c
  PROVE  N = {}
<1> DEFINE M == {d \in N : Into[d] \in N}
           f == [d \in M |-> Into[d]]
<1>1. IsFiniteSet(N)
  BY RunAssumption, FS_Subset
<1>2. M \in SUBSET N /\ f \in Surjection(M, N)
  BY DEF Surjection
<1>3. IsFiniteSet(M) /\ Cardinality(M) <= Cardinality(N)
      /\ (Cardinality(N) = Cardinality(M) => N = M)
  BY <1>1, <1>2, FS_Subset
<1> HIDE DEF M, f
<1>4. Cardinality(N) <= Cardinality(M)
  BY <1>2, <1>3, FS_Surjection
<1>5. Cardinality(N) \in Nat /\ Cardinality(M) \in Nat
  BY <1>1, <1>3, FS_CardinalityType
<1>6. N = M
  BY <1>3, <1>4, <1>5
<1>7. \A c \in N : Into[c] \in N
  BY <1>6 DEF M
<1>8. Channels \ N = Channels
  <2>1. \A c \in Channels : Into[c] \in (Channels \ N) \cup {EvtCh} => c \in Channels \ N
    BY <1>7, RunAssumption
  <2>2. \A S \in SUBSET Channels :
          (\A c \in Channels : Into[c] \in S \cup {EvtCh} => c \in S) => S = Channels
    BY RunAssumption
  <2> QED BY <2>1, <2>2
<1> QED BY <1>8

\* An event that is under way can go on until Run has it, unless another one
\* is before it, and the channels are closed from the workers up to Run: the
\* workers, the forwarders and Run never wait for each other, and if they all
\* wait, it is for work that hangs and no event is on its way.
THEOREM NobodyWaitsForEver == Spec => [](Halted \/ SomeoneCanGo)
<1>1. RunInv => Halted \/ SomeoneCanGo
  <2> SUFFICES ASSUME RunInv, phase = "run", ~OnlyHungLeft, ~SomeoneCanGo PROVE FALSE
    BY DEF RunInv, TypeOK, SomeoneCanGo, Halted
  <2>1. \A c \in Channels : held[c] = NoEvent
    <3> DEFINE S == {c \in Channels : held[c] = NoEvent}
    <3>1. ASSUME NEW c \in Channels, Into[c] \in S \cup {EvtCh} PROVE c \in S
      <4>1. SUFFICES ASSUME held[c] # NoEvent PROVE FALSE
        OBVIOUS
      <4>2. Into[c] \in Channels /\ Into[c] \in over /\ c \in Merged(Into[c])
        BY <3>1, <4>1 DEF SomeoneCanGo, Merged
      <4>3. c \in over
        BY <4>2 DEF RunInv, OverClosed, Closed
      <4> QED BY <4>1, <4>3 DEF RunInv, OverClosed
    <3>2. \A T \in SUBSET Channels :
            (\A c \in Channels : Into[c] \in T \cup {EvtCh} => c \in T) => T = Channels
      BY RunAssumption
    <3>3. S = Channels
      BY <3>1, <3>2
    <3> QED BY <3>3
  <2>2. \A w \in Work : Settled(w)
    <3>1. ASSUME NEW w \in Work, outcome[w] = "open" PROVE \E n \in Needs[w] : ~Settled(n)
      <4>1. /\ \A n \in Needs[w] : outcome[n] \notin {"absent", "skipped", "failed"}
            /\ \E n \in Needs[w] : outcome[n] # "done"
        BY <3>1 DEF SomeoneCanGo
      <4>2. \A n \in Needs[w] : outcome[n] \in Outcomes
        BY RunAssumption DEF RunInv, TypeOK
      <4> QED BY <4>1, <4>2 DEF Outcomes, Settled
    <3>2. \A w \in Work : outcome[w] # "hung"
      BY <2>1, <3>1 DEF OnlyHungLeft
    <3> DEFINE S == {w \in Work : Settled(w)}
    <3>3. ASSUME NEW w \in Work, Needs[w] \subseteq S PROVE w \in S
      BY <3>1, <3>2, <3>3 DEF Settled
    <3>4. \A T \in SUBSET Work : (\A w \in Work : Needs[w] \subseteq T => w \in T) => T = Work
      BY RunAssumption
    <3>5. S = Work
      BY <3>3, <3>4
    <3> QED BY <3>5
  <2>3. Channels \ over = {}
    <3>1. ASSUME NEW c \in Channels \ over PROVE \E d \in Channels \ over : Into[d] = c
      <4>1. ~Closed(c)
        BY <2>1 DEF SomeoneCanGo
      <4> QED BY <2>2, <4>1 DEF Closed, Merged
    <3> QED BY <3>1, TreeHasLeaves
  <2> QED BY <2>3 DEF SomeoneCanGo, Merged
<1> QED BY <1>1, RunInvHolds, PTL

\* The channels that what c's forwarder has will pass: the least set that has
\* c and, with a channel, the one it is merged into.
Above(c) ==
  {d \in Channels :
     \A S \in SUBSET Channels :
       c \in S /\ (\A e \in S : Into[e] \in Channels => Into[e] \in S) => d \in S}

LEMMA AboveGrows ==
  ASSUME NEW c \in Channels
  PROVE  /\ c \in Above(c)
         /\ \A d \in Above(c) : Above(d) \subseteq Above(c)
         /\ \A d \in Above(c) : Into[d] \in Channels => Into[d] \in Above(c)
         /\ Into[c] \in Channels =>
              Above(Into[c]) \subseteq Above(c) /\ Above(c) \subseteq Above(Into[c]) \cup {c}
<1>1. c \in Above(c)
  BY DEF Above
<1>2. \A d \in Above(c) : Into[d] \in Channels => Into[d] \in Above(c)
  BY DEF Above
<1>3. \A d \in Above(c) : Above(d) \subseteq Above(c)
  BY DEF Above
<1>4. ASSUME Into[c] \in Channels
      PROVE  Above(Into[c]) \subseteq Above(c) /\ Above(c) \subseteq Above(Into[c]) \cup {c}
  <2>1. Above(Into[c]) \subseteq Above(c)
    BY <1>1, <1>2, <1>3, <1>4
  <2> DEFINE S == Above(Into[c]) \cup {c}
  <2>2. S \in SUBSET Channels /\ c \in S
    BY DEF Above
  <2>3. \A e \in S : Into[e] \in Channels => Into[e] \in S
    BY <1>4 DEF Above
  <2>4. Above(c) \subseteq S
    BY <2>2, <2>3 DEF Above
  <2> QED BY <2>1, <2>4
<1> QED BY <1>1, <1>2, <1>3, <1>4

\* No channel is above the one it is merged into.
LEMMA AboveIsStrict ==
  ASSUME NEW c \in Channels, Into[c] \in Channels
  PROVE  c \notin Above(Into[c])
<1> DEFINE S == {x \in Channels : Into[x] \in Channels => x \notin Above(Into[x])}
<1>1. ASSUME NEW x \in Channels, Into[x] \in S \cup {EvtCh} PROVE x \in S
  <2>1. SUFFICES ASSUME Into[x] \in Channels, x \in Above(Into[x]) PROVE FALSE
    OBVIOUS
  <2> DEFINE p == Into[x]
  <2>2. p \in Channels /\ p \in S
    BY <1>1, <2>1, RunAssumption
  <2>3. p \in Above(x)
    BY <2>1, AboveGrows
  <2>4. CASE Into[p] \in Channels
    <3>1. p \notin Above(Into[p])
      BY <2>2, <2>4
    <3>2. x # p
      BY <2>1, <3>1
    <3>3. x \in Above(Into[p])
      BY <2>1, <2>2, <2>4, <3>2, AboveGrows
    <3>4. Above(x) \subseteq Above(Into[p])
      BY <2>4, <3>3, AboveGrows
    <3> QED BY <2>3, <3>1, <3>4
  <2>5. CASE Into[p] \notin Channels
    <3> DEFINE T == {p}
    <3>1. /\ T \in SUBSET Channels /\ p \in T
          /\ \A e \in T : Into[e] \in Channels => Into[e] \in T
      BY <2>2, <2>5
    <3> HIDE DEF T
    <3>2. Above(p) \subseteq T
      BY <3>1 DEF Above
    <3>3. x = p
      BY <2>1, <3>2 DEF T
    <3> QED BY <2>1, <2>5, <3>3
  <2> QED BY <2>4, <2>5
<1>2. \A T \in SUBSET Channels :
        (\A x \in Channels : Into[x] \in T \cup {EvtCh} => x \in T) => T = Channels
  BY RunAssumption
<1>3. S = Channels
  BY <1>1, <1>2
<1> QED BY <1>3

\* What a run still has before it: destinations to check, items to settle,
\* channels that events may pass, forwarders to end, and phases to leave.
Open == {w \in Work : outcome[w] = "open"}
Ahead ==
  {x \in Work \X Channels :
     x[1] \in Open \/ \E c \in Channels : held[c] = x[1] /\ x[2] \in Above(c)}
PhasesLeft == {p \in {"preflight", "run"} : phase \in {"preflight", p}}

Parts == <<unchecked, Open, Ahead, Channels \ over, PhasesLeft>>
Left == UNION {{i} \X Parts[i] : i \in 1 .. 5}

\* Every step takes from a finite set to which nothing is added.
StepsRunOut == [][IsFiniteSet(Left) /\ Left' \subseteq Left /\ Left' # Left]_vars

LEMMA LeftFinite ==
  ASSUME TypeOK
  PROVE  IsFiniteSet(Left)
<1>1. IsFiniteSet({1} \X unchecked)
  BY RunAssumption, FS_Subset, FS_Singleton, FS_Product DEF TypeOK
<1>2. IsFiniteSet({2} \X Open)
  <2>1. Open \in SUBSET Work
    BY DEF Open
  <2> QED BY <2>1, RunAssumption, FS_Subset, FS_Singleton, FS_Product
<1>3. IsFiniteSet({3} \X Ahead)
  <2>1. Ahead \in SUBSET (Work \X Channels)
    BY DEF Ahead
  <2>2. IsFiniteSet(Work \X Channels)
    BY RunAssumption, FS_Product
  <2> QED BY <2>1, <2>2, FS_Subset, FS_Singleton, FS_Product
<1>4. IsFiniteSet({4} \X (Channels \ over))
  BY RunAssumption, FS_Difference, FS_Singleton, FS_Product
<1>5. IsFiniteSet({5} \X PhasesLeft)
  <2>1. PhasesLeft \in SUBSET ({"preflight"} \cup {"run"})
    BY DEF PhasesLeft
  <2>2. IsFiniteSet({"preflight"} \cup {"run"})
    BY FS_Singleton, FS_Union
  <2> QED BY <2>1, <2>2, FS_Subset, FS_Singleton, FS_Product
<1>6. Left = ((({1} \X unchecked) \cup ({2} \X Open)) \cup ({3} \X Ahead))
               \cup (({4} \X (Channels \ over)) \cup ({5} \X PhasesLeft))
  <2>1. 1 .. 5 = {1, 2, 3, 4, 5}
    OBVIOUS
  <2> QED BY <2>1 DEF Left, Parts
<1> QED BY <1>1, <1>2, <1>3, <1>4, <1>5, <1>6, FS_Union

\* No part grows, and one loses something.
Shrinks ==
  /\ unchecked' \subseteq unchecked /\ Open' \subseteq Open /\ Ahead' \subseteq Ahead
  /\ over \subseteq over' /\ PhasesLeft' \subseteq PhasesLeft
  /\ \/ unchecked' # unchecked \/ Open' # Open \/ Ahead' # Ahead
     \/ over' # over \/ PhasesLeft' # PhasesLeft

LEMMA LeftShrinks ==
  ASSUME TypeOK, TypeOK', Shrinks
  PROVE  Left' \subseteq Left /\ Left' # Left
<1>1. /\ Parts[1] = unchecked /\ Parts[2] = Open /\ Parts[3] = Ahead
      /\ Parts[4] = Channels \ over /\ Parts[5] = PhasesLeft
      /\ Parts'[1] = unchecked' /\ Parts'[2] = Open' /\ Parts'[3] = Ahead'
      /\ Parts'[4] = Channels \ over' /\ Parts'[5] = PhasesLeft'
  BY DEF Parts
<1>2. \A i \in 1 .. 5 : Parts'[i] \subseteq Parts[i]
  <2>1. 1 .. 5 = {1, 2, 3, 4, 5}
    OBVIOUS
  <2> QED BY <1>1, <2>1 DEF Shrinks
<1>3. \E i \in 1 .. 5 : \E x \in Parts[i] : x \notin Parts'[i]
  <2>1. \/ \E x \in unchecked : x \notin unchecked'
        \/ \E x \in Open : x \notin Open'
        \/ \E x \in Ahead : x \notin Ahead'
        \/ \E x \in Channels \ over : x \notin Channels \ over'
        \/ \E x \in PhasesLeft : x \notin PhasesLeft'
    BY DEF Shrinks, TypeOK
  <2>2. 1 \in 1 .. 5 /\ 2 \in 1 .. 5 /\ 3 \in 1 .. 5 /\ 4 \in 1 .. 5 /\ 5 \in 1 .. 5
    OBVIOUS
  <2> QED BY <1>1, <2>1, <2>2
<1>4. Left' = UNION {{i} \X Parts'[i] : i \in 1 .. 5}
  BY DEF Left
<1>5. PICK i \in 1 .. 5 : \E x \in Parts[i] : x \notin Parts'[i]
  BY <1>3
<1>6. PICK x \in Parts[i] : x \notin Parts'[i]
  BY <1>5
<1>7. <<i, x>> \in Left
  BY <1>6 DEF Left
<1>8. <<i, x>> \notin Left'
  BY <1>4, <1>6
<1>9. Left' \subseteq Left
  BY <1>2, <1>4 DEF Left
<1> QED BY <1>7, <1>8, <1>9

\* The event that the forwarder of c has goes on into another one, or to Run.
LEMMA EventLeaves ==
  ASSUME RunInv, NEW c \in Channels, Forward(c) \/ Process(c)
  PROVE  Ahead' \subseteq Ahead /\ Ahead' # Ahead
<1> DEFINE w == held[c]
<1>1. /\ outcome' = outcome /\ w # NoEvent /\ c \in Channels
      /\ held \in [Channels -> Work \cup {NoEvent}]
      /\ \/ Into[c] \in Channels /\ held' = [held EXCEPT ![c] = NoEvent, ![Into[c]] = w]
         \/ held' = [held EXCEPT ![c] = NoEvent]
  BY DEF Forward, Process, RunInv, TypeOK
<1>2. w \in Work /\ NoEvent \notin Work
  BY <1>1, RunAssumption
<1>3. w \notin Open
  BY <1>1 DEF RunInv, InOnePlace, TakenSettled, Open
<1>4. Open' = Open
  BY <1>1 DEF Open
<1>5. \A d \in Channels \ {c} : held[d] # w
  BY <1>1 DEF RunInv, InOnePlace
<1>6. \A d \in Channels : held'[d] # NoEvent =>
        \/ d # c /\ held'[d] = held[d]
        \/ Into[c] = d /\ d # c /\ held'[d] = w
        \/ Into[c] = c /\ held'[d] = w
  BY <1>1
<1>7. Into[c] \in Channels => Above(Into[c]) \subseteq Above(c) /\ c \notin Above(Into[c])
  BY AboveGrows, AboveIsStrict
<1>8. Into[c] # c
  BY <1>7, AboveGrows
<1>9. ASSUME NEW x \in Ahead' PROVE x \in Ahead
  <2>1. x \in Work \X Channels
    BY <1>9 DEF Ahead
  <2>2. CASE x[1] \in Open
    BY <2>1, <2>2 DEF Ahead
  <2>3. CASE x[1] \notin Open
    <3>1. PICK d \in Channels : held'[d] = x[1] /\ x[2] \in Above(d)
      BY <1>4, <1>9, <2>3 DEF Ahead, Above
    <3>2. held'[d] # NoEvent
      BY <1>2, <2>1, <3>1
    <3>3. CASE held'[d] = held[d]
      BY <2>1, <3>1, <3>3 DEF Ahead
    <3>4. CASE Into[c] = d /\ held'[d] = w
      <4>1. held[c] = x[1] /\ x[2] \in Above(c)
        BY <1>7, <3>1, <3>4
      <4> QED BY <2>1, <4>1 DEF Ahead
    <3> QED BY <1>6, <1>8, <3>2, <3>3, <3>4
  <2> QED BY <2>2, <2>3
<1>10. <<w, c>> \in Ahead
  BY <1>2, AboveGrows DEF Ahead
<1>11. <<w, c>> \notin Ahead'
  <2>1. SUFFICES ASSUME <<w, c>> \in Ahead' PROVE FALSE
    OBVIOUS
  <2>2. PICK d \in Channels : held'[d] = w /\ c \in Above(d)
    <3>1. w \in Open' \/ \E d \in Channels : held'[d] = w /\ c \in Above(d)
      BY <2>1 DEF Ahead, Above
    <3> QED BY <1>3, <1>4, <3>1
  <2>3. CASE d # c /\ held'[d] = held[d]
    BY <1>5, <2>2, <2>3
  <2>4. CASE Into[c] = d
    BY <1>7, <2>2, <2>4
  <2> QED BY <1>1, <1>6, <1>8, <2>2, <2>3, <2>4
<1> QED BY <1>9, <1>10, <1>11

\* An item that is settled or hangs adds no channels but those it had before.
LEMMA SettlingLeaves ==
  ASSUME RunInv, NEW w \in Work,
         Omit(w) \/ Hang(w) \/ \E o \in {"done", "failed", "skipped"} : Finish(w, o)
  PROVE  Open' \subseteq Open /\ Open' # Open /\ Ahead' \subseteq Ahead
<1>1. /\ outcome[w] = "open" /\ outcome'[w] # "open" /\ outcome \in [Work -> Outcomes]
      /\ \A v \in Work \ {w} : outcome'[v] = outcome[v]
  BY DEF Omit, Hang, Finish, Possible, RunInv, TypeOK
<1>2. \A c \in Channels : held'[c] = held[c] \/ held'[c] = w
  BY DEF Omit, Hang, Finish, Emit, RunInv, TypeOK
<1>3. Open' = Open \ {w} /\ w \in Open
  BY <1>1 DEF Open
<1>4. ASSUME NEW x \in Ahead' PROVE x \in Ahead
  <2>1. x \in Work \X Channels
    BY <1>4 DEF Ahead
  <2>2. CASE x[1] = w
    BY <1>3, <2>1, <2>2 DEF Ahead
  <2>3. CASE x[1] \in Open
    BY <2>1, <2>3 DEF Ahead
  <2>4. CASE x[1] # w /\ x[1] \notin Open
    <3>1. PICK c \in Channels : held'[c] = x[1] /\ x[2] \in Above(c)
      BY <1>3, <1>4, <2>4 DEF Ahead, Above
    <3>2. held[c] = x[1]
      BY <1>2, <2>4, <3>1
    <3> QED BY <2>1, <3>1, <3>2 DEF Ahead
  <2> QED BY <2>2, <2>3, <2>4
<1> QED BY <1>3, <1>4

\* The steps that are neither an item's nor an event's.
LEMMA PhaseLeaves ==
  ASSUME RunInv,
         \/ PreflightFails \/ Start \/ Return \/ (\E w \in Work : Panic(w))
         \/ \E d \in Destinations : CheckDestination(d)
         \/ \E c \in Channels : End(c)
  PROVE  Shrinks
<1>1. ASSUME PreflightFails \/ Return \/ (\E w \in Work : Panic(w))
                \/ (\E d \in Destinations : CheckDestination(d))
                \/ \E c \in Channels : End(c)
      PROVE  Open' = Open /\ Ahead' = Ahead
  <2>1. outcome' = outcome /\ held' = held
    BY <1>1 DEF PreflightFails, Return, Panic, CheckDestination, End
  <2> QED BY <2>1 DEF Open, Ahead, Above
<1>2. CASE PreflightFails \/ Return \/ \E w \in Work : Panic(w)
  <2>1. unchecked' = unchecked /\ over' = over
    BY <1>2 DEF PreflightFails, Return, Panic
  <2>2. PhasesLeft' \subseteq PhasesLeft /\ PhasesLeft' # PhasesLeft
    BY <1>2 DEF PreflightFails, Return, Panic, Possible, PhasesLeft
  <2> QED BY <1>1, <1>2, <2>1, <2>2 DEF Shrinks
<1>3. CASE \E d \in Destinations : CheckDestination(d)
  <2>1. /\ unchecked' \subseteq unchecked /\ unchecked' # unchecked
        /\ over' = over /\ PhasesLeft' = PhasesLeft
    BY <1>3 DEF CheckDestination, PhasesLeft
  <2> QED BY <1>1, <1>3, <2>1 DEF Shrinks
<1>4. CASE \E c \in Channels : End(c)
  <2>1. /\ over \subseteq over' /\ over' # over
        /\ unchecked' = unchecked /\ PhasesLeft' = PhasesLeft
    BY <1>4 DEF End, PhasesLeft
  <2> QED BY <1>1, <1>4, <2>1 DEF Shrinks
<1>5. CASE Start
  <2>1. /\ unchecked' = unchecked /\ over' = over /\ held' = held
        /\ phase = "preflight" /\ phase' = "run"
    BY <1>5 DEF Start
  <2>2. PhasesLeft' = {"run"} /\ PhasesLeft = {"preflight", "run"}
    BY <2>1 DEF PhasesLeft
  <2>3. Open = Work /\ Open' \subseteq Work
    BY <2>1 DEF RunInv, Before, Open
  <2>4. Ahead' \subseteq Ahead
    BY <2>3 DEF Ahead
  <2> QED BY <2>1, <2>2, <2>3, <2>4 DEF Shrinks
<1> QED BY <1>2, <1>3, <1>4, <1>5

\* With NobodyWaitsForEver this is Ends, for any tree of channels and any
\* work, but for the step to the liveness formula: emit does not wait, and
\* whoever waits for wg.Done waits for what hangs or has finitely many steps
\* left.
THEOREM RunTakesFinitelyManySteps == Spec => StepsRunOut
<1>1. ASSUME RunInv, TypeOK', Next, vars' # vars
      PROVE  IsFiniteSet(Left) /\ Left' \subseteq Left /\ Left' # Left
  <2>1. Shrinks
    <3>1. ASSUME NEW c \in Channels, Forward(c) \/ Process(c) PROVE Shrinks
      <4>1. UNCHANGED <<unchecked, over, phase, outcome>>
        BY <3>1 DEF Forward, Process
      <4>2. Open' = Open /\ PhasesLeft' = PhasesLeft
        BY <4>1 DEF Open, PhasesLeft
      <4> QED BY <1>1, <3>1, <4>1, <4>2, EventLeaves DEF Shrinks
    <3>2. ASSUME NEW w \in Work,
                 Omit(w) \/ Hang(w) \/ \E o \in {"done", "failed", "skipped"} : Finish(w, o)
          PROVE  Shrinks
      <4>1. UNCHANGED <<unchecked, over, phase>>
        BY <3>2 DEF Omit, Hang, Finish
      <4>2. PhasesLeft' = PhasesLeft
        BY <4>1 DEF PhasesLeft
      <4> QED BY <1>1, <3>2, <4>1, <4>2, SettlingLeaves DEF Shrinks
    <3>3. ~Ended
      BY <1>1 DEF Ended
    <3> QED BY <1>1, <3>1, <3>2, <3>3, PhaseLeaves DEF Next
  <2>2. TypeOK
    BY <1>1 DEF RunInv
  <2> QED BY <1>1, <2>1, <2>2, LeftFinite, LeftShrinks
<1>2. RunInv /\ RunInv' /\ [Next]_vars
        => [IsFiniteSet(Left) /\ Left' \subseteq Left /\ Left' # Left]_vars
  BY <1>1 DEF RunInv
<1> QED BY <1>2, RunInvHolds, PTL DEF Spec, StepsRunOut
=============================================================================
