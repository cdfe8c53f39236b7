---------------------------- MODULE MemLimProofs ----------------------------
(***************************************************************************)
(* Theorems about MemLim: its types; load is shed only from admitted       *)
(* requests, whatever overlaps; and while no two updates overlap, the      *)
(* queue and memtrack are exact, the process does not panic, the memory    *)
(* admitted stays below the limit and a request of at least the limit is   *)
(* never admitted.                                                         *)
(***************************************************************************)
EXTENDS MemLim, FiniteSetTheorems, TLAPS

Appending == {"appending", "written"}

\* What the manager and the appending goroutines hold is within the array.
InBounds ==
  /\ \A r \in Requests :
       /\ req[r].pc \in Appending => req[r].seen \in 0..Slots
       /\ req[r].pc = "written" => req[r].seen + 1 \in 1..Slots
  /\ mgr.pc \in {"activate", "remove"} => mgr.at \in 1..Slots
  /\ mgr.pc = "remove" => mgr.seen \in 0..Slots
  /\ mgr.pc = "remove" /\ ~crashed => mgr.at <= mgr.seen
  /\ mgr.pc \in {"activate", "remove", "track"} => mgr.picked \in Requests
  /\ \A s \in Shedders : shed[s].pc = "killing" => shed[s].list # <<>>

\* No slot that was never written is within a length that someone has loaded.
SlotsWritten ==
  /\ \A i \in 1..len : slots[i] \in Requests
  /\ \A r \in Requests :
       /\ req[r].pc \in Appending => \A i \in 1..req[r].seen : slots[i] \in Requests
       /\ req[r].pc = "written" => slots[req[r].seen + 1] \in Requests
  /\ mgr.pc = "remove" => \A i \in 1..mgr.seen : slots[i] \in Requests

AllIn(list, S) == \A i \in 1..Len(list) : list[i] \in S

\* Everyone in a list of activated goroutines is admitted or about to be.
ActiveAdmitted ==
  /\ AllIn(active, released \cup InHand)
  /\ AllIn(mgr.list, released \cup InHand)
  /\ \A s \in Shedders : AllIn(shed[s].list, released \cup InHand)

\* Without an overlap, whoever updates the queue does it alone and with its
\* present length, and the manager holds a waiting request.
Alone ==
  ~raced =>
    /\ \A r, q \in Requests :
         req[r].pc \in Appending /\ req[q].pc \in Appending => r = q
    /\ \A r \in Requests :
         /\ req[r].pc \in Appending => mgr.pc # "remove" /\ req[r].seen = len
         /\ req[r].pc = "written" => slots[len + 1] = r
         /\ r \in released => req[r].pc \notin {"new", "appending", "written"}
    /\ mgr.pc = "activate" => mgr.at <= len /\ slots[mgr.at] = mgr.picked
    /\ mgr.pc = "remove" => mgr.seen = len
    /\ mgr.pc \in {"remove", "track"} =>
         req[mgr.picked].pc = "waiting" /\ mgr.picked \notin released

IInv ==
  /\ TypeOK
  /\ InBounds
  /\ SlotsWritten
  /\ ActiveAdmitted
  /\ OnlyAdmittedKilled
  /\ Alone
  /\ QueueExact

-----------------------------------------------------------------------------
(* Types and bounds *)

LEMMA IdleType == Idle \in ManagerStates
<1>1. <<>> \in Seq(Requests) /\ 0 \in 0..Slots
  BY MemLimAssumption
<1>2. QED
  BY <1>1 DEF Idle, ManagerStates

LEMMA InitEstablishesIInv == Init => IInv
<1> SUFFICES ASSUME Init PROVE IInv
  OBVIOUS
<1> USE MemLimAssumption DEF Init
<1>1. TypeOK
  <2>1. [pc |-> "new", seen |-> 0] \in RequestStates
    BY DEF RequestStates, Places
  <2>2. <<>> \in Seq(Requests) /\ [pc |-> "new", list |-> <<>>] \in ShedStates
    BY DEF ShedStates
  <2>3. 0 \in 0 .. Word - 1
    OBVIOUS
  <2>4. /\ slots \in [1..Slots -> Requests \cup {Nobody}] /\ len \in 0..Slots
        /\ released \subseteq Requests /\ killed \subseteq Requests
    OBVIOUS
  <2>5. req \in [Requests -> RequestStates] /\ shed \in [Shedders -> ShedStates]
    BY <2>1, <2>2
  <2>6. QED
    BY <2>2, <2>3, <2>4, <2>5, IdleType DEF TypeOK
<1> USE DEF Idle
<1>2. InBounds /\ SlotsWritten
  BY DEF InBounds, SlotsWritten, Appending
<1>3. ActiveAdmitted /\ OnlyAdmittedKilled
  BY DEF ActiveAdmitted, OnlyAdmittedKilled, AllIn
<1>4. Alone /\ QueueExact
  BY DEF Alone, QueueExact, Listed, At, Appending
<1>5. QED
  BY <1>1, <1>2, <1>3, <1>4 DEF IInv

\* Subtraction and addition of unsigned integers stay below Word.
LEMMA Modulo == ASSUME NEW x \in Int PROVE x % Word \in 0 .. Word - 1
  BY MemLimAssumption

LEMMA AvailableType ==
  ASSUME TypeOK, NEW alloc \in Allocs PROVE Available(alloc) \in Nat
<1>1. Used(alloc) \in Int
  BY MemLimAssumption DEF TypeOK, Used
<1>2. Limit - Used(alloc) \in Int
  BY <1>1, MemLimAssumption
<1>3. QED
  BY <1>2, Modulo, MemLimAssumption DEF Available

\* The parts of a request's and of the manager's state.
LEMMA StateTypes ==
  ASSUME TypeOK
  PROVE  /\ \A r \in Requests : req[r].pc \in Places /\ req[r].seen \in Nat
         /\ mgr.seen \in Nat /\ mgr.at \in 0..Slots
         /\ mgr.picked \in Requests \cup {Nobody} /\ mgr.list \in Seq(Requests)
         /\ \A s \in Shedders : shed[s].list \in Seq(Requests)
  BY DEF TypeOK, RequestStates, ManagerStates, ShedStates

LEMMA GoesType ==
  ASSUME TypeOK, NEW r \in Requests, NEW from, NEW to \in Places, NEW n \in Nat,
         Goes(r, from, to, n)
  PROVE  /\ req' \in [Requests -> RequestStates]
         /\ UNCHANGED <<active, released, mgr, shed, killed, crashed>>
<1>1. [pc |-> to, seen |-> n] \in RequestStates
  BY DEF RequestStates
<1>2. QED
  BY <1>1 DEF Goes, TypeOK

LEMMA RequestTypeStep ==
  ASSUME TypeOK, InBounds, NEW r \in Requests, Request(r)
  PROVE  TypeOK'
<1> USE MemLimAssumption, StateTypes, GoesType DEF Places
<1>0. memtrack \in Nat /\ len \in Nat
  BY DEF TypeOK
<1>1. CASE Call(r)
  BY <1>0, <1>1 DEF Call, TypeOK
<1>2. CASE AppendWrite(r)
  BY <1>2 DEF AppendWrite, TypeOK
<1>3. CASE AppendStore(r)
  <2>1. req[r].seen + 1 \in 0..Slots
    BY <1>3 DEF AppendStore, Goes, InBounds
  <2>2. QED
    BY <1>3, <2>1 DEF AppendStore, TypeOK
<1>4. CASE Proceed(r) \/ CopyEnds(r)
  BY <1>4 DEF Proceed, CopyEnds, TypeOK
<1>5. CASE HintLoad(r)
  BY <1>0, <1>5 DEF HintLoad, TypeOK
<1>6. CASE HintStore(r)
  <2>1. req[r].seen - Size[r] \in Int
    OBVIOUS
  <2> HIDE StateTypes, GoesType DEF Places
  <2>2. (req[r].seen - Size[r]) % Word \in 0 .. Word - 1
    BY <2>1, Modulo
  <2>3. "done" \in Places /\ 0 \in Nat
    BY DEF Places
  <2>4. QED
    BY <1>6, <2>2, <2>3, GoesType DEF HintStore, StoreHint, TypeOK
<1>7. QED
  BY <1>1, <1>2, <1>3, <1>4, <1>5, <1>6 DEF Request

LEMMA ManagerTypeStep ==
  ASSUME TypeOK, InBounds, SlotsWritten, Manager \/ TickSheds
  PROVE  TypeOK'
<1> USE MemLimAssumption, StateTypes DEF Manages
<1>1. ASSUME NEW alloc \in Allocs, TickAdmits(alloc) PROVE TypeOK'
  <2>1. mgr' \in ManagerStates
    BY <1>1, IdleType, AvailableType DEF TickAdmits, ManagerStates
  <2>2. QED
    BY <1>1, <2>1 DEF TickAdmits, TypeOK
<1>2. CASE TickSheds
  <2>1. PICK s \in Shedders : shed' = [shed EXCEPT ![s].pc = "started"]
    BY <1>2 DEF TickSheds
  <2>2. shed' \in [Shedders -> ShedStates]
    BY <2>1 DEF TypeOK, ShedStates
  <2>3. QED
    BY <1>2, <2>2, IdleType DEF TickSheds, TypeOK
<1>3. CASE Scan
  <2>1. PICK i \in 1..len :
          mgr' = [pc |-> "activate", seen |-> 0, at |-> i, picked |-> slots[i], list |-> active]
    BY <1>3 DEF Scan
  <2>2. i \in 0..Slots /\ slots[i] \in Requests /\ active \in Seq(Requests)
    BY <2>1 DEF TypeOK, SlotsWritten
  <2>3. mgr' \in ManagerStates
    BY <2>1, <2>2 DEF ManagerStates
  <2>4. QED
    BY <1>3, <2>3 DEF Scan, TypeOK
<1>4. CASE ScanFails
  BY <1>4, IdleType DEF ScanFails, TypeOK
<1>5. CASE Activate
  <2>1. mgr.picked \in Requests
    BY <1>5 DEF Activate, ActivateThe, InBounds
  <2>2. active' \in Seq(Requests)
    BY <1>5, <2>1 DEF Activate, ActivateThe
  <2>3. slots' \in [1..Slots -> Requests \cup {Nobody}]
    BY <1>5 DEF Activate, ActivateThe, Shifted, TypeOK
  <2>4. <<>> \in Seq(Requests) /\ len \in Nat
    BY DEF TypeOK
  <2>5. mgr' \in ManagerStates
    BY <1>5, <2>4 DEF Activate, ActivateThe, ManagerStates, TypeOK
  <2>6. QED
    BY <1>5, <2>2, <2>3, <2>5 DEF Activate, ActivateThe, TypeOK
<1>6. CASE Remove
  <2>1. mgr.seen - 1 \in 0..Slots
    BY <1>6 DEF Remove, InBounds
  <2>2. memtrack \in Nat
    BY DEF TypeOK
  <2>3. mgr' \in ManagerStates
    BY <1>6, <2>2 DEF Remove, ManagerStates, TypeOK
  <2>4. QED
    BY <1>6, <2>1, <2>3 DEF Remove, TypeOK
<1>7. CASE Release
  <2>1. mgr.picked \in Requests
    BY <1>7 DEF Release, InBounds
  <2>2. mgr.seen + Size[mgr.picked] \in Int
    BY <2>1
  <2> HIDE StateTypes
  <2>3. (mgr.seen + Size[mgr.picked]) % Word \in 0 .. Word - 1
    BY <2>2, Modulo
  <2>4. QED
    BY <1>7, <2>1, <2>3, IdleType DEF Release, TypeOK
<1>8. QED
  BY <1>1, <1>2, <1>3, <1>4, <1>5, <1>6, <1>7 DEF Manager

LEMMA ShedTypeStep ==
  ASSUME TypeOK, InBounds, NEW s \in Shedders, ShedLoad(s) \/ ShedKill(s)
  PROVE  TypeOK'
<1> USE StateTypes
<1>1. CASE ShedLoad(s)
  <2>1. [pc |-> IF active = <<>> THEN "ended" ELSE "killing", list |-> active] \in ShedStates
    BY DEF ShedStates, TypeOK
  <2>2. QED
    BY <1>1, <2>1 DEF ShedLoad, TypeOK
<1>2. CASE ShedKill(s)
  <2> DEFINE list == shed[s].list
  <2>1. list \in Seq(Requests) /\ Len(list) \in Nat \ {0}
    BY <1>2 DEF ShedKill, InBounds
  <2>2. SubSeq(list, 1, Len(list) - 1) \in Seq(Requests) /\ list[Len(list)] \in Requests
    BY <2>1
  <2>3. [pc |-> "ended", list |-> <<>>] \in ShedStates
    BY DEF ShedStates
  <2>4. QED
    BY <1>2, <2>2, <2>3 DEF ShedKill, TypeOK
<1>3. QED
  BY <1>1, <1>2

LEMMA TypeStep ==
  ASSUME TypeOK, InBounds, SlotsWritten, [Next]_vars
  PROVE  TypeOK'
<1>1. CASE UNCHANGED vars
  BY <1>1 DEF vars, TypeOK
<1>2. QED
  BY <1>1, RequestTypeStep, ManagerTypeStep, ShedTypeStep DEF Next

-----------------------------------------------------------------------------
(* Bounds, and what the array holds *)

LEMMA GoesEffect ==
  ASSUME TypeOK, NEW r \in Requests, NEW from, NEW to, NEW n, Goes(r, from, to, n)
  PROVE  /\ ~crashed /\ req[r].pc = from
         /\ req'[r].pc = to /\ req'[r].seen = n
         /\ \A q \in Requests \ {r} : req'[q] = req[q]
         /\ UNCHANGED <<active, released, mgr, shed, killed, crashed>>
  BY DEF Goes, TypeOK

\* The manager's steps that only end or begin a round.
LEMMA RoundEffect ==
  ASSUME \/ \E alloc \in Allocs : TickAdmits(alloc)
         \/ TickSheds \/ ScanFails
  PROVE  /\ mgr.pc \in {"idle", "scan"} /\ mgr'.pc \in {"idle", "scan"}
         /\ mgr'.list = <<>>
         /\ UNCHANGED <<slots, len, active, released, req, killed, crashed, raced>>
<1>1. CASE \E alloc \in Allocs : TickAdmits(alloc)
  <2>1. PICK alloc \in Allocs : TickAdmits(alloc)
    BY <1>1
  <2>2. mgr' = [Idle EXCEPT !.pc = "scan", !.seen = Available(alloc)] /\ mgr.pc = "idle"
    BY <2>1 DEF TickAdmits, Manages
  <2>3. mgr'.pc = "scan" /\ mgr'.list = <<>>
    BY <2>2 DEF Idle
  <2>4. QED
    BY <2>1, <2>2, <2>3 DEF TickAdmits, Manages
<1>2. CASE TickSheds \/ ScanFails
  BY <1>2 DEF TickSheds, ScanFails, Manages, Idle
<1>3. QED
  BY <1>1, <1>2

LEMMA InBoundsStep ==
  ASSUME TypeOK, InBounds, SlotsWritten, [Next]_vars
  PROVE  InBounds'
<1> USE MemLimAssumption DEF InBounds, Appending
<1>0. len \in 0..Slots /\ len \in Nat
  BY DEF TypeOK
<1>1. ASSUME NEW r \in Requests, Call(r) PROVE InBounds'
  BY <1>0, <1>1, GoesEffect DEF Call
<1>2. ASSUME NEW r \in Requests, AppendWrite(r) PROVE InBounds'
  <2>1. req[r].seen + 1 \in 1..Slots
    BY <1>2 DEF AppendWrite, Goes
  <2>2. QED
    BY <1>2, <2>1, GoesEffect DEF AppendWrite
<1>3. ASSUME NEW r \in Requests,
             AppendStore(r) \/ Proceed(r) \/ CopyEnds(r) \/ HintLoad(r) \/ HintStore(r)
      PROVE  InBounds'
  BY <1>3, GoesEffect DEF AppendStore, Proceed, CopyEnds, HintLoad, HintStore, StoreHint
<1>4. CASE (\E alloc \in Allocs : TickAdmits(alloc)) \/ ScanFails
  <2>1. shed' = shed
    BY <1>4 DEF TickAdmits, ScanFails
  <2>2. mgr'.pc \in {"idle", "scan"} /\ req' = req
    BY <1>4, RoundEffect
  <2>3. QED
    BY <2>1, <2>2
<1>a. CASE Release
  BY <1>a DEF Release, Manages, Idle
<1>5. CASE TickSheds
  BY <1>5 DEF TickSheds, Manages, Idle, TypeOK, ShedStates
<1>6. CASE Scan
  <2>1. PICK i \in 1..len :
          mgr' = [pc |-> "activate", seen |-> 0, at |-> i, picked |-> slots[i], list |-> active]
    BY <1>6 DEF Scan, Manages
  <2>2. i \in 1..Slots /\ slots[i] \in Requests
    BY <1>0, <2>1 DEF SlotsWritten
  <2>3. QED
    BY <1>6, <2>1, <2>2 DEF Scan, Manages
<1>7. CASE Activate
  <2>1. /\ mgr.pc = "activate"
        /\ mgr' = [mgr EXCEPT !.pc = "remove", !.seen = len, !.list = <<>>]
        /\ crashed' = (mgr.at > len) /\ req' = req /\ shed' = shed
    BY <1>7 DEF Activate, ActivateThe, Manages
  <2>2. mgr'.pc = "remove" /\ mgr'.seen = len /\ mgr'.at = mgr.at /\ mgr'.picked = mgr.picked
    BY <2>1 DEF TypeOK, ManagerStates
  <2>3. mgr.at \in 1..Slots /\ mgr.picked \in Requests
    BY <2>1
  <2>4. /\ \A r \in Requests :
             /\ req'[r].pc \in Appending => req'[r].seen \in 0..Slots
             /\ req'[r].pc = "written" => req'[r].seen + 1 \in 1..Slots
        /\ \A s \in Shedders : shed'[s].pc = "killing" => shed'[s].list # <<>>
    BY <2>1
  <2>5. ~crashed' => ~(mgr.at > len)
    BY <2>1
  <2>6. ~crashed' => mgr'.at <= mgr'.seen
    BY <1>0, <2>2, <2>3, <2>5
  <2>7. QED
    BY <1>0, <2>2, <2>3, <2>4, <2>6
<1>8. CASE Remove
  BY <1>8 DEF Remove, Manages, TypeOK, ManagerStates
<1>9. ASSUME NEW s \in Shedders, ShedLoad(s) \/ ShedKill(s) PROVE InBounds'
  <2>1. req' = req /\ mgr' = mgr /\ crashed' = crashed
    BY <1>9 DEF ShedLoad, ShedKill
  <2>2. \A q \in Shedders \ {s} : shed'[q] = shed[q]
    BY <1>9 DEF ShedLoad, ShedKill, TypeOK
  <2>3. CASE ShedLoad(s)
    <3>1. shed'[s] = [pc |-> IF active = <<>> THEN "ended" ELSE "killing", list |-> active]
      BY <2>3 DEF ShedLoad, TypeOK
    <3>2. shed'[s].pc = "killing" => shed'[s].list # <<>>
      BY <3>1
    <3>3. QED
      BY <2>1, <2>2, <3>2
  <2>4. CASE ShedKill(s)
    <3>1. shed'[s].pc = "ended"
      BY <2>4 DEF ShedKill, TypeOK
    <3>2. QED
      BY <2>1, <2>2, <3>1
  <2>5. QED
    BY <1>9, <2>3, <2>4
<1>10. CASE UNCHANGED vars
  BY <1>10 DEF vars
<1>11. CASE crashed /\ UNCHANGED vars
  BY <1>11, <1>10
<1>12. QED
  BY <1>1, <1>2, <1>3, <1>4, <1>a, <1>5, <1>6, <1>7, <1>8, <1>9, <1>10, <1>11
     DEF Next, Request, Manager

\* A written slot stays written, whatever is shifted within the length.
LEMMA SlotsStay ==
  ASSUME TypeOK, InBounds, SlotsWritten, [Next]_vars,
         NEW i \in 1..Slots, slots[i] \in Requests
  PROVE  slots'[i] \in Requests
<1>1. ASSUME NEW r \in Requests, AppendWrite(r) PROVE slots'[i] \in Requests
  BY <1>1 DEF AppendWrite, TypeOK
<1>2. CASE Activate
  <2>1. slots' = IF mgr.at <= len THEN Shifted(mgr.at) ELSE slots
    BY <1>2 DEF Activate, ActivateThe
  <2>2. CASE mgr.at <= len /\ i \in mgr.at .. len - 1
    <3>1. mgr.at \in 1..Slots /\ len \in Nat
      BY <1>2 DEF InBounds, Activate, ActivateThe, Manages, TypeOK
    <3>2. i + 1 \in 1..len
      BY <2>2, <3>1
    <3>3. slots'[i] = slots[i + 1]
      BY <2>1, <2>2 DEF Shifted
    <3>4. QED
      BY <3>2, <3>3 DEF SlotsWritten
  <2>3. CASE ~(mgr.at <= len /\ i \in mgr.at .. len - 1)
    BY <2>1, <2>3 DEF Shifted
  <2>4. QED
    BY <2>2, <2>3
<1>3. CASE slots' = slots
  BY <1>3
<1>4. QED
  BY <1>1, <1>2, <1>3 DEF Next, Request, Manager, vars, Call, AppendStore,
     Proceed, CopyEnds, HintLoad, HintStore, StoreHint, TickSheds, TickAdmits,
     Scan, ScanFails, Remove, Release, ShedLoad, ShedKill

LEMMA SlotsWrittenStep ==
  ASSUME TypeOK, InBounds, SlotsWritten, [Next]_vars
  PROVE  SlotsWritten'
<1> USE MemLimAssumption DEF Appending
<1>0. len \in 0..Slots /\ len \in Nat
  BY DEF TypeOK
<1>a. \A i \in 1..Slots : slots[i] \in Requests => slots'[i] \in Requests
  BY SlotsStay
<1>b. \A i \in 1..len : slots'[i] \in Requests
  BY <1>0, <1>a DEF SlotsWritten
<1>c. \A r \in Requests :
        req[r].pc \in Appending => \A i \in 1..req[r].seen : slots'[i] \in Requests
  BY <1>a DEF SlotsWritten, InBounds
<1>d. \A r \in Requests :
        req[r].pc = "written" => slots'[req[r].seen + 1] \in Requests
  BY <1>a DEF SlotsWritten, InBounds
<1>e. mgr.pc = "remove" => \A i \in 1..mgr.seen : slots'[i] \in Requests
  BY <1>a DEF SlotsWritten, InBounds
<1>1. ASSUME NEW r \in Requests, Call(r) PROVE SlotsWritten'
  BY <1>1, <1>b, <1>c, <1>d, <1>e, GoesEffect DEF Call, SlotsWritten
<1>2. ASSUME NEW r \in Requests, AppendWrite(r) PROVE SlotsWritten'
  <2>1. slots'[req[r].seen + 1] = r
    BY <1>2, StateTypes DEF AppendWrite, TypeOK
  <2>2. QED
    BY <1>2, <2>1, <1>b, <1>c, <1>d, <1>e, GoesEffect DEF AppendWrite, SlotsWritten
<1>3. ASSUME NEW r \in Requests, AppendStore(r) PROVE SlotsWritten'
  <2>1. req[r].pc = "written" /\ len' = req[r].seen + 1
    BY <1>3 DEF AppendStore, Goes
  <2>2. \A i \in 1..len' : slots'[i] \in Requests
    <3>1. req[r].seen \in Nat
      BY StateTypes
    <3>2. \A i \in 1..len' : i \in 1..req[r].seen \/ i = req[r].seen + 1
      BY <2>1, <3>1
    <3>3. QED
      BY <2>1, <3>2, <1>c, <1>d
  <2>3. QED
    BY <1>3, <2>2, <1>c, <1>d, <1>e, GoesEffect DEF AppendStore, SlotsWritten
<1>4. ASSUME NEW r \in Requests,
             Proceed(r) \/ CopyEnds(r) \/ HintLoad(r) \/ HintStore(r)
      PROVE  SlotsWritten'
  BY <1>4, <1>b, <1>c, <1>d, <1>e, GoesEffect
     DEF Proceed, CopyEnds, HintLoad, HintStore, StoreHint, SlotsWritten
<1>5. CASE \/ \E alloc \in Allocs : TickAdmits(alloc)
           \/ TickSheds \/ Scan \/ ScanFails \/ Release
  <2>1. CASE Scan \/ Release
    BY <1>b, <1>c, <1>d, <2>1 DEF Scan, Release, Manages, Idle, SlotsWritten
  <2>2. CASE (\E alloc \in Allocs : TickAdmits(alloc)) \/ TickSheds \/ ScanFails
    BY <1>b, <1>c, <1>d, <2>2, RoundEffect DEF SlotsWritten
  <2>3. QED
    BY <1>5, <2>1, <2>2
<1>6. CASE Activate
  <2>1. req' = req /\ len' = len /\ mgr'.seen = len
    BY <1>6 DEF Activate, ActivateThe, Manages, TypeOK, ManagerStates
  <2>2. QED
    BY <2>1, <1>b, <1>c, <1>d DEF SlotsWritten
<1>7. CASE Remove
  <2>1. req' = req /\ len' = mgr.seen - 1 /\ mgr.pc = "remove" /\ mgr'.pc = "track"
    BY <1>7 DEF Remove, Manages, TypeOK, ManagerStates
  <2>2. \A i \in 1..len' : i \in 1..mgr.seen
    BY <2>1, StateTypes
  <2>3. QED
    BY <2>1, <2>2, <1>c, <1>d, <1>e DEF SlotsWritten
<1>8. ASSUME NEW s \in Shedders, ShedLoad(s) \/ ShedKill(s) PROVE SlotsWritten'
  BY <1>8, <1>b, <1>c, <1>d, <1>e DEF ShedLoad, ShedKill, SlotsWritten
<1>9. CASE UNCHANGED vars
  BY <1>9, <1>b, <1>c, <1>d, <1>e DEF vars, SlotsWritten
<1>10. QED
  BY <1>1, <1>2, <1>3, <1>4, <1>5, <1>6, <1>7, <1>8, <1>9
     DEF Next, Request, Manager

-----------------------------------------------------------------------------
(* Load shedding *)

\* The lists of activated goroutines, and the requests killed, change only as
\* these steps say; the set of admitted requests only grows.
LEMMA AdmittedGrows ==
  ASSUME TypeOK, [Next]_vars
  PROVE  released \cup InHand \subseteq released' \cup InHand'
<1> USE DEF InHand
<1>1. ASSUME NEW r \in Requests, Request(r) PROVE released' = released /\ mgr' = mgr
  BY <1>1, GoesEffect DEF Request, Goes, Call, AppendWrite, AppendStore, Proceed,
     CopyEnds, HintLoad, HintStore, StoreHint
<1>2. CASE (\E alloc \in Allocs : TickAdmits(alloc)) \/ TickSheds \/ ScanFails
  BY <1>2, RoundEffect
<1>3. CASE Scan
  BY <1>3 DEF Scan, Manages
<1>4. CASE Activate
  BY <1>4 DEF Activate, ActivateThe, Manages
<1>5. CASE Remove
  BY <1>5 DEF Remove, Manages, TypeOK, ManagerStates
<1>6. CASE Release
  BY <1>6 DEF Release, Manages
<1>7. ASSUME NEW s \in Shedders, ShedLoad(s) \/ ShedKill(s)
      PROVE  released' = released /\ mgr' = mgr
  BY <1>7 DEF ShedLoad, ShedKill
<1>8. CASE UNCHANGED vars
  BY <1>8 DEF vars
<1>9. QED
  BY <1>1, <1>2, <1>3, <1>4, <1>5, <1>6, <1>7, <1>8 DEF Next, Manager

LEMMA SheddingStep ==
  ASSUME TypeOK, InBounds, ActiveAdmitted, OnlyAdmittedKilled, [Next]_vars
  PROVE  ActiveAdmitted' /\ OnlyAdmittedKilled'
<1> DEFINE Adm == released \cup InHand
<1>1. Adm \subseteq Adm'
  BY AdmittedGrows
<1>2. AllIn(active, Adm') /\ AllIn(mgr.list, Adm') /\ killed \subseteq Adm'
  BY <1>1 DEF ActiveAdmitted, OnlyAdmittedKilled, AllIn
<1>3. \A s \in Shedders : AllIn(shed[s].list, Adm')
  BY <1>1 DEF ActiveAdmitted, AllIn
<1>4. AllIn(<<>>, Adm')
  BY DEF AllIn
<1>5. SUFFICES /\ AllIn(active', Adm') /\ AllIn(mgr'.list, Adm') /\ killed' \subseteq Adm'
               /\ \A s \in Shedders : AllIn(shed'[s].list, Adm')
  BY DEF ActiveAdmitted, OnlyAdmittedKilled, AllIn
<1> HIDE DEF Adm
<1>6. CASE UNCHANGED <<active, killed, shed>> /\ mgr'.list \in {mgr.list, active, <<>>}
  BY <1>2, <1>3, <1>4, <1>6
<1>7. ASSUME NEW r \in Requests, Request(r)
      PROVE  UNCHANGED <<active, killed, shed, mgr>>
  BY <1>7 DEF Request, Goes, Call, AppendWrite, AppendStore, Proceed,
     CopyEnds, HintLoad, HintStore, StoreHint
<1>8. CASE (\E alloc \in Allocs : TickAdmits(alloc)) \/ ScanFails
  BY <1>6, <1>8, RoundEffect DEF TickAdmits, ScanFails
<1>9. CASE TickSheds
  <2>1. PICK s \in Shedders : shed' = [shed EXCEPT ![s].pc = "started"]
    BY <1>9 DEF TickSheds
  <2>2. \A q \in Shedders : shed'[q].list = shed[q].list
    BY <2>1 DEF TypeOK, ShedStates
  <2>3. QED
    BY <1>2, <1>3, <1>4, <1>9, <2>2, RoundEffect
<1>10. CASE Scan
  BY <1>6, <1>10 DEF Scan, Manages
<1>11. CASE Release
  BY <1>6, <1>11 DEF Release, Manages, Idle
<1>12. CASE Remove
  BY <1>6, <1>12 DEF Remove, Manages, TypeOK, ManagerStates
<1>13. CASE Activate
  <2>1. /\ mgr.pc = "activate" /\ active' = Append(mgr.list, mgr.picked)
        /\ killed' = killed /\ shed' = shed
        /\ mgr' = [mgr EXCEPT !.pc = "remove", !.seen = len, !.list = <<>>]
    BY <1>13 DEF Activate, ActivateThe, Manages
  <2>2. mgr'.list = <<>> /\ mgr'.pc = "remove" /\ mgr'.picked = mgr.picked
    BY <2>1 DEF TypeOK, ManagerStates
  <2>3. mgr.picked \in Adm'
    BY <2>2 DEF Adm, InHand
  <2>4. AllIn(active', Adm')
    BY <1>2, <2>1, <2>3, StateTypes DEF AllIn, InBounds
  <2>5. QED
    BY <1>2, <1>3, <1>4, <2>1, <2>2, <2>4
<1>14. ASSUME NEW s \in Shedders, ShedLoad(s)
       PROVE  /\ UNCHANGED <<active, killed, mgr>>
              /\ \A q \in Shedders : AllIn(shed'[q].list, Adm')
  <2>1. \A q \in Shedders : shed'[q].list = IF q = s THEN active ELSE shed[q].list
    BY <1>14 DEF ShedLoad, TypeOK
  <2>2. QED
    BY <1>2, <1>3, <1>14, <2>1 DEF ShedLoad
<1>15. ASSUME NEW s \in Shedders, ShedKill(s)
       PROVE  /\ AllIn(active', Adm') /\ killed' \subseteq Adm' /\ mgr' = mgr
              /\ \A q \in Shedders : AllIn(shed'[q].list, Adm')
  <2> DEFINE list == shed[s].list
  <2>1. list \in Seq(Requests) /\ Len(list) \in Nat \ {0}
    BY <1>15, StateTypes DEF ShedKill, InBounds
  <2>2. AllIn(list, Adm')
    BY <1>3
  <2>3. list[Len(list)] \in Adm'
    BY <2>1, <2>2 DEF AllIn
  <2>4. AllIn(SubSeq(list, 1, Len(list) - 1), Adm')
    BY <2>1, <2>2 DEF AllIn
  <2>5. \A q \in Shedders : shed'[q].list = IF q = s THEN <<>> ELSE shed[q].list
    BY <1>15 DEF ShedKill, TypeOK
  <2>6. QED
    BY <1>2, <1>3, <1>4, <1>15, <2>3, <2>4, <2>5 DEF ShedKill
<1>16. CASE UNCHANGED vars
  BY <1>6, <1>16 DEF vars
<1>17. QED
  BY <1>2, <1>3, <1>6, <1>7, <1>8, <1>9, <1>10, <1>11, <1>12, <1>13, <1>14,
     <1>15, <1>16 DEF Next, Manager

-----------------------------------------------------------------------------
(* The queue *)

\* What the queue parts of the invariant say when nothing has overlapped.
Exact == ~raced /\ Alone /\ QueueExact

LEMMA QueueFrame ==
  ASSUME TypeOK, Exact, At({"waiting"})' = At({"waiting"}),
         UNCHANGED <<released, mgr, crashed, len>>,
         \A i \in 1..len : slots'[i] = slots[i]
  PROVE  QueueExact'
<1>1. Listed \subseteq 1..len /\ Listed' = Listed /\ InHand' = InHand
  BY DEF TypeOK, Listed, InHand
<1>2. {slots'[i] : i \in Listed} = {slots[i] : i \in Listed}
  BY <1>1
<1>3. QED
  BY <1>1, <1>2 DEF Exact, QueueExact

LEMMA RequestQueueStep ==
  ASSUME TypeOK, InBounds, Exact, NEW r \in Requests, Request(r), ~raced'
  PROVE  Alone' /\ QueueExact'
<1> USE MemLimAssumption
<1>0. len \in Nat
  BY DEF TypeOK
<1>1. CASE Call(r)
  <2>1. ~QueueBusy
    BY <1>1 DEF Call
  <2>2. (\A q \in Requests : req[q].pc \notin Appending) /\ mgr.pc # "remove"
    BY <2>1 DEF QueueBusy, At, Appending
  <2>3. req[r].pc = "new" /\ slots' = slots /\ len' = len
    BY <1>1, GoesEffect DEF Call
  <2>4. /\ req'[r].pc = "appending" /\ req'[r].seen = len
        /\ \A q \in Requests \ {r} : req'[q] = req[q]
        /\ UNCHANGED <<released, mgr, crashed>>
    BY <1>1, GoesEffect DEF Call
  <2>5. QueueExact'
    <3>1. At({"waiting"})' = At({"waiting"})
      BY <2>3, <2>4 DEF At
    <3>2. QED
      BY <2>3, <2>4, <3>1, QueueFrame
  <2>6. r \notin released
    BY <2>3 DEF Exact, Alone
  <2>7. mgr.pc \in {"remove", "track"} => mgr.picked # r
    BY <2>3 DEF Exact, Alone
  <2>8. mgr.pc \in {"remove", "track"} => mgr.picked \in Requests
    BY DEF InBounds
  <2>9. Alone'
    BY <2>2, <2>3, <2>4, <2>6, <2>7, <2>8 DEF Exact, Alone, Appending
  <2>10. QED
    BY <2>5, <2>9
<1>2. CASE AppendWrite(r)
  <2>1. req[r].pc = "appending" /\ req[r].seen = len /\ mgr.pc # "remove"
    BY <1>2, GoesEffect DEF AppendWrite, Exact, Alone, Appending
  <2>2. slots'[len + 1] = r /\ \A i \in 1..len : slots'[i] = slots[i]
    BY <1>0, <1>2, <2>1 DEF AppendWrite, TypeOK
  <2>3. /\ req'[r].pc = "written" /\ req'[r].seen = len
        /\ \A q \in Requests \ {r} : req'[q] = req[q]
        /\ UNCHANGED <<released, mgr, crashed, len>>
    BY <1>2, <2>1, GoesEffect DEF AppendWrite
  <2>4. QueueExact'
    <3>1. At({"waiting"})' = At({"waiting"})
      BY <2>1, <2>3 DEF At
    <3>2. QED
      BY <2>2, <2>3, <3>1, QueueFrame
  <2>5. mgr.pc = "activate" => slots'[mgr.at] = mgr.picked /\ mgr.at <= len
    BY <1>0, <2>2 DEF InBounds, Exact, Alone
  <2>6. \A q \in Requests \ {r} : req[q].pc \notin Appending
    BY <2>1 DEF Exact, Alone, Appending
  <2>7. mgr.pc \in {"remove", "track"} => mgr.picked \in Requests /\ mgr.picked # r
    BY <2>1 DEF InBounds, Exact, Alone
  <2>8. r \notin released
    BY <2>1 DEF Exact, Alone
  <2>9. Alone'
    BY <2>1, <2>2, <2>3, <2>5, <2>6, <2>7, <2>8 DEF Exact, Alone, Appending
  <2>10. QED
    BY <2>4, <2>9
<1>3. CASE AppendStore(r)
  <2>1. /\ req[r].pc = "written" /\ req[r].seen = len /\ mgr.pc # "remove"
        /\ slots[len + 1] = r /\ r \notin released
    BY <1>3, GoesEffect DEF AppendStore, Exact, Alone, Appending
  <2>2. /\ req'[r].pc = "waiting" /\ \A q \in Requests \ {r} : req'[q] = req[q]
        /\ UNCHANGED <<released, mgr, crashed, slots, raced>> /\ len' = len + 1
    BY <1>3, <2>1, GoesEffect DEF AppendStore
  <2>3. mgr.pc \in {"remove", "track"} => mgr.picked \in Requests /\ mgr.picked # r
    BY <2>1 DEF InBounds, Exact, Alone
  <2>4. /\ Listed = 1..len /\ Listed' = 1 .. len + 1
        /\ InHand' = InHand /\ r \notin InHand
    BY <2>1, <2>2, <2>3 DEF Listed, InHand
  <2>5. \A i \in 1..len : slots[i] # r
    BY <2>1, <2>4 DEF Exact, QueueExact, At
  <2>6. \A i \in 1 .. len + 1 : i \in 1..len \/ i = len + 1
    BY <1>0
  <2>7. \A i, k \in 1 .. len + 1 : slots[i] = slots[k] => i = k
    BY <2>1, <2>4, <2>5, <2>6 DEF Exact, QueueExact
  <2>8. {slots[i] : i \in 1 .. len + 1} = {slots[i] : i \in 1..len} \cup {r}
    BY <1>0, <2>1, <2>6
  <2>9. At({"waiting"})' = At({"waiting"}) \cup {r}
    BY <2>2 DEF At
  <2>10. QueueExact'
    <3>1. {slots[i] : i \in 1..len} = At({"waiting"}) \ (released \cup InHand)
      BY <2>4 DEF Exact, QueueExact
    <3>2. At({"waiting"})' \ (released \cup InHand)
            = (At({"waiting"}) \ (released \cup InHand)) \cup {r}
      BY <2>1, <2>4, <2>9
    <3>3. {slots'[i] : i \in Listed'} = At({"waiting"})' \ (released' \cup InHand')
      <4>1. {slots'[i] : i \in Listed'} = {slots[i] : i \in 1 .. len + 1}
        BY <2>2, <2>4
      <4>2. released' \cup InHand' = released \cup InHand
        BY <2>2, <2>4
      <4>3. QED
        BY <2>8, <3>1, <3>2, <4>1, <4>2
    <3>4. ~crashed' /\ \A i, k \in Listed' : slots'[i] = slots'[k] => i = k
      BY <2>2, <2>4, <2>7 DEF Exact, QueueExact
    <3>5. QED
      BY <3>3, <3>4 DEF QueueExact
  <2>11. \A q \in Requests \ {r} : req[q].pc \notin Appending
    BY <2>1 DEF Exact, Alone, Appending
  <2>12. mgr.pc = "activate" => slots[mgr.at] = mgr.picked /\ mgr.at <= len + 1
    BY <1>0 DEF InBounds, Exact, Alone
  <2>13. Alone'
    BY <2>1, <2>2, <2>3, <2>11, <2>12 DEF Exact, Alone, Appending
  <2>14. QED
    BY <2>10, <2>13
<1>4. CASE Proceed(r) \/ CopyEnds(r) \/ HintLoad(r) \/ HintStore(r)
  <2>1. /\ req[r].pc \in {"waiting", "running", "hinting", "freeing"}
        /\ req'[r].pc \in {"running", "hinting", "freeing", "done"}
        /\ req[r].pc = "waiting" => r \in released
        /\ \A q \in Requests \ {r} : req'[q] = req[q]
        /\ UNCHANGED <<released, mgr, crashed, slots, len>>
    BY <1>4, GoesEffect DEF Proceed, CopyEnds, HintLoad, HintStore, StoreHint
  <2>2. mgr.pc \in {"remove", "track"} => mgr.picked \in Requests /\ mgr.picked # r
    BY <2>1 DEF InBounds, Exact, Alone
  <2>3. At({"waiting"})' \ released = At({"waiting"}) \ released
    BY <2>1 DEF At
  <2>4. Listed' = Listed /\ InHand' = InHand
    BY <2>1 DEF Listed, InHand
  <2>5. QueueExact'
    BY <2>1, <2>3, <2>4 DEF Exact, QueueExact
  <2>6. Alone'
    BY <2>1, <2>2 DEF Exact, Alone, Appending
  <2>7. QED
    BY <2>5, <2>6
<1>5. QED
  BY <1>1, <1>2, <1>3, <1>4 DEF Request

\* The removal of index i from distinct elements removes one element.
LEMMA ShiftedRemoves ==
  ASSUME NEW i \in 1..len, len \in 0..Slots,
         \A j, k \in 1..len : slots[j] = slots[k] => j = k
  PROVE  /\ \A j, k \in 1 .. len - 1 : Shifted(i)[j] = Shifted(i)[k] => j = k
         /\ {Shifted(i)[k] : k \in 1 .. len - 1} = {slots[k] : k \in 1..len} \ {slots[i]}
<1> USE MemLimAssumption
<1> DEFINE next(k) == IF k \in i .. len - 1 THEN k + 1 ELSE k
<1>1. \A k \in 1 .. len - 1 :
        /\ k \in 1..Slots /\ next(k) \in 1..len /\ next(k) # i
        /\ \A j \in 1 .. len - 1 : next(j) = next(k) => j = k
  OBVIOUS
<1>2. \A k \in 1 .. len - 1 : Shifted(i)[k] = slots[next(k)]
  BY <1>1 DEF Shifted
<1>3. \A k \in 1..len : k # i => \E j \in 1 .. len - 1 : next(j) = k
  <2>1. TAKE k \in 1..len
  <2>2. SUFFICES ASSUME k # i PROVE \E j \in 1 .. len - 1 : next(j) = k
    OBVIOUS
  <2>3. CASE k < i
    BY <2>3
  <2>4. CASE k > i
    <3>1. k - 1 \in 1 .. len - 1 /\ next(k - 1) = k
      BY <2>4
    <3>2. QED
      BY <3>1
  <2>5. QED
    BY <2>2, <2>3, <2>4
<1> HIDE DEF next
<1>4. QED
  BY <1>1, <1>2, <1>3

LEMMA ManagerQueueStep ==
  ASSUME TypeOK, InBounds, Exact, Manager \/ TickSheds, ~raced'
  PROVE  Alone' /\ QueueExact'
<1> USE MemLimAssumption DEF Exact, Alone, QueueExact, Listed, InHand, At, Appending
<1>0. len \in Nat /\ len \in 0..Slots
  BY DEF TypeOK
<1>1. CASE (\E alloc \in Allocs : TickAdmits(alloc)) \/ TickSheds \/ ScanFails
  BY <1>1, RoundEffect
<1>2. CASE Scan
  <2>1. PICK i \in 1..len :
          mgr' = [pc |-> "activate", seen |-> 0, at |-> i, picked |-> slots[i], list |-> active]
    BY <1>2 DEF Scan, Manages
  <2>2. mgr'.pc = "activate" /\ mgr'.at <= len /\ slots[mgr'.at] = mgr'.picked
    BY <1>0, <2>1
  <2>3. mgr.pc = "scan" /\ UNCHANGED <<slots, len, released, req, crashed, raced>>
    BY <1>2 DEF Scan, Manages
  <2>4. QED
    BY <2>2, <2>3
<1>3. CASE Activate
  <2>0. ~QueueBusy
    BY <1>3 DEF Activate, ActivateThe
  <2>1. /\ \A q \in Requests : req[q].pc \notin Appending
        /\ mgr.pc = "activate" /\ mgr.at \in 1..len /\ slots[mgr.at] = mgr.picked
    <3>1. \A q \in Requests : req[q].pc \notin Appending
      BY <2>0 DEF QueueBusy
    <3>2. mgr.pc = "activate"
      BY <1>3 DEF Activate, ActivateThe, Manages
    <3>3. QED
      BY <1>0, <3>1, <3>2 DEF InBounds
  <2>2. /\ mgr' = [mgr EXCEPT !.pc = "remove", !.seen = len, !.list = <<>>]
        /\ slots' = Shifted(mgr.at)
        /\ UNCHANGED <<len, released, req>>
    BY <1>0, <1>3, <2>1 DEF Activate, ActivateThe, Manages
  <2>3. ~crashed'
    <3>1. crashed' = (mgr.at > len) /\ ~(mgr.at > len)
      BY <1>0, <1>3, <2>1 DEF Activate, ActivateThe
    <3>2. QED
      BY <3>1
  <2>4. mgr'.pc = "remove" /\ mgr'.seen = len /\ mgr'.picked = mgr.picked
    BY <2>2 DEF TypeOK, ManagerStates
  <2>5. mgr.picked \in {slots[i] : i \in 1..len}
    BY <2>1
  <2>6. req[mgr.picked].pc = "waiting" /\ mgr.picked \notin released
    BY <2>1, <2>5
  <2>7. /\ \A i, k \in 1 .. len - 1 : slots'[i] = slots'[k] => i = k
        /\ {slots'[i] : i \in 1 .. len - 1} = {slots[i] : i \in 1..len} \ {mgr.picked}
    <3>1. \A j, k \in 1..len : slots[j] = slots[k] => j = k
      BY <2>1
    <3> HIDE DEF Exact, Alone, QueueExact, Listed, InHand, At, Appending
    <3>2. /\ \A i, k \in 1 .. len - 1 : Shifted(mgr.at)[i] = Shifted(mgr.at)[k] => i = k
          /\ {Shifted(mgr.at)[i] : i \in 1 .. len - 1} = {slots[i] : i \in 1..len} \ {slots[mgr.at]}
      BY <1>0, <2>1, <3>1, ShiftedRemoves
    <3>3. slots' = Shifted(mgr.at) /\ slots[mgr.at] = mgr.picked
      BY <2>1, <2>2
    <3>4. QED
      BY <3>2, <3>3
  <2>8. QED
    BY <2>1, <2>2, <2>3, <2>4, <2>6, <2>7
<1>4. CASE Remove
  <2>1. /\ mgr.pc = "remove" /\ mgr.seen = len /\ len' = len - 1
        /\ UNCHANGED <<slots, released, req, crashed>>
        /\ mgr'.pc = "track" /\ mgr'.picked = mgr.picked
    BY <1>4 DEF Remove, Manages, TypeOK, ManagerStates
  <2>2. QED
    BY <2>1
<1>5. CASE Release
  <2>1. /\ mgr.pc = "track" /\ mgr'.pc = "idle"
        /\ UNCHANGED <<slots, len, req>> /\ released' = released \cup {mgr.picked}
    BY <1>5 DEF Release, Manages, Idle
  <2>2. mgr.picked \notin released /\ req[mgr.picked].pc = "waiting"
    BY <2>1
  <2>3. ~crashed'
    BY <1>5, <2>2 DEF Release
  <2>4. QED
    BY <2>1, <2>2, <2>3
<1>6. QED
  BY <1>1, <1>2, <1>3, <1>4, <1>5 DEF Manager

LEMMA QueueStep ==
  ASSUME TypeOK, InBounds, Alone, QueueExact, [Next]_vars
  PROVE  Alone' /\ QueueExact'
<1>1. raced => raced'
  BY DEF Next, Manager, Request, Goes, Manages, vars, Call, AppendWrite, AppendStore,
     Proceed, CopyEnds, HintLoad, HintStore, StoreHint, TickSheds, TickAdmits,
     Scan, ScanFails, Activate, ActivateThe, Remove, Release, ShedLoad, ShedKill
<1>2. CASE raced'
  BY <1>2 DEF Alone, QueueExact
<1>3. CASE ~raced'
  <2>1. Exact
    BY <1>1, <1>3 DEF Exact
  <2>2. ASSUME UNCHANGED <<slots, len, released, req, mgr, crashed, raced>>
        PROVE  Alone' /\ QueueExact'
    BY <2>2 DEF Alone, QueueExact, Listed, InHand, At
  <2>3. ASSUME NEW s \in Shedders, ShedLoad(s) \/ ShedKill(s)
        PROVE  Alone' /\ QueueExact'
    BY <2>2, <2>3 DEF ShedLoad, ShedKill
  <2>4. CASE UNCHANGED vars
    BY <2>2, <2>4 DEF vars
  <2>5. QED
    BY <1>3, <2>1, <2>3, <2>4, RequestQueueStep, ManagerQueueStep DEF Next
<1>4. QED
  BY <1>2, <1>3

-----------------------------------------------------------------------------
(* Theorems *)

\* The invariant holds of every behaviour of the limiter.
THEOREM MemLimInvariant == Spec => []IInv
<1>1. Init => IInv
  BY InitEstablishesIInv
<1>2. IInv /\ [Next]_vars => IInv'
  BY TypeStep, InBoundsStep, SlotsWrittenStep, SheddingStep, QueueStep DEF IInv
<1>3. QED
  BY <1>1, <1>2, PTL DEF Spec

\* Every variable of the limiter keeps its type: memtrack stays an unsigned
\* integer and no index leaves the queue's array, whatever overlaps.
THEOREM MemLimTypeCorrect == Spec => []TypeOK
<1>1. IInv => TypeOK
  BY DEF IInv
<1>2. QED
  BY <1>1, MemLimInvariant, PTL

\* Unless two updates of WaitForFreeMemory, FreedMemHint and the timer
\* overlap, no request is lost or admitted twice and nothing panics: a lock
\* around them would be enough.
THEOREM QueueIsExact == Spec => []QueueExact
<1>1. IInv => QueueExact
  BY DEF IInv
<1>2. QED
  BY <1>1, MemLimInvariant, PTL

\* shedLoad cancels only copies that have been admitted, whatever overlaps.
THEOREM SheddingSparesTheQueue == Spec => []OnlyAdmittedKilled
<1>1. IInv => OnlyAdmittedKilled
  BY DEF IInv
<1>2. QED
  BY <1>1, MemLimInvariant, PTL
-----------------------------------------------------------------------------
(* The memory tracked *)

\* The memory of a set of requests is finite, and a request adds its size.
LEMMA UnitsFinite ==
  ASSUME NEW S \in SUBSET Requests
  PROVE  IsFiniteSet(Units(S)) /\ Cardinality(Units(S)) \in Nat
<1> USE MemLimAssumption
<1>1. IsFiniteSet(S) /\ IsFiniteSet(1 .. Word - 1)
  BY FS_Subset, FS_Interval
<1>2. IsFiniteSet(S \X (1 .. Word - 1))
  BY <1>1, FS_Product
<1>3. Units(S) \in SUBSET (S \X (1 .. Word - 1))
  BY DEF Units
<1>4. QED
  BY <1>2, <1>3, FS_Subset, FS_CardinalityType

LEMMA UnitsAdd ==
  ASSUME NEW S \in SUBSET Requests, NEW r \in Requests \ S
  PROVE  Cardinality(Units(S \cup {r})) = Cardinality(Units(S)) + Size[r]
<1> USE MemLimAssumption
<1> DEFINE own == {r} \X (1 .. Size[r])
<1>1. Size[r] \in 0 .. Word - 1 /\ Size[r] \in Nat
  OBVIOUS
<1>2. Units(S \cup {r}) = Units(S) \cup own
  <2>1. \A u \in own : u[1] = r /\ u[2] \in 1 .. Word - 1 /\ u[2] <= Size[r]
                       /\ u = <<u[1], u[2]>>
    BY <1>1
  <2>2. own \subseteq Units(S \cup {r})
    BY <2>1 DEF Units
  <2>3. Units(S) \subseteq Units(S \cup {r})
    BY DEF Units
  <2>4. ASSUME NEW u \in Units(S \cup {r}) PROVE u \in Units(S) \cup own
    <3>1. u \in (S \cup {r}) \X (1 .. Word - 1) /\ u[2] <= Size[u[1]]
      BY DEF Units
    <3>2. u[1] \in S => u \in S \X (1 .. Word - 1)
      BY <3>1
    <3>3. u[1] = r => u \in own
      BY <1>1, <3>1
    <3>4. QED
      BY <3>1, <3>2, <3>3 DEF Units
  <2>5. QED
    BY <2>2, <2>3, <2>4
<1>3. Units(S) \cap own = {}
  BY DEF Units
<1>4. IsFiniteSet(own) /\ Cardinality(own) = Size[r]
  <2>1. IsFiniteSet({r}) /\ Cardinality({r}) = 1
    BY FS_Singleton
  <2>2. IsFiniteSet(1 .. Size[r]) /\ Cardinality(1 .. Size[r]) = Size[r]
    BY <1>1, FS_Interval
  <2>3. IsFiniteSet(own) /\ Cardinality(own) = 1 * Size[r]
    BY <2>1, <2>2, FS_Product
  <2>4. QED
    BY <1>1, <2>3
<1> HIDE DEF own
<1>5. IsFiniteSet(Units(S)) /\ Cardinality(Units(S)) \in Nat
  BY UnitsFinite
<1>6. Cardinality(Units(S) \cup own)
        = Cardinality(Units(S)) + Cardinality(own) - Cardinality({})
  BY <1>3, <1>4, <1>5, FS_Union
<1>7. Cardinality({}) = 0
  BY FS_EmptySet
<1>8. Cardinality(Units(S) \cup own) = Cardinality(Units(S)) + Size[r]
  BY <1>1, <1>4, <1>5, <1>6, <1>7
<1>9. QED
  BY <1>2, <1>8

\* An unsigned value that fits is kept as it is.
LEMMA NoWrap == ASSUME NEW x \in 0 .. Word - 1 PROVE x % Word = x
  BY MemLimAssumption

\* A request that runs or has ended has been admitted.
AdmittedRun ==
  \A r \in Requests :
    req[r].pc \in {"running", "hinting", "freeing", "done"} => r \in released

\* Without an overlap, whoever updates memtrack does it alone and with its
\* present value, and what the manager is about to admit fits.
TrackAlone ==
  ~raced =>
    /\ \A r, q \in Requests :
         req[r].pc = "freeing" /\ req[q].pc = "freeing" => r = q
    /\ \A r \in Requests :
         req[r].pc = "freeing" => mgr.pc # "track" /\ req[r].seen = memtrack
    /\ mgr.pc = "track" => mgr.seen = memtrack
    /\ mgr.pc = "scan" => mgr.seen + memtrack <= Limit
    /\ mgr.pc \in {"activate", "remove", "track"} =>
         Size[mgr.picked] + memtrack < Limit

TrackInv == AdmittedRun /\ TrackAlone /\ TrackExact /\ LimitKept

LEMMA InitTracks == Init => TrackInv
<1> SUFFICES ASSUME Init PROVE TrackInv
  OBVIOUS
<1>1. released \ At({"done"}) = {} /\ Units({}) = {}
  BY DEF Init, Units
<1>2. Outstanding = 0
  BY <1>1, FS_EmptySet DEF Outstanding
<1>3. QED
  BY <1>2, MemLimAssumption
     DEF Init, Idle, TrackInv, AdmittedRun, TrackAlone, TrackExact, LimitKept

\* Outstanding changes only when a channel is closed or a hint is stored.
LEMMA OutstandingFrame ==
  ASSUME released' = released, At({"done"})' = At({"done"})
  PROVE  Outstanding' = Outstanding
  BY DEF Outstanding, Units

LEMMA AdmittedRunStep ==
  ASSUME TypeOK, AdmittedRun, [Next]_vars
  PROVE  AdmittedRun'
<1> USE DEF AdmittedRun
<1>1. ASSUME NEW r \in Requests, Request(r) PROVE AdmittedRun'
  BY <1>1, GoesEffect DEF Request, Call, AppendWrite, AppendStore, Proceed,
                          CopyEnds, HintLoad, HintStore, StoreHint
<1>2. CASE Manager \/ TickSheds
  BY <1>2 DEF Manager, Manages, TickAdmits, TickSheds, Scan, ScanFails,
              Activate, ActivateThe, Remove, Release
<1>3. ASSUME NEW s \in Shedders, ShedLoad(s) \/ ShedKill(s) PROVE AdmittedRun'
  BY <1>3 DEF ShedLoad, ShedKill
<1>4. CASE UNCHANGED vars
  BY <1>4 DEF vars
<1>5. QED
  BY <1>1, <1>2, <1>3, <1>4 DEF Next

\* The tracking invariant where nothing has overlapped.
Tracked == ~raced /\ TrackAlone /\ memtrack = Outstanding /\ Outstanding < Limit

LEMMA RequestTrackStep ==
  ASSUME TypeOK, InBounds, Exact, AdmittedRun, Tracked,
         NEW r \in Requests, Request(r), ~raced'
  PROVE  TrackAlone' /\ memtrack' = Outstanding' /\ Outstanding' < Limit
<1> USE MemLimAssumption DEF Tracked, TrackAlone
<1>0. memtrack \in Nat
  BY DEF TypeOK
<1>1. CASE Call(r) \/ AppendWrite(r) \/ AppendStore(r) \/ Proceed(r) \/ CopyEnds(r)
  <2>1. /\ \A q \in Requests : req'[q].pc = "freeing" =>
             req[q].pc = "freeing" /\ req'[q] = req[q]
        /\ At({"done"})' = At({"done"})
        /\ UNCHANGED <<released, mgr, memtrack>>
    BY <1>1, GoesEffect DEF Call, AppendWrite, AppendStore, Proceed, CopyEnds, At
  <2>2. QED
    BY <2>1, OutstandingFrame
<1>2. CASE HintLoad(r)
  <2>1. (\A q \in Requests : req[q].pc # "freeing") /\ mgr.pc # "track"
    BY <1>2 DEF HintLoad, TrackBusy, At
  <2>2. /\ req[r].pc = "hinting" /\ req'[r].pc = "freeing" /\ req'[r].seen = memtrack
        /\ \A q \in Requests \ {r} : req'[q] = req[q]
        /\ UNCHANGED <<released, mgr, memtrack>>
    BY <1>2, GoesEffect DEF HintLoad
  <2>3. At({"done"})' = At({"done"})
    BY <2>2 DEF At
  <2>4. QED
    BY <2>1, <2>2, <2>3, OutstandingFrame
<1>3. CASE HintStore(r)
  <2> DEFINE rest == (released \ At({"done"})) \ {r}
  <2>1. /\ req[r].pc = "freeing" /\ req'[r].pc = "done"
        /\ \A q \in Requests \ {r} : req'[q] = req[q]
        /\ UNCHANGED <<released, mgr>>
        /\ memtrack' = (req[r].seen - Size[r]) % Word
    BY <1>3, GoesEffect DEF HintStore, StoreHint
  <2>2. req[r].seen = memtrack
    BY <2>1
  <2>3. /\ released \ At({"done"}) = rest \cup {r}
        /\ released' \ At({"done"})' = rest
    BY <2>1 DEF AdmittedRun, At
  <2>4. rest \in SUBSET Requests /\ r \in Requests \ rest
    BY DEF TypeOK
  <2>5. Outstanding' = Cardinality(Units(rest))
    BY <2>3 DEF Outstanding, Units
  <2> HIDE DEF rest
  <2>6. Outstanding = Cardinality(Units(rest)) + Size[r]
    BY <2>3, <2>4, UnitsAdd DEF Outstanding
  <2>7. Cardinality(Units(rest)) \in Nat
    BY <2>4, UnitsFinite
  <2>8. Size[r] \in Nat
    OBVIOUS
  <2>9. /\ memtrack - Size[r] = Cardinality(Units(rest))
        /\ memtrack - Size[r] \in 0 .. Word - 1
    BY <1>0, <2>6, <2>7, <2>8
  <2>10. memtrack' = Cardinality(Units(rest))
    BY <2>1, <2>2, <2>9, NoWrap
  <2>11. \A q \in Requests : req'[q].pc # "freeing"
    BY <2>1
  <2>12. memtrack' \in Nat /\ memtrack' <= memtrack
    BY <1>0, <2>6, <2>7, <2>8, <2>10
  <2>13. mgr.pc # "track"
    BY <2>1
  <2>14. mgr.pc = "scan" => mgr.seen + memtrack' <= Limit
    BY <1>0, <2>12, StateTypes
  <2>15. mgr.pc \in {"activate", "remove", "track"} => Size[mgr.picked] + memtrack' < Limit
    <3>1. mgr.pc \in {"activate", "remove", "track"} => Size[mgr.picked] \in Nat
      BY DEF InBounds
    <3>2. QED
      BY <1>0, <2>12, <3>1
  <2>16. QED
    BY <1>0, <2>1, <2>5, <2>10, <2>11, <2>12, <2>13, <2>14, <2>15
<1>4. QED
  BY <1>1, <1>2, <1>3 DEF Request

\* What TickAdmits computes is what memtrack leaves of the limit, or less.
LEMMA AvailableFits ==
  ASSUME TypeOK, memtrack < Limit, NEW alloc \in Allocs, 10 * alloc < 8 * Limit
  PROVE  Available(alloc) \in Nat /\ Available(alloc) + memtrack <= Limit
<1> USE MemLimAssumption
<1>1. memtrack \in Nat /\ alloc \in Nat
  BY DEF TypeOK
<1>2. Used(alloc) \in Nat /\ Used(alloc) < Limit /\ memtrack <= Used(alloc)
  BY <1>1 DEF Used
<1>3. Limit - Used(alloc) \in 0 .. Word - 1
  BY <1>2
<1>4. Available(alloc) = Limit - Used(alloc)
  BY <1>3, NoWrap DEF Available
<1>5. QED
  BY <1>1, <1>2, <1>4

LEMMA ManagerTrackStep ==
  ASSUME TypeOK, InBounds, SlotsWritten, Exact, Tracked, Manager \/ TickSheds, ~raced'
  PROVE  TrackAlone' /\ memtrack' = Outstanding' /\ Outstanding' < Limit
<1> USE MemLimAssumption DEF Tracked, TrackAlone, Manages
<1>0. memtrack \in Nat /\ len \in 0..Slots
  BY DEF TypeOK
<1>1. ASSUME UNCHANGED <<released, req, memtrack>>, mgr'.pc # "track"
      PROVE  /\ memtrack' = Outstanding' /\ Outstanding' < Limit
             /\ \A r, q \in Requests :
                  req'[r].pc = "freeing" /\ req'[q].pc = "freeing" => r = q
             /\ \A r \in Requests :
                  req'[r].pc = "freeing" => mgr'.pc # "track" /\ req'[r].seen = memtrack'
  <2>1. At({"done"})' = At({"done"})
    BY <1>1 DEF At
  <2>2. QED
    BY <1>1, <2>1, OutstandingFrame
<1>2. ASSUME NEW alloc \in Allocs, TickAdmits(alloc)
      PROVE  TrackAlone' /\ memtrack' = Outstanding' /\ Outstanding' < Limit
  <2>1. /\ mgr'.pc = "scan" /\ mgr'.seen = Available(alloc)
        /\ UNCHANGED <<released, req, memtrack>>
    BY <1>2 DEF TickAdmits, Idle
  <2>2. Available(alloc) + memtrack <= Limit
    BY <1>2, AvailableFits DEF TickAdmits
  <2>3. QED
    BY <1>1, <2>1, <2>2
<1>3. CASE TickSheds \/ ScanFails
  <2>1. mgr'.pc = "idle" /\ UNCHANGED <<released, req, memtrack>>
    BY <1>3 DEF TickSheds, ScanFails, Idle
  <2>2. QED
    BY <1>1, <2>1
<1>4. CASE Scan
  <2>1. PICK i \in 1..len :
          /\ Fits(i)
          /\ mgr' = [pc |-> "activate", seen |-> 0, at |-> i, picked |-> slots[i], list |-> active]
    BY <1>4 DEF Scan
  <2>2. /\ mgr.pc = "scan" /\ mgr'.pc = "activate" /\ mgr'.picked = slots[i]
        /\ UNCHANGED <<released, req, memtrack>>
    BY <1>4, <2>1 DEF Scan
  <2>3. Size[slots[i]] < mgr.seen /\ Size[slots[i]] \in Nat /\ mgr.seen \in Nat
    BY <2>1, StateTypes DEF Fits, SlotsWritten
  <2>4. Size[slots[i]] + memtrack < Limit
    BY <1>0, <2>2, <2>3
  <2>5. QED
    BY <1>1, <2>2, <2>4
<1>5. CASE Activate
  <2>1. /\ mgr.pc = "activate" /\ mgr'.pc = "remove" /\ mgr'.picked = mgr.picked
        /\ UNCHANGED <<released, req, memtrack>>
    BY <1>5 DEF Activate, ActivateThe, TypeOK, ManagerStates
  <2>2. QED
    BY <1>1, <2>1
<1>6. CASE Remove
  <2>1. /\ mgr.pc = "remove" /\ mgr'.pc = "track" /\ mgr'.picked = mgr.picked
        /\ mgr'.seen = memtrack /\ UNCHANGED <<released, req, memtrack>>
    BY <1>6 DEF Remove, TypeOK, ManagerStates
  <2>2. \A q \in Requests : req[q].pc # "freeing"
    BY <1>6 DEF Remove, TrackBusy, At
  <2>3. At({"done"})' = At({"done"})
    BY <2>1 DEF At
  <2>4. QED
    BY <2>1, <2>2, <2>3, OutstandingFrame
<1>7. CASE Release
  <2> DEFINE r == mgr.picked  before == released \ At({"done"})
  <2>1. /\ mgr.pc = "track" /\ mgr'.pc = "idle" /\ req' = req
        /\ memtrack' = (mgr.seen + Size[r]) % Word
        /\ released' = released \cup {r}
    BY <1>7 DEF Release, Idle
  <2>2. r \in Requests /\ r \notin released /\ req[r].pc = "waiting"
    BY <2>1 DEF InBounds, Exact, Alone
  <2>3. Size[r] \in Nat /\ Size[r] + memtrack < Limit /\ mgr.seen = memtrack
    BY <2>1, <2>2
  <2>4. released' \ At({"done"})' = before \cup {r}
    BY <2>1, <2>2 DEF At
  <2>5. before \in SUBSET Requests /\ r \in Requests \ before
    BY <2>2 DEF TypeOK
  <2>6. Outstanding' = Cardinality(Units(before \cup {r}))
    BY <2>4 DEF Outstanding, Units
  <2>7. Outstanding = Cardinality(Units(before))
    BY DEF Outstanding
  <2> HIDE DEF r, before
  <2>8. Outstanding' = memtrack + Size[r]
    BY <2>5, <2>6, <2>7, UnitsAdd
  <2>9. memtrack + Size[r] \in 0 .. Word - 1
    BY <1>0, <2>3
  <2>10. memtrack' = memtrack + Size[r]
    BY <2>1, <2>3, <2>9, NoWrap
  <2>11. \A q \in Requests : req'[q].pc # "freeing"
    BY <2>1
  <2>12. QED
    BY <1>0, <2>1, <2>3, <2>8, <2>10, <2>11
<1>8. QED
  BY <1>2, <1>3, <1>4, <1>5, <1>6, <1>7 DEF Manager

LEMMA TrackStep ==
  ASSUME IInv, TrackInv, [Next]_vars
  PROVE  TrackInv'
<1>1. AdmittedRun'
  BY AdmittedRunStep DEF IInv, TrackInv
<1>2. raced => raced'
  BY DEF Next, Manager, Request, Goes, Manages, vars, Call, AppendWrite, AppendStore,
     Proceed, CopyEnds, HintLoad, HintStore, StoreHint, TickSheds, TickAdmits,
     Scan, ScanFails, Activate, ActivateThe, Remove, Release, ShedLoad, ShedKill
<1>3. CASE raced'
  BY <1>1, <1>3 DEF TrackInv, TrackAlone, TrackExact, LimitKept
<1>4. CASE ~raced'
  <2>1. Exact /\ Tracked
    BY <1>2, <1>4 DEF IInv, Exact, TrackInv, Tracked, TrackExact, LimitKept
  <2>2. SUFFICES TrackAlone' /\ memtrack' = Outstanding' /\ Outstanding' < Limit
    BY <1>1 DEF TrackInv, TrackExact, LimitKept
  <2>3. ASSUME UNCHANGED <<released, req, mgr, memtrack, raced>>
        PROVE  TrackAlone' /\ memtrack' = Outstanding' /\ Outstanding' < Limit
    <3>1. Outstanding' = Outstanding
      BY <2>3 DEF Outstanding, Units, At
    <3>2. QED
      BY <2>1, <2>3, <3>1 DEF Tracked, TrackAlone
  <2>4. ASSUME NEW s \in Shedders, ShedLoad(s) \/ ShedKill(s)
        PROVE  TrackAlone' /\ memtrack' = Outstanding' /\ Outstanding' < Limit
    BY <2>3, <2>4 DEF ShedLoad, ShedKill
  <2>5. CASE UNCHANGED vars
    BY <2>3, <2>5 DEF vars
  <2>6. QED
    BY <1>4, <2>1, <2>4, <2>5, RequestTrackStep, ManagerTrackStep
       DEF Next, IInv, TrackInv
<1>5. QED
  BY <1>3, <1>4

LEMMA TrackInvariant == Spec => []TrackInv
<1>1. Init => TrackInv
  BY InitTracks
<1>2. IInv /\ TrackInv /\ [Next]_vars => TrackInv'
  BY TrackStep
<1>3. QED
  BY <1>1, <1>2, MemLimInvariant, PTL DEF Spec

\* Unless two updates overlap, memtrack is the memory of the requests that
\* have been admitted and have not given their hint.
THEOREM TrackIsExact == Spec => []TrackExact
<1>1. TrackInv => TrackExact
  BY DEF TrackInv
<1>2. QED
  BY <1>1, TrackInvariant, PTL

\* Unless two updates overlap, the memory admitted stays below the limit,
\* although avail is computed some steps before the request is admitted and
\* in unsigned arithmetic.
THEOREM AdmissionKeepsLimit == Spec => []LimitKept
<1>1. TrackInv => LimitKept
  BY DEF TrackInv
<1>2. QED
  BY <1>1, TrackInvariant, PTL

\* Unless two updates overlap, only requests below the limit are admitted.
FitsAlone == ~raced => \A r \in released : Size[r] < Limit

\* ... so a request of at least the limit has not got beyond its wait.
OversizedWait ==
  ~raced =>
    \A r \in Requests : Size[r] >= Limit =>
      req[r].pc \in {"new", "appending", "written", "waiting"} /\ r \notin released

LEMMA FitsAloneStep ==
  ASSUME IInv, TrackInv, FitsAlone, [Next]_vars
  PROVE  FitsAlone'
<1>1. raced => raced'
  BY DEF Next, Manager, Request, Goes, Manages, vars, Call, AppendWrite, AppendStore,
     Proceed, CopyEnds, HintLoad, HintStore, StoreHint, TickSheds, TickAdmits,
     Scan, ScanFails, Activate, ActivateThe, Remove, Release, ShedLoad, ShedKill
<1>2. SUFFICES ASSUME ~raced' PROVE \A r \in released' : Size[r] < Limit
  BY DEF FitsAlone
<1>3. ~raced /\ \A r \in released : Size[r] < Limit
  BY <1>1, <1>2 DEF FitsAlone
<1>4. CASE Release
  <2>1. mgr.pc = "track" /\ released' = released \cup {mgr.picked}
    BY <1>4 DEF Release, Manages
  <2>2. mgr.picked \in Requests /\ Size[mgr.picked] \in Nat
    BY <2>1, MemLimAssumption DEF IInv, InBounds
  <2>3. Size[mgr.picked] + memtrack < Limit /\ memtrack \in Nat
    BY <1>3, <2>1, MemLimAssumption DEF IInv, TypeOK, TrackInv, TrackAlone
  <2>4. Size[mgr.picked] < Limit
    BY <2>2, <2>3, MemLimAssumption
  <2>5. QED
    BY <1>3, <2>1, <2>4
<1>5. CASE ~Release
  <2>1. released' = released
    BY <1>5 DEF Next, Manager, Request, Goes, vars, Call, AppendWrite, AppendStore,
       Proceed, CopyEnds, HintLoad, HintStore, StoreHint, TickSheds, TickAdmits,
       Scan, ScanFails, Activate, ActivateThe, Remove, ShedLoad, ShedKill
  <2>2. QED
    BY <1>3, <2>1
<1>6. QED
  BY <1>4, <1>5

\* A request of at least the limit is never admitted while no updates
\* overlap: avail is what memtrack leaves of the limit.  Its WaitForFreeMemory
\* does not return, and its worker takes no other job.
THEOREM OversizedNeverProceeds == Spec => []OversizedWait
<1>1. Init => FitsAlone
  BY DEF Init, FitsAlone
<1>2. IInv /\ TrackInv /\ FitsAlone /\ [Next]_vars => FitsAlone'
  BY FitsAloneStep
<1>3. IInv /\ TrackInv /\ FitsAlone => OversizedWait
  <2>1. SUFFICES ASSUME IInv, TrackInv, FitsAlone, ~raced,
                        NEW r \in Requests, Size[r] >= Limit
                 PROVE  /\ req[r].pc \in {"new", "appending", "written", "waiting"}
                        /\ r \notin released
    BY DEF OversizedWait
  <2>2. r \notin released
    BY <2>1, MemLimAssumption DEF FitsAlone
  <2>3. req[r].pc \in Places
    BY <2>1, StateTypes DEF IInv
  <2>4. req[r].pc \notin {"running", "hinting", "freeing", "done"}
    BY <2>1, <2>2 DEF TrackInv, AdmittedRun
  <2>5. QED
    BY <2>2, <2>3, <2>4 DEF Places
<1>4. QED
  BY <1>1, <1>2, <1>3, MemLimInvariant, TrackInvariant, PTL DEF Spec
=============================================================================
