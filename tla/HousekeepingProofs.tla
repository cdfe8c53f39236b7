------------------------- MODULE HousekeepingProofs -------------------------
(***************************************************************************)
(* Theorems about Housekeeping: its types, that it deletes no tag that a   *)
(* job wants, that it does not end before the destination has what the     *)
(* jobs want and nothing else, and, for its end, that the stages never     *)
(* wait for each other and take finitely many steps.                       *)
(***************************************************************************)
EXTENDS Housekeeping, SequenceTheorems, FiniteSetTheorems, TLAPS

\* The jobs that have not come to housekeeping.
Coming ==
  pending \cup Range(toKeep) \cup (IF split.pc \in {"first", "second"} THEN {split.job} ELSE {})

\* splitJobCh has a job while it sends, and is closed after the last one.
SplitShape ==
  /\ split.pc \in {"first", "second"} => split.job \in jobs
  /\ split.pc = "closed" => pending = {}

\* A wanted tag is in delTagsMap only while its job is still to come, and
\* before the listing has ended every job is.
WantedComes ==
  /\ stage = "load" => jobs \subseteq Coming
  /\ stage # "load" => unlisted = {}
  /\ stage = "keep" => delTags \cap jobs \subseteq Coming
  /\ stage \in {"delete", "closed"} => delTags \cap jobs = {}

\* No worker has a wanted tag.
NoneDeleting ==
  /\ stage \in {"load", "keep"} => \A d \in Deleters : deleting[d] = NoTag
  /\ \A d \in Deleters : deleting[d] \notin jobs

IInv == TypeOK /\ SplitShape /\ WantedComes /\ NoneDeleting

LEMMA InitEstablishesIInv == Init => IInv
<1> SUFFICES ASSUME Init PROVE IInv
  OBVIOUS
<1> USE HousekeepingAssumption DEF Init, Receiving
<1>1. TypeOK
  BY DEF TypeOK
<1>2. SplitShape /\ NoneDeleting
  BY DEF SplitShape, NoneDeleting
<1>3. WantedComes
  BY DEF WantedComes, Coming
<1>4. QED
  BY <1>1, <1>2, <1>3 DEF IInv

-----------------------------------------------------------------------------
(* The buffers *)

LEMMA AppendToBuffer ==
  ASSUME NEW S, NEW s \in Seq(S), NEW e \in S, HasRoom(s)
  PROVE  /\ Append(s, e) \in Seq(S) /\ Len(Append(s, e)) <= BufferSize
         /\ Range(Append(s, e)) = Range(s) \cup {e}
<1> DEFINE t == Append(s, e)
<1>1. /\ t \in Seq(S)
      /\ Len(t) = Len(s) + 1
      /\ \A i \in 1..Len(s) : t[i] = s[i]
      /\ t[Len(s) + 1] = e
  BY AppendProperties
<1>2. DOMAIN t = 1..(Len(s) + 1) /\ DOMAIN s = 1..Len(s) /\ Len(s) \in Nat
  BY <1>1, LenProperties
<1> HIDE DEF t
<1>3. Range(t) = Range(s) \cup {e}
  BY <1>1, <1>2 DEF Range
<1>4. QED
  BY <1>1, <1>2, <1>3, HousekeepingAssumption DEF t, HasRoom

LEMMA TakeFromBuffer ==
  ASSUME NEW S, NEW s \in Seq(S), Len(s) <= BufferSize, s # <<>>
  PROVE  /\ Tail(s) \in Seq(S) /\ Len(Tail(s)) <= BufferSize
         /\ Head(s) \in S
         /\ Range(s) \subseteq Range(Tail(s)) \cup {Head(s)}
<1> DEFINE t == Tail(s)
<1>1. /\ t \in Seq(S)
      /\ Len(t) = Len(s) - 1
      /\ \A i \in 1..Len(t) : t[i] = s[i + 1]
  BY HeadTailProperties
<1>2. /\ DOMAIN t = 1..(Len(s) - 1)
      /\ DOMAIN s = 1..Len(s)
      /\ Len(s) \in Nat \ {0}
  BY <1>1, LenProperties, EmptySeq
<1>3. Head(s) = s[1] /\ Head(s) \in S
  BY <1>2
<1> HIDE DEF t
<1>4. ASSUME NEW i \in 1..Len(s) PROVE s[i] \in Range(t) \cup {s[1]}
  <2>1. CASE i = 1
    BY <2>1
  <2>2. CASE i # 1
    <3>1. i - 1 \in DOMAIN t /\ t[i - 1] = s[i]
      BY <1>1, <1>2, <2>2
    <3>2. QED
      BY <3>1 DEF Range
  <2>3. QED
    BY <2>1, <2>2
<1>5. Range(s) \subseteq Range(t) \cup {Head(s)}
  BY <1>2, <1>3, <1>4 DEF Range
<1>6. QED
  BY <1>1, <1>2, <1>3, <1>5, HousekeepingAssumption DEF t

-----------------------------------------------------------------------------
(* Types *)

LEMMA SplitterType == TypeOK /\ SplitShape /\ Splitter => TypeOK' /\ SplitShape'
<1> SUFFICES ASSUME TypeOK, SplitShape, Splitter PROVE TypeOK' /\ SplitShape'
  OBVIOUS
<1> USE DEF TypeOK, SplitShape, Splits, Receiving, copyVars, listVars
<1>1. CASE SplitReceive
  BY <1>1 DEF SplitReceive
<1>2. CASE SendToCopy
  <2>1. split.job \in jobs /\ HasRoom(toCopy) /\ toCopy' = Append(toCopy, split.job)
    BY <1>2 DEF SendToCopy
  <2>2. toCopy' \in Seq(jobs) /\ Len(toCopy') <= BufferSize
    BY <2>1, AppendToBuffer
  <2>3. QED
    BY <1>2, <2>2 DEF SendToCopy
<1>3. CASE SendToKeep
  <2>1. split.job \in jobs /\ HasRoom(toKeep) /\ toKeep' = Append(toKeep, split.job)
    BY <1>3 DEF SendToKeep
  <2>2. toKeep' \in Seq(jobs) /\ Len(toKeep') <= BufferSize
    BY <2>1, AppendToBuffer
  <2>3. QED
    BY <1>3, <2>2 DEF SendToKeep
<1>4. CASE SplitCloses
  BY <1>4 DEF SplitCloses
<1>5. QED
  BY <1>1, <1>2, <1>3, <1>4 DEF Splitter

LEMMA CopierType == TypeOK /\ SplitShape /\ Copier => TypeOK' /\ SplitShape'
<1> SUFFICES ASSUME TypeOK, SplitShape, Copier PROVE TypeOK' /\ SplitShape'
  OBVIOUS
<1> USE HousekeepingAssumption DEF TypeOK, SplitShape, listVars
<1>1. CASE TakeJob
  <2>1. /\ Tail(toCopy) \in Seq(jobs) /\ Len(Tail(toCopy)) <= BufferSize
        /\ Head(toCopy) \in jobs
    BY <1>1, TakeFromBuffer DEF TakeJob
  <2>2. QED
    BY <1>1, <2>1 DEF TakeJob
<1>2. ASSUME NEW t \in jobs, CopyEnds(t) PROVE TypeOK' /\ SplitShape'
  BY <1>2 DEF CopyEnds
<1>3. QED
  BY <1>1, <1>2 DEF Copier

LEMMA KeeperType == TypeOK /\ SplitShape /\ Keeper => TypeOK' /\ SplitShape'
<1> SUFFICES ASSUME TypeOK, SplitShape, Keeper PROVE TypeOK' /\ SplitShape'
  OBVIOUS
<1> USE DEF TypeOK, SplitShape, copyVars, Enters
<1>1. ASSUME NEW t \in Tags, ListTag(t) PROVE TypeOK' /\ SplitShape'
  BY <1>1 DEF ListTag
<1>2. ASSUME NEW t \in Tags, ListFails(t) PROVE TypeOK' /\ SplitShape'
  BY <1>2 DEF ListFails
<1>3. CASE LoadEnds \/ KeepEnds \/ DeleteEnds
  BY <1>3 DEF LoadEnds, KeepEnds, DeleteEnds
<1>4. CASE KeepTag
  <2>1. Tail(toKeep) \in Seq(jobs) /\ Len(Tail(toKeep)) <= BufferSize
    BY <1>4, TakeFromBuffer DEF KeepTag
  <2>2. QED
    BY <1>4, <2>1 DEF KeepTag
<1>5. ASSUME NEW d \in Deleters, SendDelete(d) PROVE TypeOK' /\ SplitShape'
  BY <1>5 DEF SendDelete
<1>6. ASSUME NEW d \in Deleters, DeleteTag(d) PROVE TypeOK' /\ SplitShape'
  <2>1. deleting[d] \in Tags
    BY <1>6 DEF DeleteTag
  <2>2. QED
    BY <1>6, <2>1 DEF DeleteTag
<1>7. QED
  BY <1>1, <1>2, <1>3, <1>4, <1>5, <1>6 DEF Keeper

-----------------------------------------------------------------------------
(* Wanted tags *)

\* Until it comes to housekeeping, a job moves but is not lost.
LEMMA SplitterKeepsComing ==
  TypeOK /\ SplitShape /\ Splitter => Coming \subseteq Coming'
<1> SUFFICES ASSUME TypeOK, SplitShape, Splitter PROVE Coming \subseteq Coming'
  OBVIOUS
<1> USE DEF Coming, Splits, Receiving
<1>1. CASE SplitReceive
  BY <1>1 DEF SplitReceive, TypeOK
<1>2. CASE SendToCopy
  BY <1>2 DEF SendToCopy, TypeOK
<1>3. CASE SendToKeep
  <2>1. split.job \in jobs /\ HasRoom(toKeep) /\ toKeep' = Append(toKeep, split.job)
    BY <1>3 DEF SendToKeep, SplitShape
  <2>2. Range(toKeep') = Range(toKeep) \cup {split.job}
    BY <2>1, AppendToBuffer DEF TypeOK
  <2>3. QED
    BY <1>3, <2>2 DEF SendToKeep
<1>4. CASE SplitCloses
  BY <1>4 DEF SplitCloses
<1>5. QED
  BY <1>1, <1>2, <1>3, <1>4 DEF Splitter

\* A step that changes nothing of housekeeping's preserves its invariants if
\* it loses no job on the way.
LEMMA KeepingFrame ==
  /\ WantedComes /\ NoneDeleting /\ Coming \subseteq Coming'
  /\ UNCHANGED <<jobs, stage, unlisted, delTags, deleting>>
  => WantedComes' /\ NoneDeleting'
  BY DEF WantedComes, NoneDeleting

LEMMA KeeperKeepsWanted ==
  TypeOK /\ SplitShape /\ WantedComes /\ NoneDeleting /\ Keeper
  => WantedComes' /\ NoneDeleting'
<1> SUFFICES ASSUME TypeOK, SplitShape, WantedComes, NoneDeleting, Keeper
             PROVE  WantedComes' /\ NoneDeleting'
  OBVIOUS
<1> USE HousekeepingAssumption DEF copyVars, Enters
<1>1. ASSUME NEW t \in Tags, ListTag(t) PROVE WantedComes' /\ NoneDeleting'
  <2>1. stage = "load" /\ Coming' = Coming /\ UNCHANGED <<jobs, stage, deleting>>
    BY <1>1 DEF ListTag, Coming, WantedComes
  <2>2. QED
    BY <2>1 DEF WantedComes, NoneDeleting
<1>2. ASSUME NEW t \in Tags, ListFails(t) PROVE WantedComes' /\ NoneDeleting'
  <2>1. stage = "load" /\ Coming' = Coming /\ UNCHANGED <<jobs, stage, delTags, deleting>>
    BY <1>2 DEF ListFails, Coming, WantedComes
  <2>2. QED
    BY <2>1 DEF WantedComes, NoneDeleting
<1>3. CASE LoadEnds
  <2>1. Coming' = Coming
    BY <1>3 DEF LoadEnds, Coming
  <2>2. QED
    BY <1>3, <2>1 DEF LoadEnds, WantedComes, NoneDeleting
<1>4. CASE KeepTag
  <2>1. Range(toKeep) \subseteq Range(toKeep') \cup {Head(toKeep)}
    BY <1>4, TakeFromBuffer DEF KeepTag, TypeOK
  <2>2. Coming \subseteq Coming' \cup {Head(toKeep)}
    BY <1>4, <2>1 DEF KeepTag, Coming
  <2>3. QED
    BY <1>4, <2>2 DEF KeepTag, WantedComes, NoneDeleting
<1>5. CASE KeepEnds
  <2>1. Coming = {}
    BY <1>5 DEF KeepEnds, Coming, SplitShape, Range
  <2>2. QED
    BY <1>5, <2>1 DEF KeepEnds, WantedComes, NoneDeleting
<1>6. CASE DeleteEnds
  BY <1>6 DEF DeleteEnds, WantedComes, NoneDeleting
<1>7. ASSUME NEW d \in Deleters, SendDelete(d) PROVE WantedComes' /\ NoneDeleting'
  BY <1>7 DEF SendDelete, WantedComes, NoneDeleting, TypeOK
<1>8. ASSUME NEW d \in Deleters, DeleteTag(d) PROVE WantedComes' /\ NoneDeleting'
  <2>1. NoTag \notin jobs
    BY DEF TypeOK
  <2>2. NoneDeleting'
    BY <1>8, <2>1 DEF DeleteTag, NoneDeleting, TypeOK
  <2>3. Coming' = Coming
    BY <1>8 DEF DeleteTag, Coming
  <2>4. QED
    BY <1>8, <2>2, <2>3 DEF DeleteTag, WantedComes
<1>9. QED
  BY <1>1, <1>2, <1>3, <1>4, <1>5, <1>6, <1>7, <1>8 DEF Keeper

LEMMA NextKeepsIInv == IInv /\ [Next]_vars => IInv'
<1> SUFFICES ASSUME IInv, [Next]_vars PROVE IInv'
  OBVIOUS
<1> USE DEF IInv
<1>1. CASE Splitter
  <2>1. UNCHANGED <<jobs, stage, unlisted, delTags, deleting>>
    BY <1>1 DEF Splitter, SplitReceive, SendToCopy, SendToKeep, SplitCloses, Splits, listVars
  <2>2. QED
    BY <1>1, <2>1, SplitterType, SplitterKeepsComing, KeepingFrame
<1>2. CASE Copier
  <2>1. /\ UNCHANGED <<jobs, stage, unlisted, delTags, deleting>>
        /\ UNCHANGED <<pending, split, toKeep>>
    BY <1>2 DEF Copier, TakeJob, CopyEnds, listVars
  <2>2. Coming' = Coming
    BY <2>1 DEF Coming
  <2>3. QED
    BY <1>2, <2>1, <2>2, CopierType, KeepingFrame
<1>3. CASE Keeper
  BY <1>3, KeeperType, KeeperKeepsWanted
<1>4. CASE UNCHANGED vars
  <2>1. TypeOK'
    BY <1>4 DEF vars, copyVars, listVars, TypeOK
  <2>2. SplitShape' /\ WantedComes' /\ NoneDeleting'
    BY <1>4 DEF vars, copyVars, listVars, SplitShape, WantedComes, NoneDeleting, Coming
  <2>3. QED
    BY <2>1, <2>2
<1>5. QED
  BY <1>1, <1>2, <1>3, <1>4 DEF Next

-----------------------------------------------------------------------------
(* The theorems *)

\* The inductive invariant holds in every reachable state.
THEOREM HousekeepingInvariant == Spec => []IInv
<1>1. Init => IInv
  BY InitEstablishesIInv
<1>2. IInv /\ [Next]_vars => IInv'
  BY NextKeepsIInv
<1>3. QED
  BY <1>1, <1>2, PTL DEF Spec

\* Every variable keeps its type, and neither buffer of splitJobCh overflows.
THEOREM HousekeepingTypeCorrect == Spec => []TypeOK
<1>1. IInv => TypeOK
  BY DEF IInv
<1>2. QED
  BY <1>1, HousekeepingInvariant, PTL

\* However the listing, the copies, the jobs and the deletions interleave, a
\* tag that a job wants never disappears from the destination (run.go:331).
THEOREM WantedTagsStay == Spec => WantedStays
<1> DEFINE Step == \A t \in jobs : t \in present => t \in present'
<1>1. ASSUME IInv, [Next]_vars PROVE [Step]_vars
  <2>1. ASSUME NEW d \in Deleters, DeleteTag(d) PROVE Step
    BY <1>1, <2>1 DEF DeleteTag, IInv, NoneDeleting
  <2>2. ASSUME NEW t \in jobs, CopyEnds(t) PROVE Step
    BY <2>2 DEF CopyEnds
  <2>3. ASSUME UNCHANGED present PROVE Step
    BY <2>3
  <2>4. CASE Splitter
    BY <2>3, <2>4 DEF Splitter, SplitReceive, SendToCopy, SendToKeep, SplitCloses, Splits, copyVars
  <2>5. CASE Copier
    BY <2>2, <2>3, <2>5 DEF Copier, TakeJob
  <2>6. CASE Keeper
    BY <2>1, <2>3, <2>6 DEF Keeper, ListTag, ListFails, LoadEnds, KeepTag, KeepEnds,
         DeleteEnds, Enters, SendDelete, copyVars
  <2>7. QED
    BY <1>1, <2>3, <2>4, <2>5, <2>6 DEF Next
<1>2. QED
  BY <1>1, HousekeepingInvariant, PTL DEF Spec, WantedStays

-----------------------------------------------------------------------------
(* What is there when the stages have ended *)

\* An unwanted tag is on its way to be deleted until it is, or it fails.
UnwantedLeaves ==
  /\ \A t \in present \ (jobs \cup failed \cup Schema1) :
       t \in unlisted \cup delTags \/ \E d \in Deleters : deleting[d] = t
  /\ stage = "closed" => delTags = {}

\* The jobs that the copy stage has not ended.
ToCome ==
  pending \cup Range(toCopy) \cup copying \cup (IF split.pc = "first" THEN {split.job} ELSE {})

\* A wanted tag is to be copied until it is, or it fails.
WantedArrives == jobs \subseteq present \cup failed \cup ToCome

ConvergeInv == IInv /\ UnwantedLeaves /\ WantedArrives

LEMMA InitConverge == Init => ConvergeInv
<1> SUFFICES ASSUME Init PROVE ConvergeInv
  OBVIOUS
<1>1. IInv
  BY InitEstablishesIInv
<1>2. UnwantedLeaves
  BY HousekeepingAssumption DEF Init, UnwantedLeaves
<1>3. WantedArrives
  BY DEF Init, WantedArrives, ToCome
<1> QED BY <1>1, <1>2, <1>3 DEF ConvergeInv

LEMMA SplitterConverge == ConvergeInv /\ Splitter => UnwantedLeaves' /\ WantedArrives'
<1> SUFFICES ASSUME ConvergeInv, Splitter PROVE UnwantedLeaves' /\ WantedArrives'
  OBVIOUS
<1>1. UNCHANGED <<jobs, copying, present, failed, unlisted, stage, delTags, deleting>>
  BY DEF Splitter, SplitReceive, SendToCopy, SendToKeep, SplitCloses, Splits, copyVars, listVars
<1>2. UnwantedLeaves'
  BY <1>1 DEF ConvergeInv, UnwantedLeaves
<1>3. ToCome \subseteq ToCome'
  <2> USE DEF ToCome, Splits, Receiving
  <2>1. CASE SplitReceive
    BY <1>1, <2>1 DEF SplitReceive, ConvergeInv, IInv, TypeOK
  <2>2. CASE SendToCopy
    <3>1. split.job \in jobs /\ HasRoom(toCopy) /\ toCopy' = Append(toCopy, split.job)
      BY <2>2 DEF SendToCopy, ConvergeInv, IInv, SplitShape
    <3>2. Range(toCopy') = Range(toCopy) \cup {split.job}
      BY <3>1, AppendToBuffer DEF ConvergeInv, IInv, TypeOK
    <3> QED BY <1>1, <2>2, <3>2 DEF SendToCopy
  <2>3. CASE SendToKeep
    BY <1>1, <2>3 DEF SendToKeep
  <2>4. CASE SplitCloses
    BY <1>1, <2>4 DEF SplitCloses
  <2> QED BY <2>1, <2>2, <2>3, <2>4 DEF Splitter
<1>4. WantedArrives'
  BY <1>1, <1>3 DEF ConvergeInv, WantedArrives
<1> QED BY <1>2, <1>4

LEMMA CopierConverge == ConvergeInv /\ Copier => UnwantedLeaves' /\ WantedArrives'
<1> SUFFICES ASSUME ConvergeInv, Copier PROVE UnwantedLeaves' /\ WantedArrives'
  OBVIOUS
<1>1. CASE TakeJob
  <2>1. UNCHANGED <<jobs, pending, split, present, failed, unlisted, stage, delTags, deleting>>
    BY <1>1 DEF TakeJob, listVars
  <2>2. Range(toCopy) \subseteq Range(toCopy') \cup {Head(toCopy)}
    BY <1>1, TakeFromBuffer DEF TakeJob, ConvergeInv, IInv, TypeOK
  <2>3. ToCome \subseteq ToCome'
    BY <1>1, <2>1, <2>2 DEF TakeJob, ToCome
  <2> QED BY <2>1, <2>3 DEF ConvergeInv, UnwantedLeaves, WantedArrives
<1>2. ASSUME NEW t \in jobs, CopyEnds(t)
      PROVE  UnwantedLeaves' /\ WantedArrives'
  <2>1. /\ UNCHANGED <<jobs, pending, split, toCopy, unlisted, stage, delTags, deleting>>
        /\ present \subseteq present' /\ present' \subseteq present \cup {t}
        /\ failed \subseteq failed' /\ t \in present' \cup failed'
        /\ copying' = copying \ {t}
    BY <1>2 DEF CopyEnds, listVars
  <2>2. ToCome \subseteq ToCome' \cup {t}
    BY <2>1 DEF ToCome
  <2> QED BY <2>1, <2>2 DEF ConvergeInv, UnwantedLeaves, WantedArrives
<1> QED BY <1>1, <1>2 DEF Copier

LEMMA KeeperConverge == ConvergeInv /\ Keeper => UnwantedLeaves' /\ WantedArrives'
<1> SUFFICES ASSUME ConvergeInv, Keeper PROVE UnwantedLeaves' /\ WantedArrives'
  OBVIOUS
<1> USE DEF copyVars, Enters
<1>1. /\ UNCHANGED <<jobs, pending, split, toCopy, copying>>
      /\ failed \subseteq failed'
      /\ present' = present \/ \E d \in Deleters : DeleteTag(d)
  BY DEF Keeper, ListTag, ListFails, LoadEnds, KeepTag, KeepEnds, DeleteEnds, SendDelete, DeleteTag
<1>2. WantedArrives'
  <2>1. present \cap jobs \subseteq present'
    BY <1>1 DEF DeleteTag, ConvergeInv, IInv, NoneDeleting
  <2>2. ToCome' = ToCome
    BY <1>1 DEF ToCome
  <2> QED BY <1>1, <2>1, <2>2 DEF ConvergeInv, WantedArrives
<1>3. UnwantedLeaves'
  <2> USE DEF ConvergeInv, UnwantedLeaves
  <2>1. ASSUME NEW t \in Tags, ListTag(t) PROVE UnwantedLeaves'
    BY <2>1 DEF ListTag, IInv, WantedComes
  <2>2. ASSUME NEW t \in Tags, ListFails(t) PROVE UnwantedLeaves'
    BY <2>2 DEF ListFails
  <2>3. CASE LoadEnds \/ KeepEnds \/ DeleteEnds
    BY <2>3 DEF LoadEnds, KeepEnds, DeleteEnds
  <2>4. CASE KeepTag
    <3>1. Head(toKeep) \in jobs
      BY <2>4, TakeFromBuffer DEF KeepTag, IInv, TypeOK
    <3> QED BY <2>4, <3>1 DEF KeepTag
  <2>5. ASSUME NEW d \in Deleters, SendDelete(d) PROVE UnwantedLeaves'
    BY <2>5, HousekeepingAssumption DEF SendDelete, IInv, TypeOK
  <2>6. ASSUME NEW d \in Deleters, DeleteTag(d) PROVE UnwantedLeaves'
    BY <2>6 DEF DeleteTag, IInv, TypeOK
  <2> QED BY <2>1, <2>2, <2>3, <2>4, <2>5, <2>6 DEF Keeper
<1> QED BY <1>2, <1>3

LEMMA NextKeepsConvergeInv == ConvergeInv /\ [Next]_vars => ConvergeInv'
<1> SUFFICES ASSUME ConvergeInv, [Next]_vars PROVE ConvergeInv'
  OBVIOUS
<1>1. IInv'
  BY NextKeepsIInv DEF ConvergeInv
<1>2. CASE UNCHANGED vars
  <2>1. UNCHANGED <<jobs, pending, split, toCopy, copying, present, failed>>
    BY <1>2 DEF vars
  <2>2. WantedArrives'
    BY <2>1 DEF ConvergeInv, WantedArrives, ToCome
  <2>3. UnwantedLeaves'
    BY <1>2 DEF vars, ConvergeInv, UnwantedLeaves
  <2> QED BY <1>1, <2>2, <2>3 DEF ConvergeInv
<1>3. UnwantedLeaves' /\ WantedArrives'
  BY <1>2, SplitterConverge, CopierConverge, KeeperConverge DEF Next, ConvergeInv
<1> QED BY <1>1, <1>3 DEF ConvergeInv

\* run.go:301 "only the desired (specified) image tags are present": when every
\* stage has ended, whatever they did at once, the destination has exactly
\* what the jobs want, but for failures that were reported and for schema 1.
\* That the stages do end is Converges's other half.
THEOREM EndsConverged == Spec => [](Ended => Converged)
<1>1. ASSUME ConvergeInv, Ended
      PROVE  Converged
  <2>1. /\ pending = {} /\ Range(toCopy) = {} /\ copying = {} /\ split.pc # "first"
        /\ unlisted = {} /\ delTags = {} /\ \A d \in Deleters : deleting[d] = NoTag
    BY <1>1 DEF Ended, ConvergeInv, IInv, SplitShape, WantedComes, UnwantedLeaves, Range
  <2>2. jobs \subseteq present \cup failed
    BY <1>1, <2>1 DEF ConvergeInv, WantedArrives, ToCome
  <2>3. present \subseteq jobs \cup failed \cup Schema1
    BY <1>1, <2>1, HousekeepingAssumption DEF ConvergeInv, UnwantedLeaves, IInv, TypeOK
  <2> QED BY <2>2, <2>3 DEF Converged
<1>2. ConvergeInv => (Ended => Converged)
  BY <1>1
<1> QED BY <1>2, InitConverge, NextKeepsConvergeInv, PTL DEF Spec
-----------------------------------------------------------------------------
(* That they do end: no state has everyone waiting, and the steps run out *)

\* Some goroutine is not waiting: the guards of the actions.
SomeoneCanGo ==
  \/ split.pc = "receive"
  \/ split.pc = "first" /\ HasRoom(toCopy)
  \/ split.pc = "second" /\ HasRoom(toKeep)
  \/ toCopy # <<>> \/ copying # {}
  \/ stage = "load"
  \/ stage = "keep" /\ (toKeep # <<>> \/ split.pc = "closed")
  \/ stage = "delete" /\ (delTags = {} \/ \E d \in Deleters : deleting[d] = NoTag)
  \/ \E d \in Deleters : deleting[d] # NoTag

\* Housekeeping leaves its second loop when splitJobCh has closed out2.
DeletesAfterSplit == stage \in {"delete", "closed"} => split.pc = "closed"

\* Although one goroutine fills two bounded buffers, one after the other, and
\* the reader of the second is busy with the listing, the stages never wait
\* for each other (concurrency.go:16, run.go:327): before they have ended,
\* some goroutine can take a step.
THEOREM NobodyWaitsForEver == Spec => [](Ended \/ SomeoneCanGo)
<1>1. Init => DeletesAfterSplit
  BY DEF Init, DeletesAfterSplit
<1>2. IInv /\ DeletesAfterSplit /\ [Next]_vars => DeletesAfterSplit'
  BY DEF IInv, TypeOK, DeletesAfterSplit, Next, vars, copyVars, listVars, Receiving,
         Splitter, SplitReceive, SendToCopy, SendToKeep, SplitCloses, Splits,
         Copier, TakeJob, CopyEnds,
         Keeper, ListTag, ListFails, LoadEnds, KeepTag, KeepEnds, DeleteEnds, Enters,
         SendDelete, DeleteTag
<1>3. IInv /\ DeletesAfterSplit => Ended \/ SomeoneCanGo
  <2>1. SUFFICES ASSUME IInv, DeletesAfterSplit, ~SomeoneCanGo PROVE Ended
    OBVIOUS
  <2> USE <2>1 DEF SomeoneCanGo
  <2>2. split.pc # "first"
    <3>1. toCopy = <<>> /\ ~(split.pc = "first" /\ HasRoom(toCopy))
      OBVIOUS
    <3>2. HasRoom(<<>>)
      BY HousekeepingAssumption DEF HasRoom
    <3> QED BY <3>1, <3>2
  <2>3. split.pc = "second" => toKeep # <<>> /\ stage # "keep"
    <3>1. HasRoom(<<>>)
      BY HousekeepingAssumption DEF HasRoom
    <3> QED BY <3>1
  <2>4. split.pc = "closed"
    BY <2>2, <2>3 DEF IInv, TypeOK, DeletesAfterSplit
  <2>5. stage = "closed"
    BY <2>4, HousekeepingAssumption DEF IInv, TypeOK
  <2> QED BY <2>4, <2>5 DEF Ended
<1> QED BY <1>1, <1>2, <1>3, HousekeepingInvariant, PTL DEF Spec

Busy == {d \in Deleters : deleting[d] # NoTag}

SplitLeft ==
  CASE split.pc = "receive" -> 1 [] split.pc = "first" -> 6
    [] split.pc = "second" -> 3 [] split.pc = "closed" -> 0

StageLeft ==
  CASE stage = "load" -> 3 [] stage = "keep" -> 2 [] stage = "delete" -> 1 [] stage = "closed" -> 0

\* At least as many as the steps that are still to be taken: for the jobs,
\* and for the tags that housekeeping looks at.
JobsLeft ==
  6 * Cardinality(pending) + SplitLeft + 2 * Len(toCopy) + Cardinality(copying) + Len(toKeep)
TagsLeft ==
  3 * Cardinality(unlisted) + 2 * Cardinality(delTags) + Cardinality(Busy) + StageLeft
Left == JobsLeft + TagsLeft

StepsRunOut == [][/\ Left \in Nat /\ Left' \in Nat
                  /\ Left' < Left]_vars

LEMMA LeftSets ==
  ASSUME TypeOK
  PROVE  /\ IsFiniteSet(pending) /\ IsFiniteSet(copying) /\ IsFiniteSet(unlisted)
         /\ IsFiniteSet(delTags) /\ IsFiniteSet(Busy)
         /\ Cardinality(pending) \in Nat /\ Cardinality(copying) \in Nat
         /\ Cardinality(unlisted) \in Nat /\ Cardinality(delTags) \in Nat
         /\ Cardinality(Busy) \in Nat
         /\ Len(toCopy) \in Nat /\ Len(toKeep) \in Nat
         /\ SplitLeft \in Nat /\ StageLeft \in Nat
<1>1. pending \in SUBSET Tags /\ copying \in SUBSET Tags /\ unlisted \in SUBSET Tags
      /\ delTags \in SUBSET Tags /\ Busy \in SUBSET Deleters
  BY HousekeepingAssumption DEF TypeOK, Busy
<1>2. IsFiniteSet(pending) /\ IsFiniteSet(copying) /\ IsFiniteSet(unlisted)
      /\ IsFiniteSet(delTags) /\ IsFiniteSet(Busy)
  BY <1>1, FS_Subset, HousekeepingAssumption
<1>3. Len(toCopy) \in Nat /\ Len(toKeep) \in Nat
  BY LenProperties DEF TypeOK
<1>4. SplitLeft \in Nat /\ StageLeft \in Nat
  BY DEF TypeOK, SplitLeft, StageLeft
<1> QED BY <1>2, <1>3, <1>4, FS_CardinalityType

\* A set with another element.
LEMMA OneMore ==
  ASSUME NEW S, NEW x, IsFiniteSet(S)
  PROVE  Cardinality(S \cup {x}) \in Nat /\ Cardinality(S \cup {x}) <= Cardinality(S) + 1
<1>1. IsFiniteSet(S \cup {x}) /\ Cardinality(S) \in Nat
  BY FS_AddElement, FS_CardinalityType
<1>2. Cardinality(S \cup {x}) \in {Cardinality(S), Cardinality(S) + 1}
  BY FS_AddElement
<1> QED BY <1>1, <1>2

LEMMA Weighted ==
  ASSUME NEW a \in Nat, NEW b \in Nat, NEW c \in Nat, NEW d \in Nat, NEW e \in Nat
  PROVE  6 * a + b + 2 * c + d + e \in Nat /\ 3 * a + 2 * b + c + d \in Nat
  OBVIOUS

LEMMA SumLess ==
  ASSUME NEW a \in Nat, NEW b \in Nat, NEW c \in Nat, NEW d \in Nat,
         (c = a /\ d < b) \/ (c < a /\ d <= b)
  PROVE  a + b \in Nat /\ c + d \in Nat /\ c + d < a + b
  OBVIOUS

LEMMA LeftType == ASSUME TypeOK PROVE JobsLeft \in Nat /\ TagsLeft \in Nat /\ Left \in Nat
<1>1. JobsLeft \in Nat
  BY LeftSets, Weighted DEF JobsLeft
<1>2. TagsLeft \in Nat
  BY LeftSets, Weighted DEF TagsLeft
<1> QED BY <1>1, <1>2 DEF Left

LEMMA SplitterLeaves == TypeOK /\ TypeOK' /\ SplitShape /\ Splitter => JobsLeft' < JobsLeft
<1> SUFFICES ASSUME TypeOK, TypeOK', SplitShape, Splitter PROVE JobsLeft' < JobsLeft
  OBVIOUS
<1> DEFINE p == Cardinality(pending)  s == SplitLeft  c == Len(toCopy)
           d == Cardinality(copying)  k == Len(toKeep)
<1>1. p \in Nat /\ c \in Nat /\ d \in Nat /\ k \in Nat
  BY LeftSets
<1>2. d' = d
  BY DEF Splitter, SplitReceive, SendToCopy, SendToKeep, SplitCloses, Splits, copyVars
<1>3. \/ s = 1 /\ s' = 6 /\ p' = p - 1 /\ c' = c /\ k' = k
      \/ s = 6 /\ s' = 3 /\ p' = p /\ c' = c + 1 /\ k' = k
      \/ s = 3 /\ s' = 1 /\ p' = p /\ c' = c /\ k' = k + 1
      \/ s = 1 /\ s' = 0 /\ p' = p /\ c' = c /\ k' = k
  <2>1. CASE SplitReceive
    <3>1. PICK t \in pending : pending' = pending \ {t}
      BY <2>1 DEF SplitReceive
    <3>2. p' = p - 1
      BY <3>1, LeftSets, FS_RemoveElement
    <3>3. s = 1 /\ s' = 6 /\ UNCHANGED <<toCopy, toKeep>>
      BY <2>1 DEF SplitReceive, Splits, SplitLeft
    <3> QED BY <3>2, <3>3
  <2>2. CASE SendToCopy
    <3>1. split.pc = "first" /\ split'.pc = "second"
      BY <2>2 DEF SendToCopy, Splits, TypeOK
    <3>2. s = 6 /\ s' = 3 /\ UNCHANGED <<pending, toKeep>>
      BY <2>2, <3>1 DEF SendToCopy, SplitLeft
    <3>3. c' = c + 1
      BY <2>2, <3>1, AppendProperties DEF SendToCopy, TypeOK, SplitShape
    <3> QED BY <3>2, <3>3
  <2>3. CASE SendToKeep
    <3>1. split.pc = "second" /\ split'.pc = "receive"
      BY <2>3 DEF SendToKeep, Splits, Receiving
    <3>2. s = 3 /\ s' = 1 /\ UNCHANGED <<pending, toCopy>>
      BY <2>3, <3>1 DEF SendToKeep, SplitLeft
    <3>3. k' = k + 1
      BY <2>3, <3>1, AppendProperties DEF SendToKeep, TypeOK, SplitShape
    <3> QED BY <3>2, <3>3
  <2>4. CASE SplitCloses
    <3>1. split.pc = "receive" /\ split'.pc = "closed"
      BY <2>4 DEF SplitCloses, Splits, TypeOK
    <3>2. s = 1 /\ s' = 0 /\ UNCHANGED <<pending, toCopy, toKeep>>
      BY <2>4, <3>1 DEF SplitCloses, SplitLeft
    <3> QED BY <3>2
  <2> QED BY <2>1, <2>2, <2>3, <2>4 DEF Splitter
<1>4. JobsLeft = 6 * p + s + 2 * c + d + k /\ JobsLeft' = 6 * p' + s' + 2 * c' + d' + k'
  BY DEF JobsLeft
<1> HIDE DEF p, s, c, d, k
<1> QED BY <1>1, <1>2, <1>3, <1>4

LEMMA CopierLeaves == TypeOK /\ TypeOK' /\ Copier => JobsLeft' < JobsLeft
<1> SUFFICES ASSUME TypeOK, TypeOK', Copier PROVE JobsLeft' < JobsLeft
  OBVIOUS
<1> DEFINE p == Cardinality(pending)  s == SplitLeft  c == Len(toCopy)
           d == Cardinality(copying)  k == Len(toKeep)
<1>1. p \in Nat /\ s \in Nat /\ c \in Nat /\ d \in Nat /\ k \in Nat
  BY LeftSets
<1>2. p' = p /\ s' = s /\ k' = k
  BY DEF Copier, TakeJob, CopyEnds, SplitLeft
<1>3. \/ c' = c - 1 /\ d' \in Nat /\ d' <= d + 1
      \/ c' = c /\ d' = d - 1
  <2>1. CASE TakeJob
    <3>1. c' = c - 1
      BY <2>1, HeadTailProperties DEF TakeJob, TypeOK
    <3>2. d' \in Nat /\ d' <= d + 1
      BY <2>1, LeftSets, OneMore DEF TakeJob
    <3> QED BY <3>1, <3>2
  <2>2. ASSUME NEW t \in jobs, CopyEnds(t) PROVE c' = c /\ d' = d - 1
    <3>1. copying' = copying \ {t} /\ t \in copying /\ toCopy' = toCopy
      BY <2>2 DEF CopyEnds
    <3> QED BY <3>1, LeftSets, FS_RemoveElement
  <2> QED BY <2>1, <2>2 DEF Copier
<1>4. JobsLeft = 6 * p + s + 2 * c + d + k /\ JobsLeft' = 6 * p' + s' + 2 * c' + d' + k'
  BY DEF JobsLeft
<1> HIDE DEF p, s, c, d, k
<1> QED BY <1>1, <1>2, <1>3, <1>4

LEMMA KeeperLeaves ==
  TypeOK /\ TypeOK' /\ Keeper
  => \/ JobsLeft' = JobsLeft /\ TagsLeft' < TagsLeft
     \/ JobsLeft' < JobsLeft /\ TagsLeft' <= TagsLeft
<1> SUFFICES ASSUME TypeOK, TypeOK', Keeper
             PROVE  \/ JobsLeft' = JobsLeft /\ TagsLeft' < TagsLeft
                    \/ JobsLeft' < JobsLeft /\ TagsLeft' <= TagsLeft
  OBVIOUS
<1> DEFINE k == Len(toKeep)  u == Cardinality(unlisted)  d == Cardinality(delTags)
           b == Cardinality(Busy)  e == StageLeft
<1>1. k \in Nat /\ u \in Nat /\ d \in Nat /\ b \in Nat /\ e \in Nat
  BY LeftSets
<1>2. d' \in Nat /\ b' \in Nat
  <2>1. delTags' \in SUBSET Tags /\ Busy' \in SUBSET Deleters
    BY DEF TypeOK, Busy
  <2>2. IsFiniteSet(delTags') /\ IsFiniteSet(Busy')
    BY <2>1, HousekeepingAssumption, FS_Subset
  <2> QED BY <2>2, FS_CardinalityType
<1>3. \/ k' = k /\ u' = u - 1 /\ d' <= d + 1 /\ b' = b /\ e' = e
      \/ k' = k /\ u' = u /\ d' = d /\ b' = b /\ e' = e - 1
      \/ k' = k - 1 /\ u' = u /\ d' <= d /\ b' = b /\ e' = e
      \/ k' = k /\ u' = u /\ d' = d - 1 /\ b' <= b + 1 /\ e' = e
      \/ k' = k /\ u' = u /\ d' = d /\ b' = b - 1 /\ e' = e
  <2>1. ASSUME NEW t \in Tags, ListTag(t) \/ ListFails(t)
        PROVE  k' = k /\ u' = u - 1 /\ d' <= d + 1 /\ b' = b /\ e' = e
    <3>1. /\ unlisted' = unlisted \ {t} /\ t \in unlisted /\ toKeep' = toKeep
          /\ Busy' = Busy /\ e' = e
      BY <2>1 DEF ListTag, ListFails, Busy, StageLeft
    <3>2. u' = u - 1
      BY <3>1, LeftSets, FS_RemoveElement
    <3>3. delTags' = delTags \/ delTags' = delTags \cup {t}
      BY <2>1 DEF ListTag, ListFails
    <3>4. d' <= d + 1
      <4>1. CASE delTags' = delTags
        BY <1>1, <4>1
      <4>2. CASE delTags' = delTags \cup {t}
        BY <4>2, LeftSets, OneMore
      <4> QED BY <3>3, <4>1, <4>2
    <3> QED BY <3>1, <3>2, <3>4
  <2>2. CASE LoadEnds \/ KeepEnds \/ DeleteEnds
    <3>1. UNCHANGED <<unlisted, delTags, toKeep>> /\ Busy' = Busy
      BY <2>2 DEF LoadEnds, KeepEnds, DeleteEnds, Enters, Busy
    <3>2. e' = e - 1
      BY <2>2 DEF LoadEnds, KeepEnds, DeleteEnds, Enters, StageLeft
    <3> QED BY <3>1, <3>2
  <2>3. CASE KeepTag
    <3>1. UNCHANGED unlisted /\ Busy' = Busy /\ e' = e /\ delTags' = delTags \ {Head(toKeep)}
      BY <2>3 DEF KeepTag, Busy, StageLeft
    <3>2. k' = k - 1
      BY <2>3, HeadTailProperties DEF KeepTag, TypeOK
    <3>3. d' \in {d, d - 1}
      BY <3>1, LeftSets, FS_RemoveElement
    <3> QED BY <1>1, <3>1, <3>2, <3>3
  <2>4. ASSUME NEW w \in Deleters, SendDelete(w)
        PROVE  k' = k /\ u' = u /\ d' = d - 1 /\ b' <= b + 1 /\ e' = e
    <3>1. PICK t \in delTags : /\ deleting' = [deleting EXCEPT ![w] = t]
                               /\ delTags' = delTags \ {t}
      BY <2>4 DEF SendDelete
    <3>2. Busy' = Busy \cup {w} /\ UNCHANGED <<unlisted, toKeep>> /\ e' = e
      BY <2>4, <3>1, HousekeepingAssumption DEF SendDelete, Busy, StageLeft, TypeOK
    <3>3. d' = d - 1
      BY <3>1, LeftSets, FS_RemoveElement
    <3>4. Cardinality(Busy \cup {w}) <= b + 1
      BY LeftSets, OneMore
    <3> QED BY <3>2, <3>3, <3>4
  <2>5. ASSUME NEW w \in Deleters, DeleteTag(w)
        PROVE  k' = k /\ u' = u /\ d' = d /\ b' = b - 1 /\ e' = e
    <3>1. /\ Busy' = Busy \ {w} /\ w \in Busy
          /\ UNCHANGED <<unlisted, delTags, toKeep>> /\ e' = e
      BY <2>5 DEF DeleteTag, Busy, StageLeft, TypeOK
    <3>2. Cardinality(Busy \ {w}) = b - 1
      BY <3>1, LeftSets, FS_RemoveElement
    <3> QED BY <3>1, <3>2
  <2> QED BY <2>1, <2>2, <2>3, <2>4, <2>5 DEF Keeper
<1>4. TagsLeft = 3 * u + 2 * d + b + e /\ TagsLeft' = 3 * u' + 2 * d' + b' + e'
  BY DEF TagsLeft
<1>5. JobsLeft \in Nat /\ JobsLeft' = JobsLeft + (k' - k)
  <2> DEFINE j == 6 * Cardinality(pending) + SplitLeft + 2 * Len(toCopy) + Cardinality(copying)
  <2>1. j \in Nat
    BY LeftSets, Weighted
  <2>2. UNCHANGED <<pending, toCopy, copying>> /\ SplitLeft' = SplitLeft
    BY DEF Keeper, ListTag, ListFails, LoadEnds, KeepTag, KeepEnds, DeleteEnds, Enters,
           SendDelete, DeleteTag, copyVars, SplitLeft
  <2>3. j' = j
    BY <2>2
  <2>4. JobsLeft = j + k /\ JobsLeft' = j' + k'
    BY DEF JobsLeft
  <2>5. k' \in Nat
    BY LenProperties DEF TypeOK
  <2> HIDE DEF j, k
  <2> QED BY <1>1, <2>1, <2>3, <2>4, <2>5
<1> HIDE DEF k, u, d, b, e
<1> QED BY <1>1, <1>2, <1>3, <1>4, <1>5

\* Every step takes something from a natural number, so the stages take only
\* finitely many.  With NobodyWaitsForEver, they end when whoever can go does,
\* and with EndsConverged the destination is then as it should be: Converges,
\* for all tags, buffers and workers, but for the step from these three to
\* the liveness formula.
THEOREM StagesRunOut == Spec => StepsRunOut
<1>1. IInv /\ IInv' /\ [Next]_vars => [/\ Left \in Nat /\ Left' \in Nat
                                      /\ Left' < Left]_vars
  <2>1. SUFFICES ASSUME IInv, IInv', Next
                 PROVE  (Left \in Nat /\ Left' \in Nat /\ Left' < Left) \/ UNCHANGED vars
    OBVIOUS
  <2>2. JobsLeft \in Nat /\ TagsLeft \in Nat
    BY <2>1, LeftType DEF IInv
  <2>3. (TypeOK => JobsLeft \in Nat /\ TagsLeft \in Nat)'
    BY LeftType, PTL
  <2>4. JobsLeft' \in Nat /\ TagsLeft' \in Nat
    BY <2>1, <2>3 DEF IInv
  <2>7. Left = JobsLeft + TagsLeft /\ Left' = JobsLeft' + TagsLeft'
    BY DEF Left
  <2>5. CASE Splitter \/ Copier
    <3>1. JobsLeft' < JobsLeft
      BY <2>1, <2>5, SplitterLeaves, CopierLeaves DEF IInv
    <3>2. TagsLeft' = TagsLeft
      BY <2>5 DEF Splitter, SplitReceive, SendToCopy, SendToKeep, SplitCloses, Splits,
         Copier, TakeJob, CopyEnds, listVars, TagsLeft, Busy, StageLeft
    <3>3. TagsLeft' <= TagsLeft
      BY <2>2, <3>2
    <3> QED BY <2>2, <2>4, <2>7, <3>1, <3>3, SumLess
  <2>6. CASE Keeper
    <3>1. \/ JobsLeft' = JobsLeft /\ TagsLeft' < TagsLeft
          \/ JobsLeft' < JobsLeft /\ TagsLeft' <= TagsLeft
      BY <2>1, <2>6, KeeperLeaves DEF IInv
    <3> QED BY <2>2, <2>4, <2>7, <3>1, SumLess
  <2> QED BY <2>1, <2>5, <2>6 DEF Next
<1> QED BY <1>1, HousekeepingInvariant, PTL DEF Spec, StepsRunOut
=============================================================================
