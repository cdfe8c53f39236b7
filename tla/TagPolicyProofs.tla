-------------------------- MODULE TagPolicyProofs ---------------------------
(***************************************************************************)
(* Theorems about TagPolicy, for every list of entries and every policy:   *)
(* the two loops and the cut select what the policy says, the second loop  *)
(* never reads behind the list, and both end.                              *)
(***************************************************************************)
EXTENDS TagPolicy, FiniteSetTheorems, SequenceTheorems, TLAPS

\* Each entry is in the list once, and the list is sorted.
ListShape ==
  /\ IsInjective(tags)
  /\ stage = "collected" => ix = 0 /\ ftags = <<>> /\ blacklist = {}
  /\ stage # "collected" => Sorted(tags)

\* What is selected was passed in this loop or in the one before it.
NoneTwice ==
  /\ IsInjective(ftags)
  /\ stage = "recent" =>
       \A i \in 1..Len(ftags) :
         NameOf[ftags[i]] \in blacklist /\ \E k \in 1..ix : ftags[i] = tags[k]
  /\ stage = "fill" =>
       \A i \in 1..Len(ftags) :
         NameOf[ftags[i]] \in blacklist \/ \E k \in 1..ix : ftags[i] = tags[k]

Prefix ==
  /\ Len(ftags) <= Len(tags)
  /\ \A i \in 1..Len(ftags) : ftags[i] = tags[i]

\* The recent entries are a prefix of the sorted list.
RecentPart ==
  stage = "recent" =>
    /\ Prefix
    /\ Len(ftags) <= ix
    /\ \A i \in 1..Len(ftags) : Recent(tags[i])
    /\ \A i \in Len(ftags) + 1 .. ix : ~Recent(tags[i])
    /\ blacklist = {NameOf[tags[i]] : i \in 1..Len(ftags)}

\* All recent entries are selected, and older ones only up to minNum.
RecentFirst ==
  /\ Prefix
  /\ \A i \in Len(ftags) + 1 .. Len(tags) : ~Recent(tags[i])
  /\ (\E i \in 1..Len(ftags) : ~Recent(tags[i])) => Len(ftags) <= policy.min

\* The loop passes the recent entries and then selects every one it comes to.
FillPart ==
  stage = "fill" /\ OneTimeEach =>
    /\ RecentFirst
    /\ ix <= Len(ftags)
    /\ \A i \in ix + 1 .. Len(ftags) : Recent(tags[i])
    /\ \A i \in 1..Len(tags) : Recent(tags[i]) => NameOf[tags[i]] \in blacklist
    /\ \A i \in 1..Len(tags) :
         NameOf[tags[i]] \in blacklist =>
           \E k \in 1..Len(tags) : Recent(tags[k]) /\ NameOf[tags[k]] = NameOf[tags[i]]

CutPart == stage = "cut" /\ OneTimeEach => RecentFirst /\ ~Short

SelectedPart ==
  stage = "selected" /\ OneTimeEach =>
    /\ Prefix
    /\ Len(ftags) <= policy.max
    /\ Len(ftags) < policy.max => RecentFirst /\ ~Short
    /\ (\E i \in 1..Len(ftags) : ~Recent(tags[i])) => Len(ftags) <= policy.min

IInv ==
  /\ TypeOK /\ ListShape /\ NoneTwice
  /\ RecentPart /\ FillPart /\ CutPart /\ SelectedPart
  /\ NeverPanics

-----------------------------------------------------------------------------
(* Sequences *)

LEMMA OrderIsList ==
  ASSUME NEW S \in SUBSET Entries, NEW s \in Orders(S)
  PROVE  s \in Seq(Entries) /\ IsInjective(s)
<1>1. IsFiniteSet(S)
  BY TagPolicyAssumption, FS_Subset
<1>2. Cardinality(S) \in Nat
  BY <1>1, FS_CardinalityType
<1>3. s \in [1 .. Cardinality(S) -> S] /\ IsInjective(s)
  BY DEF Orders, Bijection, Injection
<1>4. QED
  BY <1>2, <1>3

LEMMA Appended ==
  ASSUME NEW s \in Seq(Entries), NEW x \in Entries
  PROVE  /\ Append(s, x) \in Seq(Entries)
         /\ Len(Append(s, x)) = Len(s) + 1
         /\ \A i \in 1..Len(s) : Append(s, x)[i] = s[i]
         /\ Append(s, x)[Len(s) + 1] = x
         /\ IsInjective(s) /\ (\A i \in 1..Len(s) : s[i] # x) => IsInjective(Append(s, x))
<1> DEFINE t == Append(s, x)
<1>1. /\ t \in Seq(Entries)
      /\ Len(t) = Len(s) + 1
      /\ \A i \in 1..Len(s) : t[i] = s[i]
      /\ t[Len(s) + 1] = x
  BY AppendProperties
<1>2. DOMAIN t = 1..(Len(s) + 1) /\ DOMAIN s = 1..Len(s) /\ Len(s) \in Nat
  BY <1>1, LenProperties
<1> HIDE DEF t
<1>3. ASSUME IsInjective(s), \A i \in 1..Len(s) : s[i] # x
      PROVE  IsInjective(t)
  BY <1>1, <1>2, <1>3 DEF IsInjective
<1>4. QED
  BY <1>1, <1>3 DEF t

LEMMA CutShort ==
  ASSUME NEW s \in Seq(Entries), NEW n \in Nat, Len(s) > n
  PROVE  /\ SubSeq(s, 1, n) \in Seq(Entries)
         /\ Len(SubSeq(s, 1, n)) = n
         /\ \A i \in 1..n : SubSeq(s, 1, n)[i] = s[i]
         /\ IsInjective(s) => IsInjective(SubSeq(s, 1, n))
<1> DEFINE t == SubSeq(s, 1, n)
<1>1. /\ t \in Seq(Entries)
      /\ Len(t) = n
      /\ \A i \in 1..n : t[i] = s[i]
  BY SubSeqProperties, LenProperties
<1>2. DOMAIN t = 1..n /\ DOMAIN s = 1..Len(s) /\ Len(s) \in Nat
  BY <1>1, LenProperties
<1> HIDE DEF t
<1>3. ASSUME IsInjective(s) PROVE IsInjective(t)
  BY <1>1, <1>2, <1>3 DEF IsInjective
<1>4. QED
  BY <1>1, <1>3 DEF t

-----------------------------------------------------------------------------
(* Initially *)

LEMMA InitEstablishesIInv == Init => IInv
<1> SUFFICES ASSUME Init PROVE IInv
  OBVIOUS
<1>1. tags \in Seq(Entries) /\ IsInjective(tags)
  BY OrderIsList DEF Init
<1>2. TypeOK
  BY <1>1, TagPolicyAssumption DEF Init, TypeOK
<1>3. ListShape /\ NoneTwice
  BY <1>1 DEF Init, ListShape, NoneTwice, IsInjective
<1>4. RecentPart /\ FillPart /\ CutPart /\ SelectedPart /\ NeverPanics
  BY DEF Init, RecentPart, FillPart, CutPart, SelectedPart, NeverPanics
<1>5. QED
  BY <1>2, <1>3, <1>4 DEF IInv

-----------------------------------------------------------------------------
(* Steps *)

LEMMA SortKeepsIInv == IInv /\ Sort => IInv'
<1> SUFFICES ASSUME IInv, Sort PROVE IInv'
  OBVIOUS
<1>1. Range(tags) \in SUBSET Entries
  BY DEF IInv, TypeOK, Range
<1>2. tags' \in Seq(Entries) /\ IsInjective(tags)'
  BY <1>1, OrderIsList DEF Sort
<1>3. ix = 0 /\ ftags = <<>> /\ blacklist = {}
  BY DEF Sort, IInv, ListShape
<1>4. TypeOK'
  BY <1>2, <1>3 DEF Sort, IInv, TypeOK
<1>5. Sorted(tags)'
  BY DEF Sort, Sorted
<1>6. ListShape' /\ NoneTwice'
  BY <1>2, <1>3, <1>5 DEF Sort, ListShape, NoneTwice, IsInjective
<1>7. RecentPart'
  BY <1>2, <1>3 DEF Sort, RecentPart, Prefix
<1>8. FillPart' /\ CutPart' /\ SelectedPart' /\ NeverPanics'
  BY DEF Sort, FillPart, CutPart, SelectedPart, NeverPanics
<1>9. QED
  BY <1>4, <1>6, <1>7, <1>8 DEF IInv

LEMMA TakeRecentKeepsIInv == IInv /\ TakeRecent => IInv'
<1> SUFFICES ASSUME IInv, TakeRecent PROVE IInv'
  OBVIOUS
<1> DEFINE x == tags[ix + 1]
<1>1. /\ stage = "recent" /\ stage' = "recent" /\ ix' = ix + 1 /\ ix < Len(tags)
      /\ UNCHANGED <<modified, policy, tags>>
  BY DEF TakeRecent, Selects, Skips
<1>2. x \in Entries /\ ix \in Nat /\ ix + 1 \in 1..Len(tags) /\ Len(ftags) \in Nat
  BY <1>1 DEF IInv, TypeOK
<1>3. /\ Prefix /\ Len(ftags) <= ix
      /\ \A i \in 1..Len(ftags) : Recent(tags[i])
      /\ \A i \in Len(ftags) + 1 .. ix : ~Recent(tags[i])
      /\ blacklist = {NameOf[tags[i]] : i \in 1..Len(ftags)}
  BY <1>1 DEF IInv, RecentPart
<1>4. ListShape'
  BY <1>1 DEF IInv, ListShape, Sorted
<1>5. FillPart' /\ CutPart' /\ SelectedPart' /\ NeverPanics'
  BY <1>1 DEF FillPart, CutPart, SelectedPart, NeverPanics
<1>6. CASE Recent(x) /\ Selects(x) /\ blacklist' = blacklist \cup {NameOf[x]}
  <2>1. Len(ftags) = ix
    <3>1. SUFFICES ASSUME Len(ftags) < ix PROVE FALSE
      BY <1>2, <1>3
    <3>2. ~Recent(tags[ix]) /\ ix \in 1..Len(tags)
      BY <1>1, <1>2, <1>3, <3>1
    <3>3. modified[tags[ix]] >= modified[x]
      <4>1. Sorted(tags) /\ DOMAIN tags = 1..Len(tags)
        BY <1>1 DEF IInv, ListShape, TypeOK
      <4>2. ix < ix + 1
        BY <1>2
      <4>3. QED
        BY <1>2, <3>2, <4>1, <4>2 DEF Sorted
    <3>4. modified[tags[ix]] \in Int /\ modified[x] \in Int
      <4>1. tags \in Seq(Entries) /\ modified \in [Entries -> Times]
        BY DEF IInv, TypeOK
      <4>2. tags[ix] \in Entries
        BY <3>2, <4>1
      <4>3. QED
        BY <1>2, <4>1, <4>2, TagPolicyAssumption
    <3>5. modified[x] > Threshold /\ ~(modified[tags[ix]] > Threshold)
      BY <1>6, <3>2 DEF Recent
    <3>6. QED
      BY <3>3, <3>4, <3>5, TagPolicyAssumption
  <2>2. \A i \in 1..Len(ftags) : ftags[i] # x
    BY <1>1, <1>2, <2>1, <1>3 DEF IInv, ListShape, IsInjective, TypeOK, Prefix
  <2>3. /\ ftags' \in Seq(Entries) /\ Len(ftags') = Len(ftags) + 1
        /\ \A i \in 1..Len(ftags) : ftags'[i] = ftags[i]
        /\ ftags'[Len(ftags) + 1] = x
        /\ IsInjective(ftags')
    BY <1>2, <1>6, <2>2, Appended DEF Selects, IInv, TypeOK, NoneTwice
  <2>4. TypeOK'
    BY <1>1, <1>2, <1>6, <2>3, TagPolicyAssumption DEF IInv, TypeOK
  <2>5. RecentPart'
    <3>1. Prefix' /\ Len(ftags') <= ix'
      BY <1>1, <1>2, <1>3, <2>1, <2>3 DEF Prefix
    <3>2. \A i \in 1..Len(ftags') : Recent(tags[i])
      BY <1>2, <1>3, <1>6, <2>1, <2>3
    <3>3. blacklist' = {NameOf[tags[i]] : i \in 1..Len(ftags')}
      BY <1>2, <1>3, <1>6, <2>1, <2>3
    <3>4. QED
      BY <1>1, <1>2, <2>1, <2>3, <3>1, <3>2, <3>3 DEF RecentPart, Recent
  <2>6. NoneTwice'
    <3>1. \A i \in 1..Len(ftags') : ftags'[i] = tags[i] /\ NameOf[tags[i]] \in blacklist'
      BY <1>1, <2>5 DEF RecentPart, Prefix
    <3>2. \A i \in 1..Len(ftags') : i \in 1..ix'
      BY <1>1, <1>2, <2>1, <2>3
    <3>3. QED
      BY <1>1, <2>3, <3>1, <3>2 DEF NoneTwice
  <2>7. QED
    BY <1>4, <1>5, <2>4, <2>5, <2>6 DEF IInv
<1>7. CASE ~Recent(x) /\ Skips /\ UNCHANGED blacklist
  <2>1. TypeOK'
    BY <1>1, <1>2, <1>7 DEF IInv, TypeOK, Skips
  <2>2. RecentPart'
    BY <1>1, <1>2, <1>3, <1>7 DEF RecentPart, Prefix, Recent, Skips
  <2>3. NoneTwice'
    BY <1>1, <1>2, <1>7 DEF IInv, NoneTwice, Skips
  <2>4. QED
    BY <1>4, <1>5, <2>1, <2>2, <2>3 DEF IInv
<1>8. QED
  BY <1>6, <1>7 DEF TakeRecent

LEMMA RecentEndsKeepsIInv == IInv /\ RecentEnds => IInv'
<1> SUFFICES ASSUME IInv, RecentEnds PROVE IInv'
  OBVIOUS
<1>1. /\ stage = "recent" /\ stage' = "fill" /\ ix = Len(tags) /\ ix' = 0
      /\ UNCHANGED <<modified, policy, tags, ftags, blacklist>>
  BY DEF RecentEnds, Enters
<1>2. TypeOK' /\ ListShape' /\ NoneTwice'
  BY <1>1 DEF IInv, TypeOK, ListShape, Sorted, NoneTwice
<1>3. RecentPart' /\ CutPart' /\ SelectedPart' /\ NeverPanics'
  BY <1>1 DEF RecentPart, CutPart, SelectedPart, NeverPanics
<1>4. FillPart'
  <2>1. Len(ftags) \in Nat /\ Len(tags) \in Nat
    BY DEF IInv, TypeOK
  <2>2. /\ Prefix
        /\ \A i \in 1..Len(ftags) : Recent(tags[i])
        /\ \A i \in Len(ftags) + 1 .. Len(tags) : ~Recent(tags[i])
        /\ blacklist = {NameOf[tags[i]] : i \in 1..Len(ftags)}
    BY <1>1 DEF IInv, RecentPart
  <2>3. RecentFirst'
    BY <1>1, <2>1, <2>2 DEF RecentFirst, Prefix, Recent
  <2>4. \A i \in 1..Len(tags) : Recent(tags[i]) => NameOf[tags[i]] \in blacklist
    BY <2>1, <2>2
  <2>5. \A i \in 1..Len(tags) :
          NameOf[tags[i]] \in blacklist =>
            \E k \in 1..Len(tags) : Recent(tags[k]) /\ NameOf[tags[k]] = NameOf[tags[i]]
    BY <2>1, <2>2 DEF Prefix
  <2>6. QED
    BY <1>1, <2>1, <2>2, <2>3, <2>4, <2>5 DEF FillPart, Recent
<1>5. QED
  BY <1>2, <1>3, <1>4 DEF IInv
LEMMA FillKeepsIInv == IInv /\ Fill => IInv'
<1> SUFFICES ASSUME IInv, Fill PROVE IInv'
  OBVIOUS
<1> DEFINE x == tags[ix + 1]
<1>1. /\ stage = "fill" /\ stage' = "fill" /\ ix' = ix + 1 /\ ix < Len(tags) /\ Short
      /\ UNCHANGED <<modified, policy, tags, blacklist>>
  BY DEF Fill, Selects, Skips, Advance
<1>2. x \in Entries /\ ix \in Nat /\ ix + 1 \in 1..Len(tags)
      /\ Len(ftags) \in Nat /\ Len(tags) \in Nat
  BY <1>1 DEF IInv, TypeOK
<1>3. ListShape'
  BY <1>1 DEF IInv, ListShape, Sorted
<1>4. RecentPart' /\ CutPart' /\ SelectedPart' /\ NeverPanics'
  BY <1>1 DEF RecentPart, CutPart, SelectedPart, NeverPanics
<1>5. CASE NameOf[x] \notin blacklist /\ Selects(x)
  <2>1. \A i \in 1..Len(ftags) : ftags[i] # x
    <3>1. SUFFICES ASSUME NEW i \in 1..Len(ftags), ftags[i] = x PROVE FALSE
      OBVIOUS
    <3>2. PICK k \in 1..ix : x = tags[k]
      BY <1>1, <1>5, <3>1 DEF IInv, NoneTwice
    <3>3. QED
      BY <1>2, <3>2 DEF IInv, ListShape, IsInjective, TypeOK
  <2>2. /\ ftags' \in Seq(Entries) /\ Len(ftags') = Len(ftags) + 1
        /\ \A i \in 1..Len(ftags) : ftags'[i] = ftags[i]
        /\ ftags'[Len(ftags) + 1] = x
        /\ IsInjective(ftags')
    BY <1>2, <1>5, <2>1, Appended DEF Selects, IInv, TypeOK, NoneTwice
  <2>3. TypeOK'
    BY <1>1, <1>2, <2>2 DEF IInv, TypeOK
  <2>4. NoneTwice'
    <3>1. ASSUME NEW i \in 1..Len(ftags')
          PROVE  NameOf[ftags'[i]] \in blacklist \/ \E k \in 1..ix' : ftags'[i] = tags[k]
      <4>1. CASE i = Len(ftags) + 1
        BY <1>1, <1>2, <2>2, <4>1
      <4>2. CASE i \in 1..Len(ftags)
        <5>1. NameOf[ftags[i]] \in blacklist \/ \E k \in 1..ix : ftags[i] = tags[k]
          BY <1>1, <4>2 DEF IInv, NoneTwice
        <5>2. 1..ix \subseteq 1..ix' /\ ftags'[i] = ftags[i]
          BY <1>1, <1>2, <2>2, <4>2
        <5>3. QED
          BY <5>1, <5>2
      <4>3. QED
        BY <1>2, <2>2, <4>1, <4>2
    <3>2. QED
      BY <1>1, <2>2, <3>1 DEF NoneTwice
  <2>5. FillPart'
    <3>1. SUFFICES ASSUME OneTimeEach PROVE FillPart'
      BY <1>1 DEF FillPart, OneTimeEach
    <3>2. /\ RecentFirst /\ ix <= Len(ftags)
          /\ \A i \in ix + 1 .. Len(ftags) : Recent(tags[i])
          /\ \A i \in 1..Len(tags) : Recent(tags[i]) => NameOf[tags[i]] \in blacklist
      BY <1>1, <3>1 DEF IInv, FillPart
    <3>3. ix = Len(ftags)
      BY <1>2, <1>5, <3>2
    <3>4. Prefix'
      BY <1>1, <1>2, <2>2, <3>2, <3>3 DEF RecentFirst, Prefix
    <3>5. Len(ftags') <= policy.min
      BY <1>1, <1>2, <2>2, TagPolicyAssumption DEF Short, IInv, TypeOK
    <3>6. RecentFirst'
      BY <1>1, <1>2, <2>2, <3>2, <3>4, <3>5 DEF RecentFirst, Recent
    <3>7. ix' <= Len(ftags') /\ ix' + 1 .. Len(ftags') = {}
      BY <1>1, <1>2, <2>2, <3>3
    <3>8. QED
      BY <1>1, <3>1, <3>6, <3>7 DEF IInv, FillPart, Recent
  <2>6. QED
    BY <1>3, <1>4, <2>3, <2>4, <2>5 DEF IInv
<1>6. CASE NameOf[x] \in blacklist /\ Skips
  <2>1. TypeOK'
    BY <1>1, <1>2, <1>6 DEF IInv, TypeOK, Skips
  <2>2. NoneTwice'
    <3>1. 1..ix \subseteq 1..ix'
      BY <1>1, <1>2
    <3>2. QED
      BY <1>1, <1>6, <3>1 DEF IInv, NoneTwice, Skips
  <2>3. FillPart'
    <3>1. SUFFICES ASSUME OneTimeEach PROVE FillPart'
      BY <1>1 DEF FillPart, OneTimeEach
    <3>2. /\ RecentFirst /\ ix <= Len(ftags)
          /\ \A i \in ix + 1 .. Len(ftags) : Recent(tags[i])
          /\ \A i \in 1..Len(tags) :
               NameOf[tags[i]] \in blacklist =>
                 \E k \in 1..Len(tags) : Recent(tags[k]) /\ NameOf[tags[k]] = NameOf[tags[i]]
      BY <1>1, <3>1 DEF IInv, FillPart
    <3>3. Recent(x)
      <4>1. PICK k \in 1..Len(tags) : Recent(tags[k]) /\ NameOf[tags[k]] = NameOf[x]
        BY <1>2, <1>6, <3>2
      <4>2. tags[k] \in Range(tags) /\ x \in Range(tags)
        BY <1>2 DEF Range, IInv, TypeOK
      <4>3. QED
        BY <3>1, <4>1, <4>2 DEF OneTimeEach, Recent
    <3>4. ix + 1 <= Len(ftags)
      BY <1>2, <3>2, <3>3 DEF RecentFirst
    <3>5. RecentFirst'
      BY <1>1, <1>6, <3>2 DEF RecentFirst, Prefix, Recent, Skips
    <3>6. QED
      BY <1>1, <1>2, <1>6, <3>1, <3>2, <3>4, <3>5 DEF IInv, FillPart, Recent, Skips
  <2>4. QED
    BY <1>3, <1>4, <2>1, <2>2, <2>3 DEF IInv
<1>7. QED
  BY <1>5, <1>6 DEF Fill

\* When minNum is not reached, there is an entry that is not selected, and the
\* loop has not passed it.
LEMMA FillPanicsKeepsIInv == IInv /\ FillPanics => IInv'
<1> SUFFICES ASSUME IInv, FillPanics PROVE IInv'
  OBVIOUS
<1>1. /\ stage = "fill" /\ stage' = "panicked" /\ ix = Len(tags) /\ ix' = 0 /\ Short
      /\ UNCHANGED <<modified, policy, tags, ftags, blacklist>>
  BY DEF FillPanics, Enters
<1>2. ~OneTimeEach
  BY <1>1 DEF IInv, FillPart, Short, TypeOK
<1>3. TypeOK' /\ ListShape' /\ NoneTwice' /\ NeverPanics'
  BY <1>1, <1>2 DEF IInv, TypeOK, ListShape, Sorted, NoneTwice, NeverPanics, OneTimeEach
<1>4. RecentPart' /\ FillPart' /\ CutPart' /\ SelectedPart'
  BY <1>1 DEF RecentPart, FillPart, CutPart, SelectedPart
<1>5. QED
  BY <1>3, <1>4 DEF IInv

LEMMA FillEndsKeepsIInv == IInv /\ FillEnds => IInv'
<1> SUFFICES ASSUME IInv, FillEnds PROVE IInv'
  OBVIOUS
<1>1. /\ stage = "fill" /\ stage' = "cut" /\ ix' = 0 /\ ~Short
      /\ UNCHANGED <<modified, policy, tags, ftags, blacklist>>
  BY DEF FillEnds, Enters
<1>2. TypeOK' /\ ListShape' /\ NoneTwice'
  BY <1>1 DEF IInv, TypeOK, ListShape, Sorted, NoneTwice
<1>3. CutPart'
  BY <1>1 DEF IInv, FillPart, CutPart, RecentFirst, Prefix, Recent, Short, OneTimeEach
<1>4. RecentPart' /\ FillPart' /\ SelectedPart' /\ NeverPanics'
  BY <1>1 DEF RecentPart, FillPart, SelectedPart, NeverPanics
<1>5. QED
  BY <1>2, <1>3, <1>4 DEF IInv

LEMMA CutKeepsIInv == IInv /\ Cut => IInv'
<1> SUFFICES ASSUME IInv, Cut PROVE IInv'
  OBVIOUS
<1>1. /\ stage = "cut" /\ stage' = "selected" /\ ix' = 0
      /\ UNCHANGED <<modified, policy, tags, blacklist>>
  BY DEF Cut, Enters
<1>2. policy.max \in Nat /\ policy.min \in Nat /\ Len(ftags) \in Nat
  BY TagPolicyAssumption DEF IInv, TypeOK
<1>3. /\ ftags' \in Seq(Entries) /\ IsInjective(ftags') /\ Len(ftags') \in Nat
      /\ \/ Len(ftags) > policy.max /\ Len(ftags') = policy.max
            /\ \A i \in 1..Len(ftags') : ftags'[i] = ftags[i]
         \/ Len(ftags) <= policy.max /\ ftags' = ftags
  <2>1. CASE Excess
    BY <1>2, <2>1, CutShort DEF Cut, Excess, IInv, TypeOK, NoneTwice
  <2>2. CASE ~Excess
    BY <1>2, <2>2 DEF Cut, Excess, IInv, TypeOK, NoneTwice
  <2>3. QED
    BY <2>1, <2>2
<1>4. TypeOK' /\ ListShape' /\ NoneTwice'
  BY <1>1, <1>3 DEF IInv, TypeOK, ListShape, Sorted, NoneTwice
<1>5. SelectedPart'
  <2>1. SUFFICES ASSUME OneTimeEach PROVE SelectedPart'
    BY <1>1 DEF SelectedPart, OneTimeEach
  <2>2. RecentFirst /\ ~Short
    BY <1>1, <2>1 DEF IInv, CutPart
  <2>3. CASE Len(ftags) <= policy.max /\ ftags' = ftags
    BY <1>1, <1>2, <2>2, <2>3 DEF SelectedPart, RecentFirst, Prefix, Recent, Short
  <2>4. CASE Len(ftags) > policy.max /\ Len(ftags') = policy.max
             /\ \A i \in 1..Len(ftags') : ftags'[i] = ftags[i]
    <3>1. Prefix' /\ Len(ftags') <= policy.max /\ ~(Len(ftags') < policy.max)
      BY <1>1, <1>2, <2>2, <2>4 DEF RecentFirst, Prefix
    <3>2. (\E i \in 1..Len(ftags') : ~Recent(tags[i])) => Len(ftags') <= policy.min
      BY <1>2, <2>2, <2>4 DEF RecentFirst
    <3>3. QED
      BY <1>1, <3>1, <3>2 DEF SelectedPart, Recent
  <2>5. QED
    BY <1>3, <2>3, <2>4
<1>6. RecentPart' /\ FillPart' /\ CutPart' /\ NeverPanics'
  BY <1>1 DEF RecentPart, FillPart, CutPart, NeverPanics
<1>7. QED
  BY <1>4, <1>5, <1>6 DEF IInv

LEMMA NextKeepsIInv == IInv /\ [Next]_vars => IInv'
<1>1. ASSUME IInv, UNCHANGED vars PROVE IInv'
  <2>1. TypeOK' /\ ListShape' /\ NoneTwice' /\ NeverPanics'
    BY <1>1 DEF vars, IInv, TypeOK, ListShape, Sorted, NoneTwice, NeverPanics, OneTimeEach
  <2>2. RecentPart'
    BY <1>1 DEF vars, IInv, RecentPart, Prefix, Recent
  <2>3. FillPart' /\ CutPart'
    BY <1>1 DEF vars, IInv, FillPart, CutPart, RecentFirst, Prefix, Recent, Short, OneTimeEach
  <2>4. SelectedPart'
    BY <1>1 DEF vars, IInv, SelectedPart, RecentFirst, Prefix, Recent, Short, OneTimeEach
  <2>5. QED
    BY <2>1, <2>2, <2>3, <2>4 DEF IInv
<1>2. QED
  BY <1>1, SortKeepsIInv, TakeRecentKeepsIInv, RecentEndsKeepsIInv, FillKeepsIInv,
     FillPanicsKeepsIInv, FillEndsKeepsIInv, CutKeepsIInv DEF Next

-----------------------------------------------------------------------------
(* The theorems *)

\* The inductive invariant holds in every reachable state.
THEOREM TagPolicyInvariant == Spec => []IInv
<1>1. Init => IInv
  BY InitEstablishesIInv
<1>2. IInv /\ [Next]_vars => IInv'
  BY NextKeepsIInv
<1>3. QED
  BY <1>1, <1>2, PTL DEF Spec

\* Every variable keeps its type; no index leaves the list.
THEOREM TagPolicyTypeCorrect == Spec => []TypeOK
<1>1. IInv => TypeOK
  BY DEF IInv
<1>2. QED
  BY <1>1, TagPolicyInvariant, PTL

\* The loop that fills up never reads behind the list (run.go:213), if no tag
\* was pushed again between two listings.
THEOREM FillStaysInList == Spec => []NeverPanics
<1>1. IInv => NeverPanics
  BY DEF IInv
<1>2. QED
  BY <1>1, TagPolicyInvariant, PTL

\* No entry is selected twice, or passed over for an older one.
THEOREM YoungestAreKept == Spec => []KeepsYoungest
<1>1. ASSUME IInv PROVE KeepsYoungest
  <2>1. IsInjective(ftags)
    BY <1>1 DEF IInv, NoneTwice
  <2>2. ASSUME stage = "selected", OneTimeEach,
               NEW x \in Chosen, NEW y \in Range(tags) \ Chosen
        PROVE  modified[x] >= modified[y]
    <3>1. PICK i \in 1..Len(ftags) : x = ftags[i]
      BY <1>1 DEF Chosen, Range, IInv, TypeOK
    <3>2. PICK k \in 1..Len(tags) : y = tags[k]
      BY <1>1 DEF Range, IInv, TypeOK
    <3>3. Prefix /\ Len(ftags) \in Nat /\ Len(tags) \in Nat
      BY <1>1, <2>2 DEF IInv, SelectedPart, TypeOK
    <3>4. ~(k <= Len(ftags))
      <4>1. SUFFICES ASSUME k <= Len(ftags) PROVE y \in Chosen
        OBVIOUS
      <4>2. k \in DOMAIN ftags /\ ftags[k] = y
        BY <1>1, <3>2, <3>3, <4>1 DEF Prefix, IInv, TypeOK
      <4>3. QED
        BY <4>2 DEF Chosen, Range
    <3>5. x = tags[i] /\ i < k /\ i \in DOMAIN tags /\ k \in DOMAIN tags
      BY <1>1, <3>1, <3>2, <3>3, <3>4 DEF Prefix, IInv, TypeOK
    <3>6. Sorted(tags)
      BY <1>1, <2>2 DEF IInv, ListShape
    <3>7. QED
      BY <3>2, <3>5, <3>6 DEF Sorted
  <2>3. QED
    BY <2>1, <2>2 DEF KeepsYoungest
<1>2. QED
  BY <1>1, TagPolicyInvariant, PTL

\* The selection is what maxAge, minNum and maxNum say together.
THEOREM PolicyIsHeld == Spec => []PolicyHeld
<1>1. ASSUME IInv PROVE PolicyHeld
  <2>1. SUFFICES ASSUME stage = "selected", OneTimeEach PROVE PolicyHeld
    BY DEF PolicyHeld
  <2>2. /\ Prefix
        /\ Len(ftags) <= policy.max
        /\ Len(ftags) < policy.max => RecentFirst /\ ~Short
        /\ (\E i \in 1..Len(ftags) : ~Recent(tags[i])) => Len(ftags) <= policy.min
    BY <1>1, <2>1 DEF IInv, SelectedPart
  <2>3. /\ Len(ftags) \in Nat /\ Len(tags) \in Nat /\ policy.min \in Nat
        /\ DOMAIN ftags = 1..Len(ftags) /\ DOMAIN tags = 1..Len(tags)
    BY <1>1, TagPolicyAssumption DEF IInv, TypeOK
  <2>4. Chosen = {tags[i] : i \in 1..Len(ftags)}
    BY <2>2, <2>3 DEF Chosen, Range, Prefix
  <2>5. (\E x \in Chosen : ~Recent(x)) => Len(ftags) <= policy.min
    BY <2>2, <2>4
  <2>6. ASSUME Len(ftags) < policy.max
        PROVE  \/ Chosen = Range(tags)
               \/ /\ Len(ftags) >= policy.min
                  /\ \A x \in Range(tags) : Recent(x) => x \in Chosen
    <3>1. CASE Len(ftags) = Len(tags)
      BY <2>3, <2>4, <3>1 DEF Range
    <3>2. CASE Len(ftags) # Len(tags)
      <4>1. Len(ftags) >= policy.min
        <5>1. ~(Len(ftags) < policy.min /\ Len(tags) > Len(ftags)) /\ Len(ftags) <= Len(tags)
          BY <2>2, <2>6 DEF Short, Prefix
        <5>2. Len(ftags) \in Nat /\ Len(tags) \in Nat /\ policy.min \in Nat
          BY <2>3
        <5>3. Len(tags) > Len(ftags)
          BY <3>2, <5>1, <5>2
        <5>4. QED
          BY <5>1, <5>2, <5>3
      <4>2. \A i \in 1..Len(tags) : Recent(tags[i]) => i \in 1..Len(ftags)
        BY <2>2, <2>3, <2>6 DEF RecentFirst
      <4>3. ASSUME NEW y \in Range(tags), Recent(y) PROVE y \in Chosen
        <5>1. PICK i \in 1..Len(tags) : y = tags[i]
          BY <2>3 DEF Range
        <5>2. QED
          BY <2>4, <4>2, <4>3, <5>1
      <4>4. QED
        BY <4>1, <4>3
    <3>3. QED
      BY <3>1, <3>2
  <2>7. QED
    BY <2>1, <2>2, <2>5, <2>6 DEF PolicyHeld
<1>2. QED
  BY <1>1, TagPolicyInvariant, PTL

-----------------------------------------------------------------------------
(* That the loops end *)

\* Entries that the loops have not come to, and loops not entered.
StepsLeft ==
  CASE stage = "collected" -> 2 * Len(tags) + 4
    [] stage = "recent" -> 2 * Len(tags) - ix + 3
    [] stage = "fill" -> Len(tags) - ix + 2
    [] stage = "cut" -> 1
    [] OTHER -> 0

Less == StepsLeft' < StepsLeft /\ StepsLeft \in Nat /\ StepsLeft' \in Nat

StepsRunOut == [][Less]_vars

LEMMA StepsLeftOf ==
  /\ stage = "collected" => StepsLeft = 2 * Len(tags) + 4
  /\ stage = "recent" => StepsLeft = 2 * Len(tags) - ix + 3
  /\ stage = "fill" => StepsLeft = Len(tags) - ix + 2
  /\ stage = "cut" => StepsLeft = 1
  /\ stage \in {"selected", "panicked"} => StepsLeft = 0
BY DEF StepsLeft

\* Another order has as many entries.
LEMMA SameLength ==
  ASSUME NEW s \in Seq(Entries), IsInjective(s), NEW t \in Orders(Range(s))
  PROVE  Len(t) = Len(s)
<1>1. Range(s) \in SUBSET Entries /\ IsFiniteSet(Range(s))
  BY TagPolicyAssumption, FS_Subset, LenProperties DEF Range
<1>2. s \in Bijection(1 .. Len(s), Range(s))
  <2>1. DOMAIN s = 1 .. Len(s) /\ s \in [1 .. Len(s) -> Entries]
    BY LenProperties
  <2>2. s \in [1 .. Len(s) -> Range(s)] /\ \A x \in Range(s) : \E i \in 1 .. Len(s) : s[i] = x
    BY <2>1 DEF Range
  <2> QED BY <2>2 DEF Bijection, Injection, Surjection
<1>3. Len(s) \in Nat /\ IsFiniteSet(1 .. Len(s)) /\ Cardinality(1 .. Len(s)) = Len(s)
  <2>1. \A n \in Nat : IsFiniteSet(1 .. n) /\ Cardinality(1 .. n) = n
    <3> TAKE n \in Nat
    <3>1. 1 \in Int /\ n \in Int /\ (1 > n => n = 0) /\ n - 1 + 1 = n
      OBVIOUS
    <3>2. IsFiniteSet(1 .. n) /\ Cardinality(1 .. n) = IF 1 > n THEN 0 ELSE n - 1 + 1
      BY <3>1, FS_Interval
    <3> QED BY <3>1, <3>2
  <2> QED BY <2>1, LenProperties
<1>4. Cardinality(Range(s)) = Len(s)
  <2>1. ExistsBijection(1 .. Len(s), Range(s))
    BY <1>2 DEF ExistsBijection
  <2>2. Cardinality(Range(s)) = Cardinality(1 .. Len(s))
    BY <1>3, <2>1, FS_Bijection
  <2> QED BY <1>3, <2>2
<1>5. t \in [1 .. Len(s) -> Range(s)]
  BY <1>4 DEF Orders, Bijection, Injection
<1> QED BY <1>3, <1>5

\* Every step passes an entry or leaves a loop.  The one that fills up goes on
\* at an entry that it does not select; without that ix++ it would not end.
THEOREM LoopsRunOut == Spec => StepsRunOut
<1>1. IInv /\ IInv' /\ [Next]_vars => [Less]_vars
  <2> DEFINE L == Len(tags)
  <2> SUFFICES ASSUME IInv, IInv', Next PROVE Less \/ UNCHANGED vars
    OBVIOUS
  <2>1. L \in Nat /\ ix \in 0 .. L /\ tags \in Seq(Entries) /\ IsInjective(tags)
    BY LenProperties DEF IInv, TypeOK, ListShape
  <2>2. /\ stage' = "recent" => StepsLeft' = 2 * Len(tags') - ix' + 3
        /\ stage' = "fill" => StepsLeft' = Len(tags') - ix' + 2
        /\ stage' = "cut" => StepsLeft' = 1
        /\ stage' \in {"selected", "panicked"} => StepsLeft' = 0
    BY DEF StepsLeft
  <2>3. \A n \in Nat : \A k \in 0 .. n :
          /\ 2 * n - k + 3 \in Nat /\ n - k + 2 \in Nat /\ 2 * n + 4 \in Nat
          /\ n - k + 2 > 1 /\ 2 * n - n + 3 > n - 0 + 2 /\ 2 * n - 0 + 3 < 2 * n + 4
          /\ k < n => /\ k + 1 \in 0 .. n
                      /\ 2 * n - (k + 1) + 3 < 2 * n - k + 3
                      /\ n - (k + 1) + 2 < n - k + 2
    OBVIOUS
  <2>4. CASE Sort
    <3>1. stage = "collected" /\ stage' = "recent" /\ ix' = ix /\ Len(tags') = L
      BY <2>1, <2>4, SameLength DEF Sort
    <3>2. ix = 0
      BY <3>1 DEF IInv, ListShape
    <3>3. StepsLeft = 2 * L + 4 /\ StepsLeft' = 2 * L - 0 + 3
      BY <2>2, <3>1, <3>2, StepsLeftOf
    <3> QED BY <2>1, <2>3, <3>3 DEF Less
  <2>5. CASE TakeRecent
    <3>1. stage = "recent" /\ stage' = "recent" /\ ix < L /\ ix' = ix + 1 /\ tags' = tags
      BY <2>5 DEF TakeRecent, Selects, Skips
    <3>2. StepsLeft = 2 * L - ix + 3 /\ StepsLeft' = 2 * L - (ix + 1) + 3
      BY <2>2, <3>1, StepsLeftOf
    <3> QED BY <2>1, <2>3, <3>1, <3>2 DEF Less
  <2>6. CASE RecentEnds
    <3>1. stage = "recent" /\ stage' = "fill" /\ ix = L /\ ix' = 0 /\ tags' = tags
      BY <2>6 DEF RecentEnds, Enters
    <3>2. StepsLeft = 2 * L - L + 3 /\ StepsLeft' = L - 0 + 2
      BY <2>2, <3>1, StepsLeftOf
    <3> QED BY <2>1, <2>3, <3>2 DEF Less
  <2>7. CASE Fill
    <3>1. stage = "fill" /\ stage' = "fill" /\ ix < L /\ ix' = ix + 1 /\ tags' = tags
      BY <2>7 DEF Fill, Advance, Selects, Skips
    <3>2. StepsLeft = L - ix + 2 /\ StepsLeft' = L - (ix + 1) + 2
      BY <2>2, <3>1, StepsLeftOf
    <3> QED BY <2>1, <2>3, <3>1, <3>2 DEF Less
  <2>8. CASE FillPanics \/ FillEnds
    <3>1. stage = "fill" /\ stage' \in {"panicked", "cut"}
      BY <2>8 DEF FillPanics, FillEnds, Enters
    <3>2. StepsLeft = L - ix + 2 /\ StepsLeft' \in {0, 1}
      BY <2>2, <3>1, StepsLeftOf
    <3> QED BY <2>1, <2>3, <3>2 DEF Less
  <2>9. CASE Cut
    <3>1. StepsLeft = 1 /\ StepsLeft' = 0
      BY <2>2, <2>9, StepsLeftOf DEF Cut, Enters
    <3> QED BY <3>1 DEF Less
  <2> QED BY <2>4, <2>5, <2>6, <2>7, <2>8, <2>9 DEF Next
<1> QED BY <1>1, TagPolicyInvariant, PTL DEF Spec, StepsRunOut
=============================================================================
