----------------------------- MODULE TagPolicy ------------------------------
(***************************************************************************)
(* The tag policy (run.go, Runner.filter), for one image: sort the entries *)
(* by age, take the recent ones, fill up to minNum, cut at maxNum.  Two    *)
(* entries may have one name: a tag of Docker Hub has one for each         *)
(* platform (dockerhub.go:136), and an image that two workers have listed  *)
(* has two entries for each tag, whose times differ if it was pushed again *)
(* in between.                                                             *)
(***************************************************************************)
EXTENDS Integers, Sequences, FiniteSets, Functions

CONSTANTS
  Entries,  \* TagDetails
  Names,    \* what String returns
  NameOf,
  Times,    \* values of LastModified
  Threshold, \* now less maxAge
  Policies  \* pairs of minNum and maxNum

ASSUME TagPolicyAssumption ==
  /\ IsFiniteSet(Entries)
  /\ NameOf \in [Entries -> Names]
  /\ Times \subseteq Int /\ Threshold \in Int
  /\ Policies \subseteq [min : Nat, max : Nat]

VARIABLES
  modified,  \* LastModified of each entry
  policy,
  stage,     \* the loop that filter is in
  tags,
  ix,        \* the index that loop has come to
  ftags, blacklist

vars == <<modified, policy, stage, tags, ix, ftags, blacklist>>

TypeOK ==
  /\ modified \in [Entries -> Times] /\ policy \in Policies
  /\ stage \in {"collected", "recent", "fill", "cut", "selected", "panicked"}
  /\ tags \in Seq(Entries) /\ ix \in 0 .. Len(tags)
  /\ ftags \in Seq(Entries)
  /\ blacklist \subseteq Names

Orders(S) == Bijection(1 .. Cardinality(S), S)

\* The entries of the image have arrived in any order.
Init ==
  /\ modified \in [Entries -> Times]
  /\ policy \in Policies
  /\ stage = "collected"
  /\ \E S \in (SUBSET Entries) \ {{}} : tags \in Orders(S)
  /\ ix = 0
  /\ ftags = <<>> /\ blacklist = {}

-----------------------------------------------------------------------------

\* Mutant of Sorted: oldest first.
SortedUp(s) == \A i, k \in DOMAIN s : i < k => modified[s[i]] <= modified[s[k]]

Sorted(s) == \A i, k \in DOMAIN s : i < k => modified[s[i]] >= modified[s[k]]

\* sort.Slice is not stable.
Sort ==
  /\ stage = "collected" /\ stage' = "recent"
  /\ tags' \in {s \in Orders(Range(tags)) : Sorted(s)}
  /\ UNCHANGED <<modified, policy, ix, ftags, blacklist>>

Recent(x) == modified[x] > Threshold

Selects(x) ==
  /\ ftags' = Append(ftags, x)
  /\ UNCHANGED <<modified, policy, stage, tags>>

Skips == UNCHANGED <<modified, policy, stage, tags, ftags>>

Enters(from, to) ==
  /\ stage = from /\ stage' = to
  /\ ix' = 0
  /\ UNCHANGED <<modified, policy, tags, blacklist>>

TakeRecent ==
  /\ stage = "recent" /\ ix < Len(tags)
  /\ ix' = ix + 1
  /\ LET x == tags[ix + 1] IN
       \/ Recent(x) /\ Selects(x) /\ blacklist' = blacklist \cup {NameOf[x]}
       \/ ~Recent(x) /\ Skips /\ UNCHANGED blacklist

RecentEnds == ix = Len(tags) /\ Enters("recent", "fill") /\ UNCHANGED ftags

\* Mutant of Short: that the tags run out is not checked.
ShortOfMinNum == Len(ftags) < policy.min

Short == Len(ftags) < policy.min /\ Len(tags) > Len(ftags)

\* Mutant of Advance: only an entry that is selected is passed.
AdvanceWhenSelected(selected) == ix' = IF selected THEN ix + 1 ELSE ix

\* Mutant of Advance: one ix++ too many.
AdvanceTwice(selected) == ix' = IF selected THEN ix + 2 ELSE ix + 1

\* ix++, whether the entry is selected or not.
Advance(selected) == ix' = ix + 1

Fill ==
  /\ stage = "fill" /\ Short /\ ix < Len(tags)
  /\ LET x == tags[ix + 1] IN
       \/ NameOf[x] \notin blacklist /\ Selects(x) /\ Advance(TRUE)
       \/ NameOf[x] \in blacklist /\ Skips /\ Advance(FALSE)
  /\ UNCHANGED blacklist

\* tags[ix] is out of range.
FillPanics == Short /\ ix = Len(tags) /\ Enters("fill", "panicked") /\ UNCHANGED ftags

FillEnds == ~Short /\ Enters("fill", "cut") /\ UNCHANGED ftags

\* Mutant of Excess: one too many.
ExcessByOne == Len(ftags) > policy.max + 1

Excess == Len(ftags) > policy.max

\* ftags is cut, and sent.
Cut ==
  /\ Enters("cut", "selected")
  /\ ftags' = IF Excess THEN SubSeq(ftags, 1, policy.max) ELSE ftags

Next ==
  \/ Sort \/ TakeRecent \/ RecentEnds
  \/ Fill \/ FillPanics \/ FillEnds \/ Cut
  \/ stage \in {"selected", "panicked"} /\ UNCHANGED vars

\* The goroutine runs.
Spec == Init /\ [][Next]_vars /\ WF_vars(Next)

-----------------------------------------------------------------------------
(* Properties *)

Chosen == Range(ftags)

\* No tag was pushed again between two listings.
OneTimeEach == \A x, y \in Range(tags) : NameOf[x] = NameOf[y] => modified[x] = modified[y]

\* Recent entries and the fill-up never select an entry twice, and no entry is
\* passed over for an older one.
KeepsYoungest ==
  /\ IsInjective(ftags)
  /\ stage = "selected" /\ OneTimeEach =>
       \A x \in Chosen, y \in Range(tags) \ Chosen : modified[x] >= modified[y]

\* The selection is what maxAge, minNum and maxNum say together: recent
\* entries, as few older ones as minNum needs, and of both at most maxNum.
PolicyHeld ==
  stage = "selected" /\ OneTimeEach =>
    /\ Len(ftags) <= policy.max
    /\ Len(ftags) < policy.max =>
         \/ Chosen = Range(tags)
         \/ /\ Len(ftags) >= policy.min
            /\ \A x \in Range(tags) : Recent(x) => x \in Chosen
    /\ (\E x \in Chosen : ~Recent(x)) => Len(ftags) <= policy.min

\* The blacklist is by name and the length by entry, yet the loop that fills
\* up does not read behind the last entry.
NeverPanics == OneTimeEach => stage # "panicked"

\* Every loop ends, the one that fills up too, which skips what is selected.
Finishes == <>(stage \in {"selected", "panicked"})
=============================================================================
