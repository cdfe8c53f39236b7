---------------------- MODULE ResolveRefinementProofs -----------------------
(***************************************************************************)
(* ResolvePipeline implements ResolvePromise: a ledger of who has to       *)
(* answer for each tag of each source.                                     *)
(***************************************************************************)
EXTENDS ResolvePipelineProofs

\* What a goroutine has in hand, and the tags of a source that hang on it.
InHand(local) ==
  IF local.pc = "send" THEN local.rest
  ELSE IF local.pc \in AtWork THEN {local.item} ELSE {}

AllBehind(S) == UNION {TagsBehind(x) : x \in S}

Load(local) == {local.source} \X AllBehind(InHand(local))

\* The tags of the sources that have been sent.
Due == {w \in Wanted : w[1] <= prepared}

\* Each is out, or missing, or hangs on exactly one goroutine.
Ledger ==
  /\ \A g \in Goroutines : Load(at[g]) \subseteq Due \ (out \cup missing)
  /\ \A g, h \in Goroutines : g # h => Load(at[g]) \cap Load(at[h]) = {}
  /\ out \cup missing \subseteq Due /\ out \cap missing = {}
  /\ \A w \in Due : w \in out \cup missing \/ \E g \in Goroutines : w \in Load(at[g])

\* The end comes down the chains.
Ends1(c) == Done(<<"details", c>>) => Done(<<"tags", c>>)
Ends2(c) == Done(<<"tags", c>>) => Done(<<"dirs", c>>)
Ends3(c) == Done(<<"dirs", c>>) => prepared = Len(SourceDirs)

Order == (\A c \in Chains : Ends1(c) /\ Ends2(c) /\ Ends3(c)) /\ (closed => AllForwarded)

LedgerInv == ShapeInv /\ Ledger /\ Order

-----------------------------------------------------------------------------
(* What hangs on a goroutine *)

LEMMA BehindImage ==
  ASSUME NEW i \in Images
  PROVE  TagsBehind(i) = TagsOf[i]
BY ResolveAssumption DEF TagsBehind

LEMMA BehindObject ==
  ASSUME NEW o \in Objects
  PROVE  TagsBehind(o) = {o[2]}
BY ResolveAssumption DEF TagsBehind

LEMMA BehindList ==
  ASSUME NEW n \in Nat \ {0}, NEW x \in Dirs \cup Images
  PROVE  AllBehind(ListOf(n, x)) = TagsBehind(x)
<1>1. CASE x \in Dirs
  <2>1. ListOf(n, x) = ImagesIn[x] /\ ImagesIn[x] \subseteq Images
    BY <1>1, ResolveAssumption DEF ListOf
  <2>2. \A i \in ImagesIn[x] : TagsBehind(i) = TagsOf[i]
    BY <2>1, BehindImage
  <2>3. x \notin Images /\ x \notin Objects
    BY <1>1, ResolveAssumption
  <2>4. TagsBehind(x) = UNION {TagsOf[i] : i \in ImagesIn[x]}
    <3> DEFINE all == UNION {TagsOf[i] : i \in ImagesIn[x]}
    <3>1. TagsBehind(x) = CASE x \in Dirs -> all [] x \in Images -> TagsOf[x] [] x \in Objects -> {x[2]}
      BY Zenon DEF TagsBehind
    <3> HIDE DEF all
    <3>2. TagsBehind(x) = all
      BY <1>1, <2>3, <3>1
    <3> QED BY <3>2 DEF all
  <2>5. AllBehind(ListOf(n, x)) = UNION {TagsOf[i] : i \in ImagesIn[x]}
    <3>1. {TagsBehind(i) : i \in ImagesIn[x]} = {TagsOf[i] : i \in ImagesIn[x]}
      BY <2>2
    <3> QED BY <2>1, <3>1 DEF AllBehind
  <2> QED BY <2>4, <2>5
<1>2. CASE x \in Images
  <2>1. ListOf(n, x) = {n} \X TagsOf[x] /\ ListOf(n, x) \subseteq Objects
    <3>1. ListOf(n, x) = ObjectsOf(n, x) /\ ObjectsOf(n, x) \subseteq Objects
      BY <1>2, ListOfImage
    <3> QED BY <3>1 DEF ObjectsOf
  <2>2. \A o \in ListOf(n, x) : TagsBehind(o) = {o[2]}
    BY <2>1, BehindObject
  <2>3. AllBehind(ListOf(n, x)) = UNION {{o[2]} : o \in ListOf(n, x)}
    BY <2>2 DEF AllBehind
  <2>4. UNION {{o[2]} : o \in {n} \X TagsOf[x]} = TagsOf[x]
    <3>1. \A t \in TagsOf[x] : <<n, t>> \in {n} \X TagsOf[x] /\ <<n, t>>[2] = t
      OBVIOUS
    <3>2. \A o \in {n} \X TagsOf[x] : o[2] \in TagsOf[x]
      OBVIOUS
    <3>3. \A t : t \in UNION {{o[2]} : o \in {n} \X TagsOf[x]} <=> \E o \in {n} \X TagsOf[x] : t = o[2]
      OBVIOUS
    <3>4. \A t : (\E o \in {n} \X TagsOf[x] : t = o[2]) <=> t \in TagsOf[x]
      BY <3>1, <3>2
    <3> QED BY <3>3, <3>4, Zenon
  <2> QED BY <1>2, <2>1, <2>3, <2>4, BehindImage
<1> QED BY <1>1, <1>2

LEMMA LoadOfPlace ==
  ASSUME NEW local, NEW r, local.pc \in AtWork, r.pc \in AtWork,
         r.source = local.source, r.item = local.item
  PROVE  Load(r) = Load(local)
BY DEF Load, InHand, AtWork

LEMMA LoadOfList ==
  ASSUME NEW local, NEW list, local.pc \in AtWork, AllBehind(list) = TagsBehind(local.item)
  PROVE  Load(WithList(local, list)) = Load(local)
<1>1. Load(local) = {local.source} \X TagsBehind(local.item)
  BY DEF Load, InHand, AtWork, AllBehind
<1>2. CASE list = {}
  <2>1. Load(Idle) = {}
    BY DEF Load, InHand, Idle, AtWork, AllBehind
  <2>2. TagsBehind(local.item) = {}
    BY <1>2 DEF AllBehind
  <2> QED BY <1>1, <1>2, <2>1, <2>2 DEF WithList
<1>3. CASE list # {}
  <2> DEFINE r == WithList(local, list)
  <2>1. r.pc = "send" /\ r.source = local.source /\ r.rest = list
    BY <1>3 DEF WithList, Idle
  <2> HIDE DEF r
  <2>2. Load(r) = {local.source} \X AllBehind(list)
    BY <2>1 DEF Load, InHand
  <2> QED BY <1>1, <2>2 DEF r
<1> QED BY <1>2, <1>3

LEMMA LoadOfStored ==
  ASSUME NEW stage, NEW n, NEW k, NEW known, NEW local, Shaped(stage, local, n, k, known),
         local.pc = "set", NEW left, NEW looked
  PROVE  Load(Stored(local, left, looked)) = Load(local)
<1>1. stage = "tags" /\ local \in Locals /\ local.item \in Images
  BY DEF Shaped, AtWork, Inputs
<1>2. PICK m \in Nat \ {0} : local.rest = ObjectsOf(m, local.item)
  BY DEF Shaped
<1>3. AllBehind(local.rest) = TagsBehind(local.item)
  BY <1>1, <1>2, ListOfImage, BehindList
<1>4. CASE left \cup looked = {}
  BY <1>3, <1>4, LoadOfList DEF Stored, AtWork
<1>5. CASE left \cup looked # {}
  <2> DEFINE r == [local EXCEPT !.unset = left, !.turn = looked]
  <2>1. r.pc = "set" /\ r.source = local.source /\ r.item = local.item
    BY <1>1 DEF Locals
  <2> HIDE DEF r
  <2>2. Load(r) = Load(local)
    BY <2>1, LoadOfPlace DEF AtWork
  <2> QED BY <1>5, <2>2 DEF Stored, r
<1> QED BY <1>4, <1>5

-----------------------------------------------------------------------------
(* The kinds of steps *)

Others(g) == \A h \in Goroutines : h # g => at'[h] = at[h]

Books == <<prepared, out, missing, closed>>

\* g goes on with what hangs on it,
Works(g) ==
  /\ at[g].pc \in AtWork /\ at'[g].pc # "done" /\ Load(at'[g]) = Load(at[g])
  /\ Others(g) /\ UNCHANGED Books

\* or gives it up.
GivesUp(g) ==
  /\ ~crashed /\ at[g].pc \in AtWork /\ at'[g] = Idle /\ Others(g)
  /\ missing' = missing \cup Load(at[g]) /\ UNCHANGED <<prepared, out, closed>>

LEMMA PlaceWorks ==
  ASSUME ShapeInv, NEW g \in Goroutines, NEW local, at' = [at EXCEPT ![g] = local],
         at[g].pc \in AtWork, local.pc \in AtWork,
         local.source = at[g].source, local.item = at[g].item, UNCHANGED Books
  PROVE  Works(g)
<1>1. at \in [Goroutines -> Locals]
  BY DEF ShapeInv, TypeOK
<1>2. Load(local) = Load(at[g])
  BY LoadOfPlace
<1>3. local.pc # "done"
  BY DEF AtWork
<1> QED BY <1>1, <1>2, <1>3 DEF Works, Others

LEMMA ListWorks ==
  ASSUME ShapeInv, NEW g \in Goroutines, NEW list, at' = [at EXCEPT ![g] = WithList(at[g], list)],
         at[g].pc \in AtWork, AllBehind(list) = TagsBehind(at[g].item), UNCHANGED Books
  PROVE  Works(g)
<1>1. at \in [Goroutines -> Locals]
  BY DEF ShapeInv, TypeOK
<1> DEFINE local == WithList(at[g], list)
<1>2. Load(local) = Load(at[g])
  BY LoadOfList
<1>3. local.pc # "done"
  BY <1>1, PlacesAfter
<1> HIDE DEF local
<1>4. at' = [at EXCEPT ![g] = local]
  BY DEF local
<1> QED BY <1>1, <1>2, <1>3, <1>4 DEF Works, Others

LEMMA StoredWorks ==
  ASSUME ShapeInv, NEW g \in Goroutines, NEW left, NEW looked,
         at' = [at EXCEPT ![g] = Stored(at[g], left, looked)],
         at[g].pc = "set", UNCHANGED Books
  PROVE  Works(g)
<1>1. at \in [Goroutines -> Locals]
  BY DEF ShapeInv, TypeOK
<1> DEFINE local == Stored(at[g], left, looked)
<1>2. Load(local) = Load(at[g])
  BY LocalShape, LoadOfStored
<1>3. local.pc # "done"
  BY <1>1, PlacesAfter
<1> HIDE DEF local
<1>4. at' = [at EXCEPT ![g] = local]
  BY DEF local
<1> QED BY <1>1, <1>2, <1>3, <1>4 DEF Works, Others, AtWork

LEMMA CallBooks ==
  ASSUME NEW g, NEW from, NEW local, Calls(g, from, local)
  PROVE  at' = [at EXCEPT ![g] = local] /\ at[g].pc = from /\ UNCHANGED Books
BY DEF Calls, In, Goes, historyVars, Books

LEMMA LookupWorks ==
  ASSUME ShapeInv, NEW g \in Goroutines, LookupFinds(g) \/ LookupMisses(g) \/ Insert(g)
  PROVE  Works(g)
<1>1. at[g] \in Locals
  BY LocalTypes
<1>2. ASSUME NEW from \in AtWork, NEW pc \in AtWork, NEW client,
             Calls(g, from, [at[g] EXCEPT !.pc = pc, !.client = client])
      PROVE  Works(g)
  <2> DEFINE local == [at[g] EXCEPT !.pc = pc, !.client = client]
  <2>1. local.pc = pc /\ local.source = at[g].source /\ local.item = at[g].item
    BY <1>1 DEF Locals
  <2> HIDE DEF local
  <2>2. Calls(g, from, local)
    BY <1>2 DEF local
  <2> QED BY <2>1, <2>2, CallBooks, PlaceWorks
<1>3. {"lookup", "insert", "get"} \subseteq AtWork
  BY DEF AtWork
<1>4. CASE LookupFinds(g)
  BY <1>2, <1>3, <1>4 DEF LookupFinds
<1>5. CASE LookupMisses(g)
  BY <1>2, <1>3, <1>5 DEF LookupMisses
<1>6. CASE Insert(g)
  <2> DEFINE local == [at[g] EXCEPT !.pc = "get"]
  <2>1. Calls(g, "insert", local) /\ local = [at[g] EXCEPT !.pc = "get", !.client = at[g].client]
    BY <1>1, <1>6 DEF Insert, Locals
  <2> QED BY <1>2, <1>3, <2>1
<1> QED BY <1>4, <1>5, <1>6

LEMMA QueryWorks ==
  ASSUME ShapeInv, NEW g \in Goroutines, ListMissed(g) \/ DetailsMissed(g)
  PROVE  Works(g)
<1> DEFINE local == [at[g] EXCEPT !.pc = "query"]
<1>1. Calls(g, "get", local)
  BY DEF ListMissed, DetailsMissed
<1>2. local.pc = "query" /\ local.source = at[g].source /\ local.item = at[g].item
  BY LocalTypes DEF Locals
<1> HIDE DEF local
<1>3. "get" \in AtWork /\ "query" \in AtWork
  BY DEF AtWork
<1> QED BY <1>1, <1>2, <1>3, CallBooks, PlaceWorks

LEMMA ListsWork ==
  ASSUME ShapeInv, NEW g \in Listers,
         \/ ListHit(g) \/ ListMissed(g) \/ ListAnswered(g)
         \/ \E o \in at[g].unset : LookAt(g, o)
         \/ \E o \in at[g].turn : Replace(g, o)
  PROVE  Works(g)
<1> DEFINE x == at[g].item
<1>1. g \in Goroutines /\ at[g] \in Locals /\ CacheTypeOK
  BY ListerStage, LocalTypes
<1>2. at[g].pc \in {"get", "query"} =>
        x \in Dirs \cup Images /\ at[g].client \in 1 .. Len(caches) /\ at[g].pc \in AtWork
  BY <1>1, WorkShape, ListerStage DEF AtWork, Inputs
<1>3. CASE ListHit(g)
  <2> DEFINE list == ListOf(Listed(g), x)
  <2>1. Calls(g, "get", WithList(at[g], list)) /\ Listed(g) # 0 /\ at[g].pc = "get"
    BY <1>3 DEF ListHit, Calls, In
  <2>2. Listed(g) \in Nat \ {0}
    BY <1>1, <1>2, <2>1, CacheAt DEF Listed
  <2>3. AllBehind(list) = TagsBehind(x)
    BY <1>2, <2>1, <2>2, BehindList
  <2> HIDE DEF list
  <2> QED BY <1>1, <1>2, <2>1, <2>3, CallBooks, ListWorks
<1>4. CASE ListAnswered(g)
  <2> DEFINE n == listings + 1
             list == ListOf(n, x)
             local == IF x \in Dirs \/ list = {} THEN WithList(at[g], list)
                      ELSE [at[g] EXCEPT !.pc = "set", !.rest = list, !.unset = list]
  <2>1. Calls(g, "query", local) /\ at[g].pc = "query"
    BY <1>4 DEF ListAnswered, Calls, In
  <2>2. n \in Nat \ {0}
    BY <1>1 DEF CacheTypeOK
  <2>3. AllBehind(list) = TagsBehind(x)
    BY <1>2, <2>1, <2>2, BehindList
  <2>4. CASE x \in Dirs \/ list = {}
    <3>1. local = WithList(at[g], list)
      BY <2>4
    <3> HIDE DEF list, local
    <3> QED BY <1>1, <1>2, <2>1, <2>3, <3>1, CallBooks, ListWorks
  <2>5. CASE ~(x \in Dirs \/ list = {})
    <3>1. local = [at[g] EXCEPT !.pc = "set", !.rest = list, !.unset = list]
      BY <2>5
    <3> HIDE DEF list
    <3>2. local.pc = "set" /\ local.source = at[g].source /\ local.item = at[g].item
      BY <1>1, <3>1 DEF Locals
    <3> HIDE DEF local
    <3>3. "set" \in AtWork
      BY DEF AtWork
    <3> QED BY <1>1, <1>2, <2>1, <3>2, <3>3, CallBooks, PlaceWorks
  <2> QED BY <2>4, <2>5
<1>5. ASSUME NEW o \in at[g].unset, LookAt(g, o)
      PROVE  Works(g)
  <2> DEFINE left == at[g].unset \ {o}
             looked == IF Richer(at[g].client, o) THEN {} ELSE {o}
  <2>1. Calls(g, "set", Stored(at[g], left, looked))
    BY <1>5 DEF LookAt
  <2> HIDE DEF left, looked
  <2> QED BY <1>1, <2>1, CallBooks, StoredWorks
<1>6. ASSUME NEW o \in at[g].turn, Replace(g, o)
      PROVE  Works(g)
  <2>1. at' = [at EXCEPT ![g] = Stored(at[g], at[g].unset, {})] /\ at[g].pc = "set" /\ UNCHANGED Books
    BY <1>6 DEF Replace, In, Goes, Books, historyVars
  <2> QED BY <1>1, <2>1, StoredWorks
<1> QED BY <1>1, <1>3, <1>4, <1>5, <1>6, QueryWorks

LEMMA DetailsWork ==
  ASSUME ShapeInv, NEW g \in Detailers,
         \/ DetailsKnown(g) \/ DetailsHit(g) \/ DetailsMissed(g)
         \/ DetailsAnswered(g) \/ StoreDetails(g)
  PROVE  Works(g)
<1>1. g \in Goroutines /\ at[g] \in Locals /\ CacheTypeOK /\ g[1] = "details"
  BY DetailerStage, LocalTypes
<1>2. at[g].pc \in {"get", "query", "fill"} =>
        at[g].item \in Objects /\ at[g].client \in 1 .. Len(caches) /\ at[g].pc \in AtWork
  BY <1>1, WorkShape DEF AtWork, Inputs
<1>3. ASSUME NEW o \in Objects, at[g].pc \in {"get", "fill"}, o[2] = at[g].item[2],
             at' = [at EXCEPT ![g] = WithList(at[g], {o})], UNCHANGED Books
      PROVE  Works(g)
  <2>1. TagsBehind(o) = {o[2]} /\ TagsBehind(at[g].item) = {o[2]}
    BY <1>2, <1>3, BehindObject
  <2>2. AllBehind({o}) = TagsBehind(at[g].item)
    BY <2>1 DEF AllBehind
  <2> QED BY <1>1, <1>2, <1>3, <2>2, ListWorks
<1>4. CASE DetailsKnown(g)
  BY <1>2, <1>3, <1>4, CallBooks DEF DetailsKnown, GetsDetails
<1>5. CASE DetailsHit(g)
  <2> DEFINE o == Cached(at[g].client, at[g].item)
  <2>1. Calls(g, "get", WithList(at[g], {o})) /\ o \in digests
    BY <1>5 DEF DetailsHit, GetsDetails, Hit, Rich
  <2>2. o \in Objects
    BY <1>1, <2>1 DEF CacheTypeOK
  <2>3. o[2] = at[g].item[2]
    BY DEF Cached
  <2> HIDE DEF o
  <2> QED BY <1>3, <2>1, <2>2, <2>3, CallBooks
<1>6. CASE DetailsAnswered(g)
  <2> DEFINE local == [at[g] EXCEPT !.pc = "fill"]
  <2>1. at' = [at EXCEPT ![g] = local] /\ at[g].pc = "query" /\ UNCHANGED Books
    BY <1>6 DEF DetailsAnswered, In, Goes, Books, historyVars
  <2>2. local.pc = "fill" /\ local.source = at[g].source /\ local.item = at[g].item
    BY <1>1 DEF Locals
  <2> HIDE DEF local
  <2> QED BY <1>1, <2>1, <2>2, PlaceWorks DEF AtWork
<1>7. CASE StoreDetails(g)
  <2>1. /\ at' = [at EXCEPT ![g] = WithList(at[g], {at[g].item})] /\ at[g].pc = "fill"
        /\ UNCHANGED Books
    BY <1>7 DEF StoreDetails, In, Goes, Books, historyVars
  <2> QED BY <1>2, <1>3, <2>1
<1> QED BY <1>1, <1>4, <1>5, <1>6, <1>7, QueryWorks

LEMMA LosesGivesUp ==
  ASSUME ShapeInv, NEW g \in Goroutines, NEW from \in AtWork, Loses(g, from, Idle)
  PROVE  GivesUp(g)
<1>1. at \in [Goroutines -> Locals]
  BY DEF ShapeInv, TypeOK
<1>2. /\ at' = [at EXCEPT ![g] = Idle] /\ at[g].pc \in AtWork /\ UNCHANGED <<prepared, out, closed>>
      /\ missing' = missing \cup ({at[g].source} \X TagsBehind(at[g].item)) /\ ~crashed
  BY DEF Loses, In, Goes
<1>3. Load(at[g]) = {at[g].source} \X TagsBehind(at[g].item)
  BY <1>2 DEF Load, InHand, AtWork, AllBehind
<1> QED BY <1>1, <1>2, <1>3 DEF GivesUp, Others

Quiet == UNCHANGED <<at, Books>>

LEMMA NextKinds ==
  ASSUME ShapeInv, [Next]_vars
  PROVE  \/ \E g \in Goroutines : Works(g) \/ GivesUp(g) \/ Leave(g)
         \/ \E c \in Chains : Prepare(c) \/ \E x : SendImage(c, x) \/ SendTag(c, x) \/ SendDetails(c, x)
         \/ Close \/ Quiet
<1>1. CASE Channel
  BY <1>1 DEF Channel
<1>2. CASE Lookup
  <2>1. ASSUME NEW g \in Goroutines, MapRace(g)
        PROVE  Quiet
    BY <2>1 DEF MapRace, Quiet, Books, historyVars
  <2> QED BY <1>2, <2>1, LookupWorks DEF Lookup
<1>3. CASE Resolve
  <2>1. ASSUME NEW g \in Goroutines, Expire(g)
        PROVE  Quiet
    BY <2>1 DEF Expire, Quiet, Books, historyVars
  <2>2. ASSUME NEW c \in Chains, Rejected(c)
        PROVE  \E g \in Goroutines : GivesUp(g)
    <3>1. <<"dirs", c>> \in Goroutines /\ {"lookup", "get"} \subseteq AtWork
      BY DEF Goroutines, Stages, AtWork
    <3> QED BY <2>2, <3>1, LosesGivesUp DEF Rejected
  <2>3. ASSUME NEW g \in Listers \cup Detailers, Fails(g)
        PROVE  g \in Goroutines /\ GivesUp(g)
    <3>1. g \in Goroutines /\ "query" \in AtWork
      BY ListerStage, DetailerStage DEF AtWork
    <3> QED BY <2>3, <3>1, LosesGivesUp DEF Fails
  <2>4. Listers \subseteq Goroutines /\ Detailers \subseteq Goroutines
    BY ListerStage, DetailerStage
  <2> QED BY <1>3, <2>1, <2>2, <2>3, <2>4, ListsWork, DetailsWork DEF Resolve
<1>4. CASE Halted \/ UNCHANGED vars
  BY <1>4 DEF Halted, vars, historyVars, Quiet, Books
<1> QED BY <1>1, <1>2, <1>3, <1>4 DEF Next

-----------------------------------------------------------------------------
(* The ledger *)

\* What hangs on one goroutine is settled in part.
LEMMA LedgerMoves ==
  ASSUME Ledger, NEW g \in Goroutines, Others(g), UNCHANGED prepared,
         Load(at'[g]) \subseteq Load(at[g]),
         out' \cup missing' = out \cup missing \cup (Load(at[g]) \ Load(at'[g])),
         out' \cap missing' = {}
  PROVE  Ledger'
<1>1. Due' = Due
  BY DEF Due
<1>2. \A h \in Goroutines : Load(at'[h]) \subseteq Load(at[h])
  BY DEF Others
<1>3. \A h \in Goroutines : h # g => Load(at'[h]) = Load(at[h])
  BY DEF Others
<1>4. \A h \in Goroutines : Load(at'[h]) \subseteq Due \ (out' \cup missing')
  <2> TAKE h \in Goroutines
  <2>1. Load(at[h]) \subseteq Due \ (out \cup missing)
    BY DEF Ledger
  <2>2. CASE h = g
    BY <1>2, <2>1, <2>2
  <2>3. CASE h # g
    <3>1. Load(at[h]) \cap Load(at[g]) = {}
      BY <2>3 DEF Ledger
    <3> QED BY <1>3, <2>1, <2>3, <3>1
  <2> QED BY <2>2, <2>3
<1>5. \A h, e \in Goroutines : h # e => Load(at'[h]) \cap Load(at'[e]) = {}
  BY <1>2 DEF Ledger
<1>6. out' \cup missing' \subseteq Due
  BY DEF Ledger
<1>7. ASSUME NEW w \in Due
      PROVE  w \in out' \cup missing' \/ \E h \in Goroutines : w \in Load(at'[h])
  <2>1. CASE w \in out \cup missing
    BY <2>1
  <2>2. ASSUME NEW h \in Goroutines, w \in Load(at[h])
        PROVE  w \in out' \cup missing' \/ \E e \in Goroutines : w \in Load(at'[e])
    <3>1. CASE h = g
      BY <2>2, <3>1
    <3>2. CASE h # g
      BY <1>3, <2>2, <3>2
    <3> QED BY <3>1, <3>2
  <2> QED BY <2>1, <2>2 DEF Ledger
<1> QED BY <1>1, <1>4, <1>5, <1>6, <1>7 DEF Ledger

LEMMA LoadOfNone ==
  ASSUME NEW local, local.pc \in {"receive", "done"}
  PROVE  Load(local) = {}
BY DEF Load, InHand, AtWork, AllBehind

\* Two objects of one list stand for different tags.
LEMMA Apart ==
  ASSUME NEW stage \in Stages, NEW n, NEW k, NEW known, NEW local, Shaped(stage, local, n, k, known),
         local.pc = "send", NEW x \in local.rest, NEW y \in local.rest, x # y
  PROVE  TagsBehind(x) \cap TagsBehind(y) = {}
<1>1. CASE stage = "dirs"
  <2>1. x \in Images /\ y \in Images
    BY <1>1 DEF Shaped, Outputs
  <2>2. TagsOf[x] \cap TagsOf[y] = {}
    BY <2>1, ResolveAssumption
  <2> QED BY <2>1, <2>2, BehindImage
<1>2. CASE stage # "dirs"
  <2>1. x \in Objects /\ y \in Objects /\ x[2] # y[2]
    BY <1>2 DEF Shaped, Outputs, OneEach
  <2>2. TagsBehind(x) = {x[2]} /\ TagsBehind(y) = {y[2]}
    BY <2>1, BehindObject
  <2> QED BY <2>1, <2>2
<1> QED BY <1>1, <1>2

\* A goroutine passes x on.
LEMMA LoadOfSent ==
  ASSUME NEW stage \in Stages, NEW n, NEW k, NEW known, NEW local, Shaped(stage, local, n, k, known),
         local.pc = "send", NEW x \in local.rest
  PROVE  /\ Load(local) = Load(Sent(local, x)) \cup ({local.source} \X TagsBehind(x))
         /\ Load(Sent(local, x)) \cap ({local.source} \X TagsBehind(x)) = {}
<1> DEFINE rest == local.rest \ {x}
<1>1. Load(local) = {local.source} \X AllBehind(local.rest)
  BY DEF Load, InHand
<1>2. Load(Sent(local, x)) = {local.source} \X AllBehind(rest)
  <2>1. CASE local.rest = {x}
    <3>1. Load(Idle) = {} /\ AllBehind(rest) = {}
      BY <2>1, LoadOfNone DEF Idle, AllBehind
    <3> QED BY <2>1, <3>1 DEF Sent
  <2>2. CASE local.rest # {x}
    <3> DEFINE r == [local EXCEPT !.rest = @ \ {x}]
    <3>1. r.pc = "send" /\ r.source = local.source /\ r.rest = rest
      BY DEF Shaped, Locals
    <3> HIDE DEF r, rest
    <3>2. Load(r) = {local.source} \X AllBehind(rest)
      BY <3>1 DEF Load, InHand
    <3> QED BY <2>2, <3>2 DEF Sent, r
  <2> QED BY <2>1, <2>2
<1>3. AllBehind(local.rest) = AllBehind(rest) \cup TagsBehind(x)
  BY DEF AllBehind
<1>4. \A y \in rest : TagsBehind(x) \cap TagsBehind(y) = {}
  BY Apart
<1>5. AllBehind(rest) \cap TagsBehind(x) = {}
  BY <1>4 DEF AllBehind
<1> HIDE DEF rest
<1> QED BY <1>1, <1>2, <1>3, <1>5

LEMMA WorksLedger ==
  ASSUME LedgerInv, NEW g \in Goroutines, Works(g)
  PROVE  Ledger'
<1>1. out' = out /\ missing' = missing /\ out \cap missing = {} /\ Ledger
  BY DEF Works, Books, LedgerInv, Ledger
<1> QED BY <1>1, LedgerMoves DEF Works, Books

LEMMA GivesUpLedger ==
  ASSUME LedgerInv, NEW g \in Goroutines, GivesUp(g)
  PROVE  Ledger'
<1>1. Load(at'[g]) = {}
  BY LoadOfNone DEF GivesUp, Idle
<1>2. Load(at[g]) \cap out = {} /\ out \cap missing = {} /\ Ledger
  BY DEF LedgerInv, Ledger
<1> QED BY <1>1, <1>2, LedgerMoves DEF GivesUp

LEMMA LeaveLedger ==
  ASSUME LedgerInv, NEW g \in Goroutines, Leave(g)
  PROVE  Ledger'
<1>1. at \in [Goroutines -> Locals]
  BY DEF LedgerInv, ShapeInv, TypeOK
<1>2. /\ at' = [at EXCEPT ![g] = [Idle EXCEPT !.pc = "done"]] /\ at[g].pc = "receive"
      /\ UNCHANGED <<prepared, out, missing>>
  BY DEF Leave, In, Goes, historyVars
<1>3. at'[g].pc = "done" /\ Others(g)
  BY <1>1, <1>2 DEF Idle, Others
<1>4. Load(at[g]) = {} /\ Load(at'[g]) = {}
  <2>1. Load(at[g]) = {}
    BY <1>2, LoadOfNone
  <2> DEFINE after == at'[g]
  <2>2. after.pc = "done"
    BY <1>3
  <2> HIDE DEF after
  <2>3. Load(after) = {}
    BY <2>2, LoadOfNone
  <2> QED BY <2>1, <2>3 DEF after
<1>5. out \cap missing = {} /\ Ledger
  BY DEF LedgerInv, Ledger
<1> QED BY <1>2, <1>3, <1>4, <1>5, LedgerMoves

LEMMA SendDetailsLedger ==
  ASSUME LedgerInv, NEW c \in Chains, NEW x, SendDetails(c, x)
  PROVE  /\ Ledger'
         /\ <<at[<<"details", c>>].source, x[2]>> \in Due \ (out \cup missing)
<1> DEFINE g == <<"details", c>>
           w == <<at[g].source, x[2]>>
<1>1. g \in Goroutines /\ g[1] = "details" /\ at \in [Goroutines -> Locals] /\ ShapeInv
  BY DEF Goroutines, Stages, LedgerInv, ShapeInv, TypeOK
<1>2. /\ at' = [at EXCEPT ![g] = Sent(at[g], x)] /\ at[g].pc = "send" /\ x \in at[g].rest
      /\ out' = out \cup {w} /\ UNCHANGED <<prepared, missing>>
  BY DEF SendDetails, In, Goes
<1>3. Shaped(g[1], at[g], Len(caches), regcache, digests) /\ g[1] \in Stages
  BY <1>1, LocalShape
<1>4. x \in Objects
  BY <1>1, <1>2, <1>3 DEF Shaped, Outputs
<1>5. {at[g].source} \X TagsBehind(x) = {w}
  BY <1>4, BehindObject
<1>6. at'[g] = Sent(at[g], x) /\ Others(g)
  BY <1>1, <1>2 DEF Others
<1> HIDE DEF g, w
<1>7. Load(at[g]) = Load(at'[g]) \cup {w} /\ Load(at'[g]) \cap {w} = {}
  BY <1>2, <1>3, <1>5, <1>6, LoadOfSent
<1>8. Load(at[g]) \subseteq Due \ (out \cup missing) /\ out \cap missing = {} /\ Ledger
  BY <1>1 DEF LedgerInv, Ledger
<1>9. Ledger'
  BY <1>1, <1>2, <1>6, <1>7, <1>8, LedgerMoves
<1> QED BY <1>7, <1>8, <1>9 DEF g, w

LEMMA SendLedger ==
  ASSUME LedgerInv, NEW g \in Goroutines, NEW h \in Goroutines, g # h, NEW x, Sends(g, x, h)
  PROVE  Ledger'
<1>1. at \in [Goroutines -> Locals] /\ ShapeInv /\ Ledger
  BY DEF LedgerInv, ShapeInv, TypeOK
<1>2. /\ at' = [at EXCEPT ![g] = Sent(@, x), ![h] = Received(at[g].source, x, "lookup")]
      /\ at[g].pc = "send" /\ x \in at[g].rest /\ at[h].pc = "receive"
      /\ UNCHANGED <<prepared, out, missing>>
  BY DEF Sends, In, historyVars
<1>3. Shaped(g[1], at[g], Len(caches), regcache, digests) /\ g[1] \in Stages
  BY <1>1, LocalShape
<1>4. /\ at'[g] = Sent(at[g], x) /\ at'[h] = Received(at[g].source, x, "lookup")
      /\ \A e \in Goroutines : e \notin {g, h} => at'[e] = at[e]
  BY <1>1, <1>2
<1>5. Load(at'[h]) = {at[g].source} \X TagsBehind(x)
  <2> DEFINE r == Received(at[g].source, x, "lookup")
  <2>1. r.pc = "lookup" /\ r.source = at[g].source /\ r.item = x
    BY DEF Received, Idle
  <2> HIDE DEF r
  <2>2. Load(r) = {at[g].source} \X TagsBehind(x)
    BY <2>1 DEF Load, InHand, AtWork, AllBehind
  <2> QED BY <1>4, <2>2 DEF r
<1>6. Load(at[g]) = Load(at'[g]) \cup Load(at'[h]) /\ Load(at'[g]) \cap Load(at'[h]) = {}
  BY <1>2, <1>3, <1>4, <1>5, LoadOfSent
<1>7. \A e \in Goroutines : e \notin {g, h} => Load(at'[e]) = Load(at[e])
  BY <1>4
<1>8. Due' = Due
  BY <1>2 DEF Due
<1>9. \A e \in Goroutines : Load(at'[e]) \subseteq Due \ (out \cup missing)
  BY <1>1, <1>6, <1>7 DEF Ledger
<1>10. \A e, f \in Goroutines : e # f => Load(at'[e]) \cap Load(at'[f]) = {}
  <2> TAKE e, f \in Goroutines
  <2> HAVE e # f
  <2>1. CASE e \in {g, h} /\ f \in {g, h}
    BY <1>6, <2>1
  <2>2. CASE e \in {g, h} /\ f \notin {g, h}
    <3>1. Load(at[g]) \cap Load(at[f]) = {}
      BY <1>1, <2>2 DEF Ledger
    <3> QED BY <1>6, <1>7, <2>2, <3>1
  <2>3. CASE e \notin {g, h} /\ f \in {g, h}
    <3>1. Load(at[g]) \cap Load(at[e]) = {}
      BY <1>1, <2>3 DEF Ledger
    <3> QED BY <1>6, <1>7, <2>3, <3>1
  <2>4. CASE e \notin {g, h} /\ f \notin {g, h}
    BY <1>1, <1>7, <2>4 DEF Ledger
  <2> QED BY <2>1, <2>2, <2>3, <2>4
<1>11. \A w \in Due : w \in out \cup missing \/ \E e \in Goroutines : w \in Load(at'[e])
  <2> TAKE w \in Due
  <2>1. ASSUME NEW e \in Goroutines, w \in Load(at[e])
        PROVE  \E f \in Goroutines : w \in Load(at'[f])
    <3>1. CASE e = g
      BY <1>6, <2>1, <3>1
    <3>2. CASE e = h
      BY <1>2, <2>1, <3>2, LoadOfNone
    <3>3. CASE e \notin {g, h}
      BY <1>7, <2>1, <3>3
    <3> QED BY <3>1, <3>2, <3>3
  <2> QED BY <1>1, <2>1 DEF Ledger
<1> QED BY <1>1, <1>2, <1>8, <1>9, <1>10, <1>11 DEF Ledger

LEMMA PrepareLedger ==
  ASSUME LedgerInv, NEW c \in Chains, Prepare(c)
  PROVE  Ledger'
<1> DEFINE g == <<"dirs", c>>
           s == prepared + 1
           d == SourceDirs[s]
           new == {s} \X TagsBehind(d)
<1>1. at \in [Goroutines -> Locals] /\ Ledger /\ g \in Goroutines /\ prepared \in Nat
  BY DEF LedgerInv, ShapeInv, TypeOK, Goroutines, Stages
<1>2. /\ at' = [at EXCEPT ![g] = Received(s, d, "lookup")] /\ at[g].pc = "receive"
      /\ prepared' = s /\ s \in Sources /\ UNCHANGED <<out, missing>>
  BY DEF Prepare, In, Goes, historyVars
<1>3. Load(at'[g]) = new
  <2> DEFINE r == Received(s, d, "lookup")
  <2>1. r.pc = "lookup" /\ r.source = s /\ r.item = d
    BY DEF Received, Idle
  <2>2. at'[g] = r
    BY <1>1, <1>2
  <2> HIDE DEF r
  <2> QED BY <2>1, <2>2 DEF Load, InHand, AtWork, AllBehind
<1>4. Load(at[g]) = {} /\ \A h \in Goroutines : h # g => Load(at'[h]) = Load(at[h])
  BY <1>1, <1>2, LoadOfNone
<1>5. Due' = Due \cup new /\ Due \cap new = {}
  <2>1. \A w \in Wanted : w \in Sources \X Tags /\ w[2] \in TagsBehind(SourceDirs[w[1]]) /\ w[1] \in Nat
    BY ResolveAssumption, LenProperties DEF Wanted, Sources
  <2>2. TagsBehind(d) \subseteq Tags
    <3>1. d \in Items
      BY <1>2, ResolveAssumption, ElementOfSeq DEF Sources, Items
    <3> QED BY <3>1, TagsBehindTypes
  <2>3. \A w \in new : w \in Wanted /\ w[1] = s
    BY <1>2, <2>2 DEF Wanted
  <2>4. \A w \in Wanted : w[1] = s => w \in new
    <3> TAKE w \in Wanted
    <3> HAVE w[1] = s
    <3>1. w = <<w[1], w[2]>> /\ w[2] \in TagsBehind(d)
      BY <2>1
    <3> QED BY <3>1
  <2>5. \A w \in Wanted : w[1] <= s <=> w[1] <= prepared \/ w[1] = s
    BY <1>1, <2>1
  <2>6. \A w \in Wanted : w[1] = s => ~(w[1] <= prepared)
    BY <1>1, <2>1
  <2>7. Due' = {w \in Wanted : w[1] <= s}
    BY <1>2 DEF Due
  <2> HIDE DEF new, s, d
  <2> QED BY <2>3, <2>4, <2>5, <2>6, <2>7 DEF Due
<1> HIDE DEF new, g
<1>6. \A h \in Goroutines : Load(at'[h]) \subseteq Due' \ (out \cup missing)
  BY <1>1, <1>3, <1>4, <1>5 DEF Ledger
<1>7. \A h, e \in Goroutines : h # e => Load(at'[h]) \cap Load(at'[e]) = {}
  <2>1. \A h \in Goroutines : h # g => Load(at'[h]) \subseteq Due
    BY <1>1, <1>4 DEF Ledger
  <2>2. \A h \in Goroutines : h # g => Load(at'[h]) \cap Load(at'[g]) = {}
    BY <1>3, <1>5, <2>1
  <2>3. \A h, e \in Goroutines : h # e /\ h # g /\ e # g => Load(at'[h]) \cap Load(at'[e]) = {}
    BY <1>1, <1>4 DEF Ledger
  <2> QED BY <2>2, <2>3
<1>8. \A w \in Due' : w \in out \cup missing \/ \E h \in Goroutines : w \in Load(at'[h])
  <2> TAKE w \in Due'
  <2>1. CASE w \in new
    BY <1>1, <1>3, <2>1
  <2>2. CASE w \in Due
    BY <1>1, <1>4, <2>2 DEF Ledger
  <2> QED BY <1>5, <2>1, <2>2
<1> QED BY <1>1, <1>2, <1>5, <1>6, <1>7, <1>8 DEF Ledger

LEMMA NextKeepsLedger ==
  ASSUME LedgerInv, [Next]_vars
  PROVE  Ledger'
<1>1. ShapeInv
  BY DEF LedgerInv
<1>2. ASSUME NEW c \in Chains, NEW x, SendImage(c, x) \/ SendTag(c, x)
      PROVE  Ledger'
  <2>1. <<"dirs", c>> \in Goroutines /\ <<"tags", c>> \in Goroutines /\ <<"details", c>> \in Goroutines
    BY DEF Goroutines, Stages
  <2>2. <<"dirs", c>> # <<"tags", c>> /\ <<"tags", c>> # <<"details", c>>
    OBVIOUS
  <2>3. CASE SendImage(c, x)
    BY <2>1, <2>2, <2>3, SendLedger DEF SendImage
  <2>4. CASE SendTag(c, x)
    BY <2>1, <2>2, <2>4, SendLedger DEF SendTag
  <2> QED BY <1>2, <2>3, <2>4
<1>3. CASE Close \/ Quiet
  <2>1. UNCHANGED <<prepared, at, out, missing>>
    BY <1>3 DEF Close, Quiet, Books
  <2> QED BY <2>1 DEF LedgerInv, Ledger, Due
<1> QED BY <1>1, <1>2, <1>3, NextKinds, WorksLedger, GivesUpLedger, LeaveLedger, PrepareLedger,
           SendDetailsLedger

-----------------------------------------------------------------------------
(* The order of the ends *)

\* Nobody is done that was not, nor the other way round.
LEMMA SameEnds ==
  ASSUME Order, UNCHANGED <<prepared, closed>>, \A h \in Goroutines : Done(h)' <=> Done(h)
  PROVE  Order'
<1>1. \A c \in Chains, stage \in Stages : <<stage, c>> \in Goroutines
  BY DEF Goroutines
<1> QED BY <1>1 DEF Order, Ends1, Ends2, Ends3, AllForwarded, Stages

LEMMA OneEnds ==
  ASSUME Order, UNCHANGED <<prepared, closed>>, NEW g \in Goroutines, Others(g), ~Done(g), ~Done(g)'
  PROVE  Order'
BY SameEnds DEF Others, Done

LEMMA SendOrder ==
  ASSUME LedgerInv, NEW g \in Goroutines, NEW h \in Goroutines, NEW x, Sends(g, x, h)
  PROVE  Order'
<1>1. at \in [Goroutines -> Locals]
  BY DEF LedgerInv, ShapeInv, TypeOK
<1>2. /\ at' = [at EXCEPT ![g] = Sent(@, x), ![h] = Received(at[g].source, x, "lookup")]
      /\ at[g].pc = "send" /\ at[h].pc = "receive" /\ UNCHANGED <<prepared, closed>>
  BY DEF Sends, In, historyVars
<1>3. Sent(at[g], x).pc \in {"receive", "send"} /\ Received(at[g].source, x, "lookup").pc = "lookup"
  BY <1>1, <1>2, PlacesAfter
<1> HIDE DEF Sent, Received
<1>4. \A e \in Goroutines : at'[e].pc = "done" <=> at[e].pc = "done"
  BY <1>1, <1>2, <1>3
<1> QED BY <1>2, <1>4, SameEnds DEF LedgerInv, Done

LEMMA PrepareOrder ==
  ASSUME LedgerInv, NEW c \in Chains, Prepare(c)
  PROVE  Order'
<1> DEFINE g == <<"dirs", c>>
           local == Received(prepared + 1, SourceDirs[prepared + 1], "lookup")
<1>1. at \in [Goroutines -> Locals] /\ g \in Goroutines /\ prepared \in Nat /\ Order
  BY DEF LedgerInv, ShapeInv, TypeOK, Goroutines, Stages
<1>2. /\ at' = [at EXCEPT ![g] = local] /\ at[g].pc = "receive" /\ prepared + 1 \in Sources
      /\ UNCHANGED closed
  BY DEF Prepare, In, Goes, historyVars
<1>3. local.pc = "lookup"
  BY DEF Received, Idle
<1> HIDE DEF local
<1>4. \A e \in Goroutines : Done(e)' <=> Done(e)
  BY <1>1, <1>2, <1>3 DEF Done
<1>5. prepared # Len(SourceDirs)
  BY <1>1, <1>2, ResolveAssumption, LenProperties DEF Sources
<1>6. \A e \in Chains, stage \in Stages : <<stage, e>> \in Goroutines
  BY DEF Goroutines
<1>7. \A e \in Chains : ~Done(<<"dirs", e>>) /\ ~Done(<<"tags", e>>) /\ ~Done(<<"details", e>>)
  BY <1>1, <1>5 DEF Order, Ends1, Ends2, Ends3
<1>8. \A e \in Chains : ~Done(<<"dirs", e>>)' /\ ~Done(<<"tags", e>>)' /\ ~Done(<<"details", e>>)'
  BY <1>4, <1>6, <1>7 DEF Stages
<1>9. ~closed
  BY <1>1, <1>7, ResolveAssumption DEF Order, AllForwarded
<1> QED BY <1>2, <1>8, <1>9 DEF Order, Ends1, Ends2, Ends3

LEMMA LeaveOrder ==
  ASSUME LedgerInv, NEW g \in Goroutines, Leave(g)
  PROVE  Order'
<1>1. at \in [Goroutines -> Locals] /\ Order
  BY DEF LedgerInv, ShapeInv, TypeOK
<1>2. /\ at' = [at EXCEPT ![g] = [Idle EXCEPT !.pc = "done"]] /\ at[g].pc = "receive"
      /\ UNCHANGED <<prepared, closed>> /\ InputClosed(g)
  BY DEF Leave, In, Goes, historyVars
<1>3. at'[g].pc = "done" /\ Others(g)
  BY <1>1, <1>2 DEF Idle, Others
<1>4. Done(g)' /\ ~Done(g) /\ \A h \in Goroutines : h # g => (Done(h)' <=> Done(h))
  BY <1>2, <1>3 DEF Done, Others
<1>5. \A c \in Chains, stage \in Stages : <<stage, c>> \in Goroutines
  BY DEF Goroutines
<1>6. \A c \in Chains : g = <<"dirs", c>> => prepared = Len(SourceDirs)
  BY <1>2 DEF InputClosed
<1>7. \A c \in Chains : g = <<"tags", c>> => Done(<<"dirs", c>>)
  BY <1>2 DEF InputClosed
<1>8. \A c \in Chains : g = <<"details", c>> => Done(<<"tags", c>>)
  BY <1>2 DEF InputClosed
<1>9. \A h \in Goroutines : Done(h) => Done(h)'
  BY <1>4
<1>10. \A c \in Chains : Ends1(c)'
  <2> TAKE c \in Chains
  <2>1. <<"details", c>> \in Goroutines /\ <<"tags", c>> \in Goroutines
    BY <1>5 DEF Stages
  <2>2. Done(<<"details", c>>)' => Done(<<"tags", c>>)
    BY <1>1, <1>4, <1>8, <2>1 DEF Order, Ends1
  <2> QED BY <1>9, <2>1, <2>2 DEF Ends1
<1>11. \A c \in Chains : Ends2(c)'
  <2> TAKE c \in Chains
  <2>1. <<"dirs", c>> \in Goroutines /\ <<"tags", c>> \in Goroutines
    BY <1>5 DEF Stages
  <2>2. Done(<<"tags", c>>)' => Done(<<"dirs", c>>)
    BY <1>1, <1>4, <1>7, <2>1 DEF Order, Ends2
  <2> QED BY <1>9, <2>1, <2>2 DEF Ends2
<1>12. \A c \in Chains : Ends3(c)'
  <2> TAKE c \in Chains
  <2>1. <<"dirs", c>> \in Goroutines
    BY <1>5 DEF Stages
  <2>2. Done(<<"dirs", c>>)' => prepared = Len(SourceDirs)
    BY <1>1, <1>4, <1>6, <2>1 DEF Order, Ends3
  <2> QED BY <1>2, <2>2 DEF Ends3
<1>13. closed' => AllForwarded'
  BY <1>1, <1>2, <1>5, <1>9 DEF Order, AllForwarded, Stages
<1> QED BY <1>10, <1>11, <1>12, <1>13 DEF Order

LEMMA NextKeepsOrder ==
  ASSUME LedgerInv, [Next]_vars
  PROVE  Order'
<1>1. ShapeInv /\ Order /\ at \in [Goroutines -> Locals]
  BY DEF LedgerInv, ShapeInv, TypeOK
<1>2. ASSUME NEW g \in Goroutines, Works(g) \/ GivesUp(g)
      PROVE  Order'
  <2>1. at[g].pc \in AtWork /\ at'[g].pc # "done" /\ Others(g) /\ UNCHANGED <<prepared, closed>>
    BY <1>2 DEF Works, GivesUp, Books, Idle
  <2>2. ~Done(g) /\ ~Done(g)'
    BY <2>1 DEF Done, AtWork
  <2> QED BY <1>1, <2>1, <2>2, OneEnds
<1>3. ASSUME NEW c \in Chains, NEW x, SendImage(c, x) \/ SendTag(c, x)
      PROVE  Order'
  <2>1. <<"dirs", c>> \in Goroutines /\ <<"tags", c>> \in Goroutines /\ <<"details", c>> \in Goroutines
    BY DEF Goroutines, Stages
  <2> QED BY <1>3, <2>1, SendOrder DEF SendImage, SendTag
<1>4. ASSUME NEW c \in Chains, NEW x, SendDetails(c, x)
      PROVE  Order'
  <2> DEFINE g == <<"details", c>>
             local == Sent(at[g], x)
  <2>1. g \in Goroutines
    BY DEF Goroutines, Stages
  <2>2. at' = [at EXCEPT ![g] = local] /\ at[g].pc = "send" /\ UNCHANGED <<prepared, closed>>
    BY <1>4 DEF SendDetails, In, Goes
  <2>3. local.pc \in {"receive", "send"}
    BY <1>1, <2>1, <2>2, PlacesAfter
  <2> HIDE DEF g, local
  <2>4. Others(g) /\ ~Done(g) /\ ~Done(g)'
    BY <1>1, <2>1, <2>2, <2>3 DEF Others, Done
  <2> QED BY <1>1, <2>1, <2>2, <2>4, OneEnds
<1>5. CASE Close
  BY <1>1, <1>5 DEF Close, Order, Ends1, Ends2, Ends3, Done, AllForwarded
<1>6. CASE Quiet
  BY <1>1, <1>6 DEF Quiet, Books, Order, Ends1, Ends2, Ends3, Done, AllForwarded
<1> QED BY <1>1, <1>2, <1>3, <1>4, <1>5, <1>6, NextKinds, LeaveOrder, PrepareOrder

-----------------------------------------------------------------------------
(* The promise *)

LEMMA InitLedger ==
  ASSUME Init
  PROVE  LedgerInv
<1>1. ShapeInv /\ at = [g \in Goroutines |-> Idle]
  BY InitShape DEF Init
<1>2. \A g \in Goroutines : at[g] = Idle
  BY <1>1
<1>3. Load(Idle) = {} /\ ~(Idle.pc = "done")
  BY LoadOfNone DEF Idle
<1>4. Due = {}
  <2>1. \A w \in Wanted : w[1] \in Nat \ {0}
    BY ResolveAssumption, LenProperties DEF Wanted, Sources
  <2>2. prepared = 0
    BY DEF Init
  <2> QED BY <2>1, <2>2 DEF Due
<1>5. Ledger
  BY <1>2, <1>3, <1>4 DEF Ledger, Init
<1>6. \A c \in Chains, stage \in Stages : ~Done(<<stage, c>>)
  BY <1>2, <1>3 DEF Done, Goroutines
<1>7. Order
  BY <1>6 DEF Order, Ends1, Ends2, Ends3, Stages, Init
<1> QED BY <1>1, <1>5, <1>7 DEF LedgerInv

\* After the end nobody has anything in hand.
LEMMA AllDone ==
  ASSUME Order, AllForwarded
  PROVE  (\A g \in Goroutines : Done(g)) /\ prepared = Len(SourceDirs)
<1>1. \A c \in Chains : Done(<<"details", c>>) /\ Done(<<"tags", c>>) /\ Done(<<"dirs", c>>)
  BY DEF Order, Ends1, Ends2, AllForwarded
<1>2. prepared = Len(SourceDirs)
  BY <1>1, ResolveAssumption DEF Order, Ends3
<1>3. \A g \in Goroutines : Done(g)
  <2> TAKE g \in Goroutines
  <2>1. PICK c \in Chains : g \in {<<"dirs", c>>, <<"tags", c>>, <<"details", c>>}
    BY DEF Goroutines, Stages
  <2> QED BY <1>1, <2>1
<1> QED BY <1>2, <1>3

LEMMA CloseCloses ==
  ASSUME LedgerInv, Close
  PROVE  Promise!Close
<1>1. (\A g \in Goroutines : Done(g)) /\ prepared = Len(SourceDirs)
  BY AllDone DEF LedgerInv, Close
<1>2. Due = Wanted
  <2>1. \A w \in Wanted : w[1] \in 1 .. Len(SourceDirs) /\ Len(SourceDirs) \in Nat
    BY ResolveAssumption, LenProperties DEF Wanted, Sources
  <2>2. \A w \in Wanted : w[1] <= prepared
    BY <1>1, <2>1
  <2> QED BY <2>2 DEF Due
<1>3. \A g \in Goroutines : Load(at[g]) = {}
  BY <1>1, LoadOfNone DEF Done
<1>4. out \cup missing = Wanted
  BY <1>2, <1>3 DEF LedgerInv, Ledger
<1> QED BY <1>4 DEF Close, Promise!Close

LEMMA GivesUpMisses ==
  ASSUME LedgerInv, NEW g \in Goroutines, GivesUp(g)
  PROVE  \E S \in SUBSET Wanted : Promise!Miss(S)
<1>1. Load(at[g]) \subseteq Wanted /\ Load(at[g]) \cap out = {}
  BY DEF LedgerInv, Ledger, Due
<1>2. ~Done(g) /\ Order
  BY DEF GivesUp, AtWork, Done, LedgerInv
<1>3. ~closed
  BY <1>2, AllDone DEF Order
<1>4. Promise!Miss(Load(at[g]))
  BY <1>1, <1>3 DEF GivesUp, Promise!Miss
<1> QED BY <1>1, <1>4

LEMMA SendDelivers ==
  ASSUME LedgerInv, NEW c \in Chains, NEW x, SendDetails(c, x)
  PROVE  \E w \in Wanted : Promise!Deliver(w)
<1> DEFINE g == <<"details", c>>
           w == <<at[g].source, x[2]>>
<1>1. w \in Wanted \ (out \cup missing)
  BY SendDetailsLedger DEF Due
<1>2. g \in Goroutines /\ at[g].pc = "send" /\ Order
  BY DEF Goroutines, Stages, SendDetails, In, LedgerInv
<1>3. ~closed
  BY <1>2, AllDone DEF Order, Done
<1>4. out' = out \cup {w} /\ UNCHANGED <<missing, closed>>
  BY DEF SendDetails
<1> HIDE DEF w
<1>5. Promise!Deliver(w)
  BY <1>1, <1>3, <1>4 DEF Promise!Deliver
<1> QED BY <1>1, <1>5

LEMMA NextImplements ==
  ASSUME LedgerInv, [Next]_vars
  PROVE  [Promise!ResolvePromiseNext]_(Promise!resolvePromiseVars)
<1> USE DEF Promise!ResolvePromiseNext, Promise!resolvePromiseVars
<1>1. ShapeInv
  BY DEF LedgerInv
<1>2. ASSUME NEW g \in Goroutines, Works(g) \/ Leave(g)
      PROVE  UNCHANGED <<out, missing, closed>>
  BY <1>2 DEF Works, Books, Leave, historyVars
<1>3. ASSUME NEW c \in Chains, NEW x, Prepare(c) \/ SendImage(c, x) \/ SendTag(c, x)
      PROVE  UNCHANGED <<out, missing, closed>>
  BY <1>3 DEF Prepare, SendImage, SendTag, Sends, historyVars
<1>4. CASE Quiet
  BY <1>4 DEF Quiet, Books
<1> QED BY <1>1, <1>2, <1>3, <1>4, NextKinds, GivesUpMisses, SendDelivers, CloseCloses

\* Whatever fails, whoever is faster and whatever the caches hold, a tag of a
\* source reaches the filter exactly once or its loss was some failure's, and
\* the channel is closed after all of that (run.go: prepare to
\* resolveTagDetails; concurrency.go: mergeTagDetailChs).
THEOREM ResolveKeepsPromise == Spec => KeepsPromise
<1>1. Init => LedgerInv
  BY InitLedger
<1>2. LedgerInv /\ [Next]_vars => LedgerInv'
  BY NextKeepsShape, NextKeepsLedger, NextKeepsOrder DEF LedgerInv
<1>3. Init => Promise!ResolvePromiseInit
  BY DEF Init, Promise!ResolvePromiseInit
<1>4. LedgerInv /\ [Next]_vars => [Promise!ResolvePromiseNext]_(Promise!resolvePromiseVars)
  BY NextImplements
<1> QED BY <1>1, <1>2, <1>3, <1>4, PTL DEF Spec, KeepsPromise, Promise!ResolvePromiseSpec
=============================================================================
