----------------------- MODULE ResolvePipelineProofs ------------------------
(***************************************************************************)
(* Theorems about ResolvePipeline for every number of chains, all sources  *)
(* and whatever the registry holds: digests, the map of clients, and the   *)
(* entries of the cache, which rest on a numbering of the lists that       *)
(* SetTags has stored (UpTo): whoever holds an object holds one of those.  *)
(* And that the stage ends: nobody waits for ever, and the steps run out.  *)
(***************************************************************************)
EXTENDS ResolvePipeline, FiniteSetTheorems, SequenceTheorems, TLAPS

Inputs(stage) ==
  CASE stage = "dirs" -> Dirs [] stage = "tags" -> Images [] stage = "details" -> Objects

Outputs(stage) == IF stage = "dirs" THEN Images ELSE Objects

\* Each tag once.
OneEach(objects) == \A o, p \in objects : o[2] = p[2] => o = p

AtWork == {"lookup", "insert", "get", "query", "set", "fill"}

\* Map k has a client for source s.
Has(k, s) == k[RegistryOf[SourceDirs[s]]] # 0

\* What a goroutine of a stage has, when n clients have been made, k is the
\* map, and the objects in known have a digest.
Shaped(stage, local, n, k, known) ==
  /\ local \in Locals /\ local.client \in 0 .. n
  /\ local.pc \in AtWork => local.source \in Sources /\ local.item \in Inputs(stage)
  /\ local.pc \in AtWork \ {"lookup"} => local.client # 0
  /\ local.pc \in AtWork \ {"lookup", "insert"} => Has(k, local.source)
  /\ stage # "dirs" /\ local.pc \notin {"receive", "done"} => Has(k, local.source)
  /\ local.pc = "insert" => stage = "dirs"
  /\ local.pc # "set" => local.unset = {} /\ local.turn = {}
  /\ local.pc = "set" =>
       /\ stage = "tags" /\ local.unset \subseteq local.rest /\ local.turn \subseteq local.rest
       /\ \E m \in Nat \ {0} : local.rest = ObjectsOf(m, local.item)
  /\ local.pc = "fill" => stage = "details" /\ local.item \in known
  /\ local.pc = "send" =>
       /\ local.source \in Sources /\ Has(k, local.source) /\ local.rest \subseteq Outputs(stage)
       /\ stage # "dirs" => OneEach(local.rest)
       /\ stage = "details" => local.rest \subseteq known

Shape == \A g \in Goroutines : Shaped(g[1], at[g], Len(caches), regcache, digests)

ShapeInv == TypeOK /\ Shape

LEMMA GoroutineStage ==
  ASSUME NEW g \in Goroutines
  PROVE  g[1] \in {"dirs", "tags", "details"} /\ g[2] \in Chains
BY DEF Goroutines, Stages

LEMMA SourceRegistry ==
  ASSUME NEW s \in Sources
  PROVE  SourceDirs[s] \in Dirs /\ RegistryOf[SourceDirs[s]] \in Registries
<1>1. SourceDirs[s] \in Dirs
  BY ResolveAssumption, ElementOfSeq DEF Sources
<1> QED BY <1>1, ResolveAssumption

\* What g has is of its stage while others go on.
LEMMA ShapedStays ==
  ASSUME NEW stage, NEW local, NEW n \in Nat, NEW k, NEW known, NEW m \in Nat, NEW j, NEW more,
         Shaped(stage, local, n, k, known), n <= m, \A r \in Registries : k[r] # 0 => j[r] # 0,
         known \subseteq more
  PROVE  Shaped(stage, local, m, j, more)
<1>1. local.client \in 0 .. m
  BY DEF Shaped
<1>2. local.source \in Sources /\ Has(k, local.source) => Has(j, local.source)
  BY SourceRegistry DEF Has
<1>3. local.pc \notin {"receive", "done"} => local.source \in Sources
  BY DEF Shaped, Locals, Places, AtWork
<1> QED BY <1>1, <1>2, <1>3 DEF Shaped, AtWork

\* The shared state only gains clients and digests.
Grows ==
  /\ Len(caches) <= Len(caches')
  /\ \A r \in Registries : regcache[r] # 0 => regcache'[r] # 0
  /\ digests \subseteq digests'

\* A step of g keeps the shape if what g has afterwards has it.
LEMMA StepOfOne ==
  ASSUME ShapeInv, CacheTypeOK', NEW g \in Goroutines, NEW local, Grows,
         at' = [at EXCEPT ![g] = local],
         Shaped(g[1], local, Len(caches'), regcache', digests')
  PROVE  Shape' /\ at' \in [Goroutines -> Locals] /\ \A h \in Goroutines : at'[h].client \in 0 .. Len(caches')
<1>1. Len(caches) \in Nat /\ Len(caches') \in Nat
  BY DEF ShapeInv, TypeOK, CacheTypeOK
<1>2. at \in [Goroutines -> Locals]
  BY DEF ShapeInv, TypeOK
<1>3. \A h \in Goroutines : Shaped(h[1], at'[h], Len(caches'), regcache', digests')
  <2> TAKE h \in Goroutines
  <2>1. CASE h = g
    BY <1>2, <2>1
  <2>2. CASE h # g
    <3>1. at'[h] = at[h]
      BY <1>2, <2>2
    <3>2. Shaped(h[1], at[h], Len(caches), regcache, digests)
      BY DEF ShapeInv, Shape
    <3> QED BY <1>1, <3>1, <3>2, ShapedStays DEF Grows
  <2> QED BY <2>1, <2>2
<1>4. Shape'
  BY <1>3 DEF Shape
<1>5. local \in Locals
  BY DEF Shaped
<1> QED BY <1>2, <1>3, <1>4, <1>5 DEF Shaped

-----------------------------------------------------------------------------
(* The operations of the shared state *)

\* Of each client its registry.
URLs == [k \in 1 .. Len(caches) |-> caches[k].baseURL]

LEMMA CacheUpdate ==
  ASSUME CacheTypeOK, NEW k \in 1 .. Len(caches), NEW r \in Cache, caches' = [caches EXCEPT ![k] = r],
         r.baseURL = caches[k].baseURL
  PROVE  caches' \in Seq(Cache) /\ Len(caches') = Len(caches) /\ URLs' = URLs
<1>1. caches' \in Seq(Cache) /\ Len(caches') = Len(caches) /\ caches \in Seq(Cache)
  BY ExceptSeq DEF CacheTypeOK
<1>2. \A j \in 1 .. Len(caches) : caches'[j].baseURL = caches[j].baseURL
  BY <1>1
<1> QED BY <1>1, <1>2 DEF URLs

LEMMA CacheAt ==
  ASSUME CacheTypeOK, NEW k \in 1 .. Len(caches)
  PROVE  /\ caches[k] \in Cache
         /\ caches[k].lists \in [Dirs \cup Images -> Nat]
         /\ caches[k].details \in [Tags -> Nat]
<1>1. caches[k] \in Cache
  BY ElementOfSeq DEF CacheTypeOK
<1> QED BY <1>1 DEF Cache

LEMMA NewClientTypes ==
  ASSUME NEW r \in Registries
  PROVE  NewClient(r) \in Cache /\ NewClient(r).baseURL = r
BY DEF NewClient, Cache

LEMMA MakeClientTypes ==
  ASSUME CacheTypeOK, NEW r \in Registries, MakeClient(r)
  PROVE  /\ CacheTypeOK' /\ Grows /\ Len(caches') = Len(caches) + 1
         /\ UNCHANGED <<registry, regcache, listings, digests, sizes>>
<1>1. NewClient(r) \in Cache
  BY NewClientTypes
<1>2. caches' \in Seq(Cache) /\ Len(caches') = Len(caches) + 1
  BY <1>1, AppendProperties DEF MakeClient, CacheTypeOK
<1>3. Len(caches) \in Nat
  BY DEF CacheTypeOK
<1>4. 0 .. Len(caches) \subseteq 0 .. Len(caches')
  BY <1>2, <1>3
<1> QED BY <1>2, <1>3, <1>4 DEF MakeClient, CacheTypeOK, Grows

LEMMA RegisterTypes ==
  ASSUME CacheTypeOK, NEW r \in Registries, NEW k \in 1 .. Len(caches), Register(r, k)
  PROVE  CacheTypeOK' /\ Grows /\ regcache'[r] # 0
<1>1. Len(caches) \in Nat
  BY DEF CacheTypeOK
<1> QED BY <1>1 DEF Register, CacheTypeOK, Grows

LEMMA SetListTypes ==
  ASSUME CacheTypeOK, NEW k \in 1 .. Len(caches), NEW x \in Dirs \cup Images, SetList(k, x)
  PROVE  CacheTypeOK' /\ Grows /\ Len(caches') = Len(caches) /\ UNCHANGED <<URLs, regcache>>
<1> DEFINE n == listings + 1
           r == [caches[k] EXCEPT !.lists = [@ EXCEPT ![x] = n]]
<1>1. n \in Nat \ {0}
  BY DEF CacheTypeOK
<1>2. r \in Cache
  BY <1>1, CacheAt DEF Cache
<1>3. caches' = [caches EXCEPT ![k] = r]
  BY DEF SetList
<1>4. caches' \in Seq(Cache) /\ Len(caches') = Len(caches) /\ URLs' = URLs
  BY <1>2, <1>3, CacheAt, CacheUpdate DEF Cache
<1>5. x \notin Dirs => ObjectsOf(n, x) \subseteq Objects
  BY <1>1, ResolveAssumption DEF ObjectsOf, Objects
<1>6. digests \subseteq digests' /\ digests' \subseteq Objects /\ sizes' \subseteq Objects
  BY <1>5 DEF SetList, GcrListing, DockerHubListing, CacheTypeOK
<1>7. Len(caches) \in Nat
  BY DEF CacheTypeOK
<1> QED BY <1>1, <1>4, <1>6, <1>7 DEF SetList, CacheTypeOK, Grows

LEMMA SetDetailsTypes ==
  ASSUME CacheTypeOK, NEW k \in 1 .. Len(caches), NEW o \in Objects, SetDetails(k, o)
  PROVE  CacheTypeOK' /\ Grows /\ Len(caches') = Len(caches) /\ UNCHANGED <<URLs, regcache>>
<1> DEFINE r == [caches[k] EXCEPT !.details = [@ EXCEPT ![o[2]] = o[1]]]
<1>1. o[1] \in Nat /\ o[2] \in Tags
  BY DEF Objects
<1>2. r \in Cache
  BY <1>1, CacheAt DEF Cache
<1>3. caches' = [caches EXCEPT ![k] = r]
  BY DEF SetDetails
<1>4. caches' \in Seq(Cache) /\ Len(caches') = Len(caches) /\ URLs' = URLs
  BY <1>2, <1>3, CacheAt, CacheUpdate DEF Cache
<1>5. Len(caches) \in Nat
  BY DEF CacheTypeOK
<1> QED BY <1>4, <1>5 DEF SetDetails, CacheTypeOK, Grows

LEMMA SetSizeTypes ==
  ASSUME CacheTypeOK, NEW k \in 1 .. Len(caches), NEW o \in Objects, SetSizeAndDetails(k, o)
  PROVE  CacheTypeOK' /\ Grows /\ Len(caches') = Len(caches) /\ UNCHANGED <<URLs, regcache>>
<1> DEFINE r == [caches[k] EXCEPT !.details = [@ EXCEPT ![o[2]] = o[1]]]
<1>1. o[1] \in Nat /\ o[2] \in Tags
  BY DEF Objects
<1>2. r \in Cache
  BY <1>1, CacheAt DEF Cache
<1>3. caches' = [caches EXCEPT ![k] = r]
  BY DEF SetSizeAndDetails
<1>4. caches' \in Seq(Cache) /\ Len(caches') = Len(caches) /\ URLs' = URLs
  BY <1>2, <1>3, CacheAt, CacheUpdate DEF Cache
<1>5. Len(caches) \in Nat
  BY DEF CacheTypeOK
<1> QED BY <1>4, <1>5 DEF SetSizeAndDetails, CacheTypeOK, Grows

LEMMA SetDigestTypes ==
  ASSUME CacheTypeOK, NEW o \in Objects, SetDigest(o)
  PROVE  CacheTypeOK' /\ Grows /\ Len(caches') = Len(caches) /\ UNCHANGED <<URLs, regcache>>
<1>1. Len(caches) \in Nat
  BY DEF CacheTypeOK
<1> QED BY <1>1 DEF SetDigest, CacheTypeOK, Grows, URLs

LEMMA ExpireTypes ==
  ASSUME CacheTypeOK, NEW k \in 1 .. Len(caches), NEW x \in Dirs \cup Images \cup Tags,
         ExpireEntry(k, x)
  PROVE  CacheTypeOK' /\ Grows /\ Len(caches') = Len(caches) /\ UNCHANGED <<URLs, regcache>>
<1>1. Len(caches) \in Nat /\ 0 \in Nat
  BY DEF CacheTypeOK
<1>2. caches' \in Seq(Cache) /\ Len(caches') = Len(caches) /\ URLs' = URLs
  <2>1. CASE x \in Tags
    <3> DEFINE r == [caches[k] EXCEPT !.details = [@ EXCEPT ![x] = 0]]
    <3>1. r \in Cache
      BY <2>1, CacheAt DEF Cache
    <3>2. caches' = [caches EXCEPT ![k] = r]
      BY <2>1 DEF ExpireEntry
    <3> QED BY <3>1, <3>2, CacheAt, CacheUpdate DEF Cache
  <2>2. CASE x \notin Tags
    <3> DEFINE r == [caches[k] EXCEPT !.lists = [@ EXCEPT ![x] = 0]]
    <3>1. r \in Cache
      BY <2>2, CacheAt DEF Cache
    <3>2. caches' = [caches EXCEPT ![k] = r]
      BY <2>2 DEF ExpireEntry
    <3> QED BY <3>1, <3>2, CacheAt, CacheUpdate DEF Cache
  <2> QED BY <2>1, <2>2
<1> QED BY <1>1, <1>2 DEF ExpireEntry, CacheTypeOK, Grows

LEMMA NothingChanges ==
  ASSUME CacheTypeOK, UNCHANGED cacheVars
  PROVE  CacheTypeOK' /\ Grows
<1>1. Len(caches) \in Nat
  BY DEF CacheTypeOK
<1> QED BY <1>1 DEF cacheVars, CacheTypeOK, Grows

-----------------------------------------------------------------------------
(* What a goroutine has after a step *)

LEMMA IdleShaped ==
  ASSUME NEW stage, NEW n \in Nat, NEW k, NEW known
  PROVE  Shaped(stage, Idle, n, k, known)
BY DEF Shaped, Idle, Locals, Places, AtWork

LEMMA DoneShaped ==
  ASSUME NEW stage, NEW n \in Nat, NEW k, NEW known
  PROVE  Shaped(stage, [Idle EXCEPT !.pc = "done"], n, k, known)
BY DEF Shaped, Idle, Locals, Places, AtWork

LEMMA ReceivedShaped ==
  ASSUME NEW stage \in Stages, NEW n \in Nat, NEW k, NEW known,
         NEW s \in Sources, NEW x \in Inputs(stage), stage # "dirs" => Has(k, s)
  PROVE  Shaped(stage, Received(s, x, "lookup"), n, k, known)
<1>1. x \in Items
  BY DEF Items, Inputs, Stages
<1> DEFINE r == Received(s, x, "lookup")
<1>2. /\ r.pc = "lookup" /\ r.source = s /\ r.item = x /\ r.client = 0
      /\ r.unset = {} /\ r.turn = {}
  BY DEF Received, Idle
<1>3. r \in Locals
  BY <1>1 DEF Received, Idle, Locals, Places
<1> HIDE DEF r
<1>4. Shaped(stage, r, n, k, known)
  BY <1>2, <1>3 DEF Shaped, AtWork
<1> QED BY <1>4 DEF r

LEMMA WithListShaped ==
  ASSUME NEW stage \in Stages, NEW n \in Nat, NEW k, NEW known, NEW local \in Locals,
         local.source \in Sources, Has(k, local.source), NEW list, list \subseteq Outputs(stage),
         stage # "dirs" => OneEach(list), stage = "details" => list \subseteq known
  PROVE  Shaped(stage, WithList(local, list), n, k, known)
<1>1. list \subseteq Items
  BY DEF Items, Outputs
<1>2. CASE list = {}
  BY <1>2, IdleShaped DEF WithList
<1>3. CASE list # {}
  <2> DEFINE r == WithList(local, list)
  <2>1. /\ r.pc = "send" /\ r.source = local.source /\ r.rest = list /\ r.client = 0
        /\ r.unset = {} /\ r.turn = {}
    BY <1>3 DEF WithList, Idle
  <2>2. r \in Locals
    BY <1>1, <1>3 DEF WithList, Idle, Locals, Places
  <2> HIDE DEF r
  <2>3. Shaped(stage, r, n, k, known)
    BY <2>1, <2>2 DEF Shaped, AtWork
  <2> QED BY <2>3 DEF r
<1> QED BY <1>2, <1>3

LEMMA SentShaped ==
  ASSUME NEW stage, NEW n \in Nat, NEW k, NEW known, NEW local, NEW x, x \in local.rest,
         Shaped(stage, local, n, k, known), local.pc = "send"
  PROVE  Shaped(stage, Sent(local, x), n, k, known)
<1>1. CASE local.rest = {x}
  BY <1>1, IdleShaped DEF Sent
<1>2. CASE local.rest # {x}
  <2> DEFINE rest == local.rest \ {x}
  <2>1. Sent(local, x) = [local EXCEPT !.rest = rest]
    BY <1>2 DEF Sent
  <2>2. local \in Locals /\ OneEach(local.rest) => OneEach(rest)
    BY DEF Shaped, OneEach
  <2>3. [local EXCEPT !.rest = rest] \in Locals
    BY <2>2 DEF Locals, Shaped
  <2> HIDE DEF rest
  <2>4. rest \subseteq local.rest
    BY DEF rest
  <2> QED BY <2>1, <2>2, <2>3, <2>4 DEF Shaped, AtWork, Locals
<1> QED BY <1>1, <1>2

LEMMA ListOfImage ==
  ASSUME NEW n \in Nat \ {0}, NEW i \in Images
  PROVE  ListOf(n, i) = ObjectsOf(n, i) /\ ObjectsOf(n, i) \subseteq Objects /\ OneEach(ObjectsOf(n, i))
BY ResolveAssumption DEF ListOf, ObjectsOf, Objects, OneEach

LEMMA ListOfInput ==
  ASSUME NEW n \in Nat \ {0}, NEW stage \in {"dirs", "tags"}, NEW x \in Inputs(stage)
  PROVE  ListOf(n, x) \subseteq Outputs(stage) /\ (stage # "dirs" => OneEach(ListOf(n, x)))
<1>1. CASE stage = "dirs"
  BY <1>1, ResolveAssumption DEF ListOf, Inputs, Outputs
<1>2. CASE stage = "tags"
  BY <1>2, ListOfImage DEF Inputs, Outputs
<1> QED BY <1>1, <1>2

LEMMA TagsBehindTypes ==
  ASSUME NEW x \in Items
  PROVE  TagsBehind(x) \subseteq Tags
<1>1. CASE x \in Dirs
  BY <1>1, ResolveAssumption DEF TagsBehind
<1>2. CASE x \in Images
  BY <1>2, ResolveAssumption DEF TagsBehind
<1>3. CASE x \in Objects
  BY <1>3, ResolveAssumption DEF TagsBehind, Objects
<1> QED BY <1>1, <1>2, <1>3 DEF Items

-----------------------------------------------------------------------------
(* Each step keeps the types and the shape *)

LEMMA LocalShape ==
  ASSUME ShapeInv, NEW g \in Goroutines
  PROVE  /\ Shaped(g[1], at[g], Len(caches), regcache, digests)
         /\ Len(caches) \in Nat /\ g[1] \in Stages /\ CacheTypeOK
BY DEF ShapeInv, Shape, TypeOK, CacheTypeOK, Goroutines, Stages

LEMMA StepKeepsShape ==
  ASSUME ShapeInv, CacheTypeOK', Grows, NEW g \in Goroutines, NEW local,
         at' = [at EXCEPT ![g] = local],
         Shaped(g[1], local, Len(caches'), regcache', digests'),
         prepared' \in 0 .. Len(SourceDirs), expired' \in 0 .. MaxExpired,
         out' \subseteq Sources \X Tags, missing' \subseteq Sources \X Tags,
         closed' \in BOOLEAN, crashed' \in BOOLEAN, overtaken' \subseteq Goroutines
  PROVE  ShapeInv'
BY StepOfOne DEF ShapeInv, TypeOK

LEMMA CallKeepsShape ==
  ASSUME ShapeInv, CacheTypeOK', Grows, NEW g \in Goroutines, NEW from, NEW local,
         Calls(g, from, local),
         Shaped(g[1], local, Len(caches'), regcache', digests')
  PROVE  ShapeInv'
<1>1. at' = [at EXCEPT ![g] = local]
  BY DEF Calls, Goes
<1>2. UNCHANGED <<prepared, out, missing, closed, crashed, expired, overtaken>>
  BY DEF Calls, Goes, historyVars
<1> QED BY <1>1, <1>2, StepKeepsShape DEF ShapeInv, TypeOK

LEMMA PrepareKeepsShape ==
  ASSUME ShapeInv, NEW c \in Chains, Prepare(c)
  PROVE  ShapeInv'
<1> DEFINE s == prepared + 1
           g == <<"dirs", c>>
           local == Received(s, SourceDirs[s], "lookup")
<1>1. g \in Goroutines /\ g[1] = "dirs" /\ g[1] \in Stages
  BY DEF Goroutines, Stages
<1>2. CacheTypeOK' /\ Grows /\ Len(caches') \in Nat
  BY LocalShape, <1>1, NothingChanges DEF Prepare, CacheTypeOK
<1>3. s \in Sources /\ SourceDirs[s] \in Inputs("dirs")
  BY ResolveAssumption, ElementOfSeq DEF Prepare, Sources, Inputs
<1>4. Shaped(g[1], local, Len(caches'), regcache', digests')
  BY <1>1, <1>2, <1>3, ReceivedShaped
<1>5. at' = [at EXCEPT ![g] = local]
  BY DEF Prepare, Goes
<1>6. prepared' \in 0 .. Len(SourceDirs)
  <2>1. DOMAIN SourceDirs = 1 .. Len(SourceDirs) /\ Len(SourceDirs) \in Nat
    BY ResolveAssumption, LenProperties
  <2> QED BY <2>1, <1>3 DEF Prepare, Sources, ShapeInv, TypeOK
<1>7. UNCHANGED <<out, missing, closed, crashed, expired, overtaken>>
  BY DEF Prepare, Goes, historyVars
<1> HIDE DEF local, g, s
<1> QED BY <1>1, <1>2, <1>4, <1>5, <1>6, <1>7, StepKeepsShape DEF ShapeInv, TypeOK

\* One goroutine sends and the next receives.
LEMMA SendKeepsShape ==
  ASSUME ShapeInv, NEW c \in Chains, NEW g \in Goroutines, NEW h \in Goroutines, NEW x,
         g[1] \in {"dirs", "tags"}, h[1] # "dirs", Inputs(h[1]) = Outputs(g[1]), g # h,
         Sends(g, x, h)
  PROVE  ShapeInv'
<1>1. Shaped(g[1], at[g], Len(caches), regcache, digests) /\ Len(caches) \in Nat /\ h[1] \in Stages
  BY LocalShape
<1>2. /\ at[g].pc = "send" /\ x \in at[g].rest /\ at[g].source \in Sources /\ x \in Inputs(h[1])
      /\ Has(regcache, at[g].source)
  BY <1>1 DEF Sends, In, Shaped
<1>3. Shaped(g[1], Sent(at[g], x), Len(caches), regcache, digests)
  BY <1>1, <1>2, SentShaped
<1>4. Shaped(h[1], Received(at[g].source, x, "lookup"), Len(caches), regcache, digests)
  BY <1>1, <1>2, ReceivedShaped
<1>5. at' = [at EXCEPT ![g] = Sent(@, x), ![h] = Received(at[g].source, x, "lookup")]
  BY DEF Sends
<1>6. UNCHANGED <<cacheVars, prepared, out, missing, closed, crashed, expired, overtaken>>
  BY DEF Sends, historyVars
<1>7. at \in [Goroutines -> Locals]
  BY DEF ShapeInv, TypeOK
<1>8. /\ at'[g] = Sent(at[g], x) /\ at'[h] = Received(at[g].source, x, "lookup")
      /\ \A e \in Goroutines : e \notin {g, h} => at'[e] = at[e]
  BY <1>5, <1>7
<1>9. \A e \in Goroutines : Shaped(e[1], at'[e], Len(caches), regcache, digests)
  BY <1>3, <1>4, <1>8, LocalShape
<1>10. at' \in [Goroutines -> Locals]
  <2>1. Sent(at[g], x) \in Locals /\ Received(at[g].source, x, "lookup") \in Locals
    BY <1>3, <1>4 DEF Shaped
  <2> QED BY <1>5, <1>7, <2>1
<1>11. \A e \in Goroutines : at'[e].client \in 0 .. Len(caches)
  BY <1>9 DEF Shaped
<1> QED BY <1>6, <1>9, <1>10, <1>11 DEF ShapeInv, Shape, TypeOK, CacheTypeOK, cacheVars

LEMMA SendDetailsKeepsShape ==
  ASSUME ShapeInv, NEW c \in Chains, NEW x, SendDetails(c, x)
  PROVE  ShapeInv'
<1> DEFINE g == <<"details", c>>
           local == Sent(at[g], x)
<1>1. g \in Goroutines /\ g[1] = "details"
  BY DEF Goroutines, Stages
<1>2. Shaped(g[1], at[g], Len(caches), regcache, digests) /\ Len(caches) \in Nat
  BY <1>1, LocalShape
<1>3. at[g].pc = "send" /\ x \in at[g].rest
  BY DEF SendDetails, In
<1>4. Shaped(g[1], local, Len(caches), regcache, digests)
  BY <1>2, <1>3, SentShaped
<1>5. at[g].source \in Sources /\ x[2] \in Tags
  BY <1>1, <1>2, <1>3 DEF Shaped, Outputs, Objects
<1>6. out' \subseteq Sources \X Tags
  BY <1>5 DEF SendDetails, ShapeInv, TypeOK
<1>7. CacheTypeOK' /\ Grows
  BY <1>1, LocalShape, NothingChanges DEF SendDetails
<1>8. /\ UNCHANGED <<caches, regcache, digests, prepared, missing, closed, crashed, expired, overtaken>>
      /\ at' = [at EXCEPT ![g] = local]
  BY DEF SendDetails, Goes, cacheVars
<1> HIDE DEF g, local
<1> QED BY <1>1, <1>4, <1>6, <1>7, <1>8, StepKeepsShape DEF ShapeInv, TypeOK

LEMMA LeaveKeepsShape ==
  ASSUME ShapeInv, NEW g \in Goroutines, Leave(g)
  PROVE  ShapeInv'
<1>1. CacheTypeOK' /\ Grows /\ Len(caches') \in Nat
  BY LocalShape, NothingChanges DEF Leave, CacheTypeOK
<1>2. Shaped(g[1], [Idle EXCEPT !.pc = "done"], Len(caches'), regcache', digests')
  BY <1>1, DoneShaped
<1>3. /\ UNCHANGED <<prepared, out, missing, closed, crashed, expired, overtaken>>
      /\ at' = [at EXCEPT ![g] = [Idle EXCEPT !.pc = "done"]]
  BY DEF Leave, Goes, historyVars
<1> QED BY <1>1, <1>2, <1>3, StepKeepsShape DEF ShapeInv, TypeOK

LEMMA LosesKeepsShape ==
  ASSUME ShapeInv, NEW g \in Goroutines, NEW from \in AtWork, Loses(g, from, Idle)
  PROVE  ShapeInv'
<1>1. CacheTypeOK' /\ Grows /\ Len(caches') \in Nat
  BY LocalShape, NothingChanges DEF Loses, CacheTypeOK
<1>2. Shaped(g[1], Idle, Len(caches'), regcache', digests')
  BY <1>1, IdleShaped
<1>3. /\ UNCHANGED <<prepared, out, closed, crashed, expired, overtaken>>
      /\ at' = [at EXCEPT ![g] = Idle]
  BY DEF Loses, Goes
<1>4. at[g].source \in Sources /\ at[g].item \in Items
  BY LocalShape DEF Loses, In, Shaped, Inputs, Items, Stages
<1>5. missing' \subseteq Sources \X Tags
  BY <1>4, TagsBehindTypes DEF Loses, ShapeInv, TypeOK
<1> QED BY <1>1, <1>2, <1>3, <1>5, StepKeepsShape DEF ShapeInv, TypeOK

\* A goroutine goes on to another place within its call.
LEMMA PlaceShaped ==
  ASSUME NEW stage, NEW n \in Nat, NEW k, NEW known, NEW local,
         Shaped(stage, local, n, k, known), local.pc \in AtWork \ {"set"},
         NEW pc \in AtWork \ {"set"}, NEW client \in 0 .. n,
         pc # "lookup" => client # 0, pc \notin {"lookup", "insert"} => Has(k, local.source),
         pc = "insert" => stage = "dirs", pc = "fill" => stage = "details" /\ local.item \in known
  PROVE  Shaped(stage, [local EXCEPT !.pc = pc, !.client = client], n, k, known)
<1> DEFINE r == [local EXCEPT !.pc = pc, !.client = client]
<1>1. local \in Locals /\ n \in Nat /\ client \in Nat
  BY DEF Shaped
<1>2. /\ r.pc = pc /\ r.client = client /\ r.source = local.source /\ r.item = local.item
      /\ r.unset = local.unset /\ r.turn = local.turn
  BY <1>1 DEF Locals
<1>3. r \in Locals
  BY <1>1 DEF Locals, Places, AtWork
<1> HIDE DEF r
<1>4. Shaped(stage, r, n, k, known)
  BY <1>2, <1>3 DEF Shaped, AtWork
<1> QED BY <1>4 DEF r

LEMMA SamePlace ==
  ASSUME NEW local \in Locals, NEW pc
  PROVE  [local EXCEPT !.pc = pc] = [local EXCEPT !.pc = pc, !.client = local.client]
BY DEF Locals

LEMMA LookupKeepsShape ==
  ASSUME ShapeInv, NEW g \in Goroutines, LookupFinds(g) \/ LookupMisses(g) \/ Insert(g)
  PROVE  ShapeInv'
<1>1. Shaped(g[1], at[g], Len(caches), regcache, digests) /\ Len(caches) \in Nat /\ CacheTypeOK
  BY LocalShape
<1> DEFINE r == BaseURL(g)
           found == regcache[r]
<1>2. /\ at[g].source \in Sources /\ r \in Registries /\ found \in 0 .. Len(caches)
      /\ \A k : Has(k, at[g].source) <=> k[r] # 0
  <2>1. at[g].pc \in AtWork
    BY DEF LookupFinds, LookupMisses, Insert, Calls, In, AtWork
  <2>2. at[g].source \in Sources
    BY <1>1, <2>1 DEF Shaped
  <2> QED BY <1>1, <2>2, SourceRegistry DEF CacheTypeOK, Has, BaseURL
<1> HIDE DEF r
<1>3. CASE LookupFinds(g)
  <2> DEFINE local == [at[g] EXCEPT !.pc = "get", !.client = found]
  <2>1. Calls(g, "lookup", local) /\ UNCHANGED cacheVars /\ at[g].pc = "lookup" /\ found # 0
    BY <1>3 DEF LookupFinds, Calls, In, r
  <2>2. "get" \in AtWork \ {"set"} /\ at[g].pc \in AtWork \ {"set"}
    BY <2>1 DEF AtWork
  <2>3. Shaped(g[1], local, Len(caches), regcache, digests)
    <3>1. Has(regcache, at[g].source)
      BY <1>2, <2>1
    <3> HIDE DEF found
    <3> QED BY <1>1, <1>2, <2>1, <2>2, <3>1, PlaceShaped
  <2>4. CacheTypeOK' /\ Grows /\ UNCHANGED <<caches, regcache, digests>>
    BY <1>1, <2>1, NothingChanges DEF cacheVars
  <2> HIDE DEF local
  <2> QED BY <2>1, <2>3, <2>4, CallKeepsShape
<1>4. CASE LookupMisses(g)
  <2> DEFINE k == Len(caches) + 1
             local == [at[g] EXCEPT !.pc = "insert", !.client = k]
  <2>1. Calls(g, "lookup", local) /\ MakeClient(r) /\ at[g].pc = "lookup" /\ found = 0
    BY <1>4 DEF LookupMisses, Calls, In, r
  <2>2. /\ CacheTypeOK' /\ Grows /\ Len(caches') = k
        /\ UNCHANGED <<regcache, digests>>
    BY <1>1, <1>2, <2>1, MakeClientTypes
  <2>3. g[1] = "dirs"
    BY <1>1, <1>2, <2>1 DEF Shaped
  <2>4. Shaped(g[1], at[g], k, regcache, digests)
    BY <1>1, ShapedStays
  <2>5. "insert" \in AtWork \ {"set"} /\ at[g].pc \in AtWork \ {"set"} /\ k \in 0 .. k /\ k \in Nat /\ k # 0
    BY <1>1, <2>1 DEF AtWork
  <2>6. Shaped(g[1], local, k, regcache, digests)
    <3> HIDE DEF k
    <3> QED BY <2>3, <2>4, <2>5, PlaceShaped
  <2> HIDE DEF local, k
  <2> QED BY <2>1, <2>2, <2>6, CallKeepsShape
<1>5. CASE Insert(g)
  <2> DEFINE local == [at[g] EXCEPT !.pc = "get"]
  <2>1. Calls(g, "insert", local) /\ Register(r, at[g].client) /\ at[g].pc = "insert"
    BY <1>5 DEF Insert, Calls, In, r
  <2>2. at[g].client \in 1 .. Len(caches) /\ at[g] \in Locals
    BY <1>1, <2>1 DEF Shaped, AtWork
  <2>3. CacheTypeOK' /\ Grows /\ regcache'[r] # 0 /\ UNCHANGED <<caches, digests>>
    BY <1>1, <1>2, <2>1, <2>2, RegisterTypes DEF Register
  <2> DEFINE k == regcache'
             client == at[g].client
  <2>4. Shaped(g[1], at[g], Len(caches), k, digests) /\ Has(k, at[g].source)
    BY <1>1, <1>2, <2>3, ShapedStays DEF Grows
  <2>5. /\ "get" \in AtWork \ {"set"} /\ at[g].pc \in AtWork \ {"set"}
        /\ client \in 0 .. Len(caches) /\ client # 0
    BY <1>1, <2>1, <2>2 DEF AtWork
  <2>6. Shaped(g[1], [at[g] EXCEPT !.pc = "get", !.client = client], Len(caches), k, digests)
    <3> HIDE DEF k, client
    <3> QED BY <1>1, <2>4, <2>5, PlaceShaped
  <2>7. Shaped(g[1], local, Len(caches), regcache', digests)
    BY <2>2, <2>6, SamePlace
  <2> HIDE DEF local
  <2> QED BY <2>1, <2>3, <2>7, CallKeepsShape
<1> QED BY <1>3, <1>4, <1>5

\* The client's cache has nothing of use, and a request is sent.
LEMMA QueryKeepsShape ==
  ASSUME ShapeInv, NEW g \in Goroutines, ListMissed(g) \/ DetailsMissed(g)
  PROVE  ShapeInv'
<1> DEFINE local == [at[g] EXCEPT !.pc = "query"]
<1>1. Shaped(g[1], at[g], Len(caches), regcache, digests) /\ Len(caches) \in Nat /\ CacheTypeOK
  BY LocalShape
<1>2. Calls(g, "get", local) /\ UNCHANGED cacheVars /\ at[g].pc = "get"
  BY DEF ListMissed, DetailsMissed, Calls, In
<1>3. /\ at[g] \in Locals /\ at[g].client \in 0 .. Len(caches) /\ at[g].client # 0
      /\ Has(regcache, at[g].source)
      /\ "query" \in AtWork \ {"set"} /\ at[g].pc \in AtWork \ {"set"}
  BY <1>1, <1>2 DEF Shaped, AtWork
<1>4. Shaped(g[1], [at[g] EXCEPT !.pc = "query", !.client = at[g].client], Len(caches), regcache, digests)
  BY <1>1, <1>3, PlaceShaped
<1>5. Shaped(g[1], local, Len(caches), regcache, digests)
  BY <1>3, <1>4, SamePlace
<1>6. CacheTypeOK' /\ Grows /\ UNCHANGED <<caches, regcache, digests>>
  BY <1>1, <1>2, NothingChanges DEF cacheVars
<1> HIDE DEF local
<1> QED BY <1>2, <1>5, <1>6, CallKeepsShape

\* What a goroutine at work has.
LEMMA WorkShape ==
  ASSUME ShapeInv, NEW g \in Goroutines, at[g].pc \in AtWork \ {"lookup", "insert"}
  PROVE  /\ at[g] \in Locals /\ at[g].source \in Sources /\ at[g].item \in Inputs(g[1])
         /\ at[g].client \in 1 .. Len(caches) /\ Has(regcache, at[g].source)
<1>1. Shaped(g[1], at[g], Len(caches), regcache, digests) /\ Len(caches) \in Nat
  BY LocalShape
<1>2. at[g].client # 0
  BY <1>1 DEF Shaped, AtWork
<1> QED BY <1>1, <1>2 DEF Shaped, AtWork

LEMMA ListerStage ==
  ASSUME NEW g \in Listers
  PROVE  g \in Goroutines /\ g[1] \in {"dirs", "tags"} /\ g[1] \in Stages
BY DEF Listers, Goroutines, Stages

LEMMA DetailerStage ==
  ASSUME NEW g \in Detailers
  PROVE  g \in Goroutines /\ g[1] = "details" /\ g[1] \in Stages
BY DEF Detailers, Goroutines, Stages

LEMMA ListHitKeepsShape ==
  ASSUME ShapeInv, NEW g \in Listers, ListHit(g)
  PROVE  ShapeInv'
<1> DEFINE x == at[g].item
           n == Listed(g)
           local == WithList(at[g], ListOf(n, x))
<1>1. g \in Goroutines /\ g[1] \in {"dirs", "tags"} /\ g[1] \in Stages
  BY ListerStage
<1>2. Calls(g, "get", local) /\ UNCHANGED cacheVars /\ at[g].pc = "get" /\ n # 0
  BY DEF ListHit, Calls, In
<1>3. /\ at[g] \in Locals /\ at[g].source \in Sources /\ x \in Inputs(g[1])
      /\ at[g].client \in 1 .. Len(caches) /\ Has(regcache, at[g].source)
  BY <1>1, <1>2, WorkShape DEF AtWork
<1>4. CacheTypeOK /\ Len(caches) \in Nat
  BY <1>1, LocalShape
<1>5. n \in Nat \ {0}
  <2>1. x \in Dirs \cup Images
    BY <1>1, <1>3 DEF Inputs
  <2> QED BY <1>2, <1>3, <1>4, <2>1, CacheAt DEF Listed
<1>6. ListOf(n, x) \subseteq Outputs(g[1]) /\ (g[1] # "dirs" => OneEach(ListOf(n, x)))
  BY <1>1, <1>3, <1>5, ListOfInput
<1>7. Shaped(g[1], local, Len(caches), regcache, digests)
  <2> DEFINE list == ListOf(n, x)
  <2>1. list \subseteq Outputs(g[1]) /\ (g[1] # "dirs" => OneEach(list)) /\ g[1] # "details"
    BY <1>1, <1>6
  <2> HIDE DEF list
  <2>2. Shaped(g[1], WithList(at[g], list), Len(caches), regcache, digests)
    BY <1>1, <1>3, <1>4, <2>1, WithListShaped
  <2> QED BY <2>2 DEF list
<1>8. CacheTypeOK' /\ Grows /\ UNCHANGED <<caches, regcache, digests>>
  BY <1>2, <1>4, NothingChanges DEF cacheVars
<1> HIDE DEF local
<1> QED BY <1>1, <1>2, <1>7, <1>8, CallKeepsShape

\* SetTags begins, or goes on, with the objects of list m.
LEMMA SetShaped ==
  ASSUME NEW n \in Nat, NEW k, NEW known, NEW local \in Locals, local.source \in Sources,
         Has(k, local.source), local.item \in Images, local.client \in 1 .. n, NEW m \in Nat \ {0},
         NEW rest, rest = ObjectsOf(m, local.item),
         NEW left, left \subseteq rest, NEW looked, looked \subseteq rest
  PROVE  Shaped("tags", [local EXCEPT !.pc = "set", !.rest = rest, !.unset = left, !.turn = looked],
                n, k, known)
<1> DEFINE r == [local EXCEPT !.pc = "set", !.rest = rest, !.unset = left, !.turn = looked]
<1>1. /\ r.pc = "set" /\ r.rest = rest /\ r.unset = left /\ r.turn = looked
      /\ r.source = local.source /\ r.item = local.item /\ r.client = local.client
  BY DEF Locals
<1>2. rest \subseteq Objects /\ rest \subseteq Items
  BY ListOfImage DEF Items
<1>3. r \in Locals
  BY <1>2 DEF Locals, Places
<1>4. local.client \in 0 .. n /\ local.client # 0
  OBVIOUS
<1> HIDE DEF r
<1>5. Shaped("tags", r, n, k, known)
  BY <1>1, <1>3, <1>4 DEF Shaped, AtWork, Inputs
<1> QED BY <1>5 DEF r

LEMMA StoredShaped ==
  ASSUME NEW stage \in Stages, NEW n \in Nat, NEW k, NEW known, NEW local,
         Shaped(stage, local, n, k, known), local.pc = "set",
         NEW left, left \subseteq local.rest, NEW looked, looked \subseteq local.rest
  PROVE  Shaped(stage, Stored(local, left, looked), n, k, known)
<1>1. /\ stage = "tags" /\ local \in Locals /\ local.source \in Sources /\ local.item \in Images
      /\ local.client \in 0 .. n /\ local.client # 0 /\ Has(k, local.source)
  BY DEF Shaped, AtWork, Inputs
<1>2. local.client \in 1 .. n
  BY <1>1
<1>3. PICK m \in Nat \ {0} : local.rest = ObjectsOf(m, local.item)
  BY DEF Shaped
<1>4. local.rest \subseteq Outputs(stage) /\ OneEach(local.rest)
  BY <1>1, <1>3, ListOfImage DEF Outputs
<1>5. CASE left \cup looked = {}
  <2>1. Shaped(stage, WithList(local, local.rest), n, k, known)
    BY <1>1, <1>4, WithListShaped
  <2> QED BY <1>5, <2>1 DEF Stored
<1>6. CASE left \cup looked # {}
  <2>1. Stored(local, left, looked) =
          [local EXCEPT !.pc = "set", !.rest = local.rest, !.unset = left, !.turn = looked]
    BY <1>1, <1>6 DEF Stored, Locals
  <2>2. Shaped("tags", [local EXCEPT !.pc = "set", !.rest = local.rest, !.unset = left, !.turn = looked],
               n, k, known)
    BY <1>1, <1>2, <1>3, SetShaped
  <2> QED BY <1>1, <2>1, <2>2
<1> QED BY <1>5, <1>6

LEMMA ListAnsweredKeepsShape ==
  ASSUME ShapeInv, NEW g \in Listers, ListAnswered(g)
  PROVE  ShapeInv'
<1> DEFINE x == at[g].item
           n == listings + 1
           list == ListOf(n, x)
           local == IF x \in Dirs \/ list = {} THEN WithList(at[g], list)
                    ELSE [at[g] EXCEPT !.pc = "set", !.rest = list, !.unset = list]
<1>1. g \in Goroutines /\ g[1] \in {"dirs", "tags"} /\ g[1] \in Stages
  BY ListerStage
<1>2. Calls(g, "query", local) /\ SetList(at[g].client, x) /\ at[g].pc = "query"
  BY DEF ListAnswered, Calls, In
<1>3. /\ at[g] \in Locals /\ at[g].source \in Sources /\ x \in Inputs(g[1])
      /\ at[g].client \in 1 .. Len(caches) /\ Has(regcache, at[g].source)
  BY <1>1, <1>2, WorkShape DEF AtWork
<1>4. CacheTypeOK /\ Len(caches) \in Nat /\ n \in Nat \ {0}
  BY <1>1, LocalShape DEF CacheTypeOK
<1>5. CacheTypeOK' /\ Grows /\ Len(caches') = Len(caches) /\ regcache' = regcache
  <2>1. x \in Dirs \cup Images
    BY <1>1, <1>3 DEF Inputs
  <2> QED BY <1>2, <1>3, <1>4, <2>1, SetListTypes
<1>6. list \subseteq Outputs(g[1]) /\ (g[1] # "dirs" => OneEach(list)) /\ g[1] # "details"
  BY <1>1, <1>3, <1>4, ListOfInput
<1>7. Shaped(g[1], local, Len(caches), regcache, digests')
  <2> DEFINE known == digests'
  <2>1. CASE x \in Dirs \/ list = {}
    <3>1. local = WithList(at[g], list)
      BY <2>1
    <3> HIDE DEF known, list, local
    <3>2. Shaped(g[1], WithList(at[g], list), Len(caches), regcache, known)
      BY <1>1, <1>3, <1>4, <1>6, WithListShaped
    <3> QED BY <3>1, <3>2 DEF known
  <2>2. CASE ~(x \in Dirs \/ list = {})
    <3>1. g[1] = "tags" /\ x \in Images /\ list = ObjectsOf(n, x)
      BY <1>1, <1>3, <1>4, <2>2, ListOfImage DEF Inputs
    <3>2. at[g].turn = {}
      BY <1>1, <1>2, LocalShape DEF Shaped
    <3>3. local = [at[g] EXCEPT !.pc = "set", !.rest = list, !.unset = list]
      BY <2>2
    <3> HIDE DEF known, list, local, n
    <3>4. local = [at[g] EXCEPT !.pc = "set", !.rest = list, !.unset = list, !.turn = {}]
      BY <1>3, <3>2, <3>3 DEF Locals
    <3>5. Shaped("tags", [at[g] EXCEPT !.pc = "set", !.rest = list, !.unset = list, !.turn = {}],
                 Len(caches), regcache, known)
      BY <1>3, <1>4, <3>1, SetShaped
    <3> QED BY <3>1, <3>4, <3>5 DEF known
  <2> QED BY <2>1, <2>2
<1> HIDE DEF local
<1> QED BY <1>1, <1>2, <1>5, <1>7, CallKeepsShape

LEMMA LookAtKeepsShape ==
  ASSUME ShapeInv, NEW g \in Listers, NEW o \in at[g].unset, LookAt(g, o)
  PROVE  ShapeInv'
<1> DEFINE left == at[g].unset \ {o}
           looked == IF Richer(at[g].client, o) THEN {} ELSE {o}
           local == Stored(at[g], left, looked)
<1>1. g \in Goroutines /\ g[1] \in Stages
  BY ListerStage
<1>2. Calls(g, "set", local) /\ UNCHANGED cacheVars /\ at[g].pc = "set"
  BY DEF LookAt, Calls, In
<1>3. Shaped(g[1], at[g], Len(caches), regcache, digests) /\ Len(caches) \in Nat /\ CacheTypeOK
  BY <1>1, LocalShape
<1>4. left \subseteq at[g].rest /\ looked \subseteq at[g].rest
  BY <1>2, <1>3 DEF Shaped
<1>5. Shaped(g[1], local, Len(caches), regcache, digests)
  <2> HIDE DEF left, looked
  <2> QED BY <1>1, <1>2, <1>3, <1>4, StoredShaped
<1>6. CacheTypeOK' /\ Grows /\ UNCHANGED <<caches, regcache, digests>>
  BY <1>2, <1>3, NothingChanges DEF cacheVars
<1> HIDE DEF local
<1> QED BY <1>1, <1>2, <1>5, <1>6, CallKeepsShape

LEMMA ReplaceKeepsShape ==
  ASSUME ShapeInv, NEW g \in Listers, NEW o \in at[g].turn, Replace(g, o)
  PROVE  ShapeInv'
<1> DEFINE local == Stored(at[g], at[g].unset, {})
<1>1. g \in Goroutines /\ g[1] \in Stages
  BY ListerStage
<1>2. /\ at' = [at EXCEPT ![g] = local] /\ at[g].pc = "set" /\ SetDetails(at[g].client, o)
      /\ UNCHANGED <<prepared, out, missing, closed, crashed, expired>>
      /\ overtaken' = (overtaken \cup Overtakes) \ {g}
  BY DEF Replace, In, Goes, historyVars
<1>3. Shaped(g[1], at[g], Len(caches), regcache, digests) /\ Len(caches) \in Nat /\ CacheTypeOK
  BY <1>1, LocalShape
<1>4. at[g].client \in 1 .. Len(caches)
  BY <1>1, <1>2, WorkShape DEF AtWork
<1>5. at[g].unset \subseteq at[g].rest /\ at[g].turn \subseteq at[g].rest
  BY <1>2, <1>3 DEF Shaped
<1>6. o \in Objects
  BY <1>2, <1>3, <1>5 DEF Shaped, Locals
<1>7. /\ CacheTypeOK' /\ Grows /\ Len(caches') = Len(caches) /\ regcache' = regcache
      /\ digests' = digests
  BY <1>2, <1>3, <1>4, <1>6, SetDetailsTypes DEF SetDetails
<1>8. Shaped(g[1], local, Len(caches), regcache, digests)
  BY <1>1, <1>2, <1>3, <1>5, StoredShaped
<1>9. overtaken' \subseteq Goroutines
  BY <1>2 DEF Overtakes, ShapeInv, TypeOK
<1> HIDE DEF local
<1> QED BY <1>1, <1>2, <1>7, <1>8, <1>9, StepKeepsShape DEF ShapeInv, TypeOK

\* What a goroutine of the last stage sends.
LEMMA OneShaped ==
  ASSUME NEW n \in Nat, NEW k, NEW known, NEW local \in Locals, local.source \in Sources,
         Has(k, local.source), NEW o \in Objects, o \in known
  PROVE  Shaped("details", WithList(local, {o}), n, k, known)
<1>1. {o} \subseteq Outputs("details") /\ OneEach({o}) /\ {o} \subseteq known /\ "details" \in Stages
  BY DEF Outputs, OneEach, Stages
<1> QED BY <1>1, WithListShaped

LEMMA GetsDetailsKeepsShape ==
  ASSUME ShapeInv, NEW g \in Detailers, DetailsKnown(g) \/ DetailsHit(g)
  PROVE  ShapeInv'
<1>1. g \in Goroutines /\ g[1] = "details"
  BY DetailerStage
<1>2. at[g].pc = "get" /\ CacheTypeOK /\ Len(caches) \in Nat
  BY <1>1, LocalShape DEF DetailsKnown, DetailsHit, In
<1>3. /\ at[g] \in Locals /\ at[g].source \in Sources /\ at[g].item \in Objects
      /\ at[g].client \in 1 .. Len(caches) /\ Has(regcache, at[g].source)
  BY <1>1, <1>2, WorkShape DEF AtWork, Inputs
<1>4. PICK o : o \in Objects /\ o \in digests /\ GetsDetails(g, o)
  <2>1. CASE DetailsKnown(g)
    BY <1>3, <2>1 DEF DetailsKnown, Known
  <2>2. CASE DetailsHit(g)
    <3>1. Cached(at[g].client, at[g].item) \in digests
      BY <2>2 DEF DetailsHit, Hit, Rich
    <3>2. digests \subseteq Objects
      BY <1>2 DEF CacheTypeOK
    <3> QED BY <2>2, <3>1, <3>2 DEF DetailsHit
  <2> QED BY <2>1, <2>2
<1> DEFINE local == WithList(at[g], {o})
<1>5. Calls(g, "get", local) /\ UNCHANGED cacheVars
  BY <1>4 DEF GetsDetails
<1>6. Shaped(g[1], local, Len(caches), regcache, digests)
  BY <1>1, <1>2, <1>3, <1>4, OneShaped
<1>7. CacheTypeOK' /\ Grows /\ UNCHANGED <<caches, regcache, digests>>
  BY <1>2, <1>5, NothingChanges DEF cacheVars
<1> HIDE DEF local
<1> QED BY <1>1, <1>5, <1>6, <1>7, CallKeepsShape

LEMMA OvertakesTypes ==
  ASSUME overtaken \subseteq Goroutines, overtaken' = overtaken \cup Overtakes
  PROVE  overtaken' \subseteq Goroutines
BY DEF Overtakes

LEMMA DetailsAnsweredKeepsShape ==
  ASSUME ShapeInv, NEW g \in Detailers, DetailsAnswered(g)
  PROVE  ShapeInv'
<1> DEFINE local == [at[g] EXCEPT !.pc = "fill"]
           o == at[g].item
           known == digests'
<1>1. g \in Goroutines /\ g[1] = "details"
  BY DetailerStage
<1>2. /\ at[g].pc = "query" /\ at' = [at EXCEPT ![g] = local] /\ SetDigest(o)
      /\ overtaken' = overtaken \cup Overtakes
      /\ UNCHANGED <<prepared, out, missing, closed, crashed, expired>>
  BY DEF DetailsAnswered, In, Goes, historyVars
<1>3. /\ at[g] \in Locals /\ o \in Objects /\ at[g].client \in 0 .. Len(caches) /\ at[g].client # 0
      /\ Has(regcache, at[g].source)
  BY <1>1, <1>2, WorkShape DEF AtWork, Inputs
<1>4. CacheTypeOK /\ Shaped(g[1], at[g], Len(caches), regcache, digests) /\ Len(caches) \in Nat
  BY <1>1, LocalShape
<1>5. CacheTypeOK' /\ Grows /\ Len(caches') = Len(caches) /\ regcache' = regcache
  BY <1>2, <1>3, <1>4, SetDigestTypes
<1>6. o \in known /\ digests \subseteq known
  BY <1>2 DEF SetDigest
<1>7. Shaped(g[1], local, Len(caches), regcache, known)
  <2> HIDE DEF known
  <2>1. Shaped(g[1], at[g], Len(caches), regcache, known)
    BY <1>4, <1>6, ShapedStays
  <2>2. "fill" \in AtWork \ {"set"} /\ at[g].pc \in AtWork \ {"set"}
    BY <1>2 DEF AtWork
  <2>3. Shaped(g[1], [at[g] EXCEPT !.pc = "fill", !.client = at[g].client], Len(caches), regcache, known)
    BY <1>1, <1>3, <1>4, <1>6, <2>1, <2>2, PlaceShaped
  <2> QED BY <1>3, <2>3, SamePlace
<1>8. overtaken' \subseteq Goroutines
  BY <1>2, OvertakesTypes DEF ShapeInv, TypeOK
<1> HIDE DEF local, o
<1> QED BY <1>1, <1>2, <1>5, <1>7, <1>8, StepKeepsShape DEF ShapeInv, TypeOK

LEMMA StoreDetailsKeepsShape ==
  ASSUME ShapeInv, NEW g \in Detailers, StoreDetails(g)
  PROVE  ShapeInv'
<1> DEFINE o == at[g].item
           local == WithList(at[g], {o})
<1>1. g \in Goroutines /\ g[1] = "details"
  BY DetailerStage
<1>2. /\ at[g].pc = "fill" /\ at' = [at EXCEPT ![g] = local]
      /\ SetSizeAndDetails(at[g].client, o)
      /\ overtaken' = overtaken \cup Overtakes
      /\ UNCHANGED <<prepared, out, missing, closed, crashed, expired>>
  BY DEF StoreDetails, In, Goes, historyVars
<1>3. /\ at[g] \in Locals /\ o \in Objects /\ at[g].source \in Sources
      /\ at[g].client \in 1 .. Len(caches) /\ Has(regcache, at[g].source)
  BY <1>1, <1>2, WorkShape DEF AtWork, Inputs
<1>4. CacheTypeOK /\ Shaped(g[1], at[g], Len(caches), regcache, digests) /\ Len(caches) \in Nat
  BY <1>1, LocalShape
<1>5. CacheTypeOK' /\ Grows /\ Len(caches') = Len(caches) /\ regcache' = regcache /\ digests' = digests
  BY <1>2, <1>3, <1>4, SetSizeTypes DEF SetSizeAndDetails
<1>6. o \in digests
  BY <1>2, <1>4 DEF Shaped
<1>7. Shaped(g[1], local, Len(caches), regcache, digests)
  BY <1>1, <1>3, <1>4, <1>6, OneShaped
<1>8. overtaken' \subseteq Goroutines
  BY <1>2, OvertakesTypes DEF ShapeInv, TypeOK
<1> HIDE DEF local, o
<1> QED BY <1>1, <1>2, <1>5, <1>7, <1>8, StepKeepsShape DEF ShapeInv, TypeOK

\* No goroutine moves.
LEMMA StillKeepsShape ==
  ASSUME ShapeInv, CacheTypeOK', Grows, UNCHANGED <<prepared, at, out, missing, overtaken>>,
         closed' \in BOOLEAN, crashed' \in BOOLEAN, expired' \in 0 .. MaxExpired
  PROVE  ShapeInv'
<1>1. Len(caches) \in Nat /\ Len(caches') \in Nat
  BY DEF ShapeInv, TypeOK, CacheTypeOK
<1>2. \A h \in Goroutines : Shaped(h[1], at[h], Len(caches'), regcache', digests')
  BY <1>1, ShapedStays DEF ShapeInv, Shape, Grows
<1>3. Shape'
  BY <1>2 DEF Shape
<1>4. \A h \in Goroutines : at[h].client \in 0 .. Len(caches')
  BY <1>2 DEF Shaped
<1> QED BY <1>3, <1>4 DEF ShapeInv, TypeOK

LEMMA ExpireReads ==
  ASSUME ShapeInv, NEW g \in Goroutines, at[g].pc \in {"get", "set"}
  PROVE  Reads(g) \subseteq Dirs \cup Images \cup Tags
<1>1. Shaped(g[1], at[g], Len(caches), regcache, digests)
  BY LocalShape
<1>2. at[g].item \in Inputs(g[1])
  BY WorkShape DEF AtWork
<1>3. CASE at[g].pc = "set"
  <2>1. at[g].unset \subseteq Objects
    BY <1>1 DEF Shaped, Locals
  <2> QED BY <1>3, <2>1 DEF Reads, Objects
<1>4. CASE at[g].pc # "set" /\ g \in Listers
  BY <1>2, <1>4, ListerStage DEF Reads, Inputs
<1>5. CASE at[g].pc # "set" /\ g \notin Listers
  <2>1. g[1] = "details"
    BY <1>5 DEF Listers, Goroutines, Stages
  <2> QED BY <1>2, <1>5, <2>1 DEF Reads, Inputs, Objects
<1> QED BY <1>3, <1>4, <1>5

LEMMA ExpireChanges ==
  ASSUME ShapeInv, NEW g \in Goroutines, Expire(g)
  PROVE  CacheTypeOK' /\ Grows /\ Len(caches') = Len(caches) /\ UNCHANGED <<URLs, regcache>>
<1>1. CacheTypeOK /\ at[g].client \in 1 .. Len(caches)
  BY LocalShape, WorkShape DEF Expire, AtWork
<1>2. PICK x \in Dirs \cup Images \cup Tags : ExpireEntry(at[g].client, x)
  BY ExpireReads DEF Expire
<1> QED BY <1>1, <1>2, ExpireTypes

LEMMA ExpireKeepsShape ==
  ASSUME ShapeInv, NEW g \in Goroutines, Expire(g)
  PROVE  ShapeInv'
<1>1. CacheTypeOK' /\ Grows
  BY ExpireChanges
<1>2. expired' \in 0 .. MaxExpired
  BY ResolveAssumption DEF Expire, ShapeInv, TypeOK
<1>3. UNCHANGED <<prepared, at, out, missing, closed, crashed, overtaken>>
  BY DEF Expire, historyVars
<1> QED BY <1>1, <1>2, <1>3, StillKeepsShape DEF ShapeInv, TypeOK

LEMMA RestKeepsShape ==
  ASSUME ShapeInv,
         \/ Close \/ UNCHANGED vars
         \/ \E g \in Goroutines : MapRace(g)
  PROVE  ShapeInv'
<1>1. /\ UNCHANGED <<cacheVars, prepared, at, out, missing, expired, overtaken>>
      /\ closed' \in BOOLEAN /\ crashed' \in BOOLEAN
  BY DEF Close, MapRace, vars, historyVars, ShapeInv, TypeOK
<1>2. CacheTypeOK' /\ Grows
  BY <1>1, NothingChanges DEF ShapeInv, TypeOK
<1> QED BY <1>1, <1>2, StillKeepsShape DEF ShapeInv, TypeOK

\* The clients of the destinations are in the map, one each.
LEMMA InitCaches ==
  ASSUME Init
  PROVE  /\ CacheTypeOK /\ Len(caches) = Len(Preflight) /\ DOMAIN Preflight = 1 .. Len(Preflight)
         /\ \A k \in DOMAIN Preflight : Preflight[k] \in Registries /\ caches[k] = NewClient(Preflight[k])
         /\ \A r \in Registries : regcache[r] = 0 => \A k \in DOMAIN Preflight : Preflight[k] # r
<1>1. /\ Len(Preflight) \in Nat /\ DOMAIN Preflight = 1 .. Len(Preflight)
      /\ \A k \in DOMAIN Preflight : Preflight[k] \in Registries
  BY ResolveAssumption, LenProperties, ElementOfSeq
<1>2. caches = [k \in 1 .. Len(Preflight) |-> NewClient(Preflight[k])]
  BY <1>1 DEF Init, CacheInit
<1>3. caches \in Seq(Cache) /\ Len(caches) = Len(Preflight)
  BY <1>1, <1>2, NewClientTypes, IsASeq
<1>4. \A r \in Registries :
        \/ regcache[r] = 0 /\ \A k \in DOMAIN Preflight : Preflight[k] # r
        \/ regcache[r] \in DOMAIN Preflight
  <2> TAKE r \in Registries
  <2>1. regcache[r] = IF \E k \in DOMAIN Preflight : Preflight[k] = r
                      THEN CHOOSE k \in DOMAIN Preflight : Preflight[k] = r ELSE 0
    BY DEF Init, CacheInit
  <2> QED BY <2>1
<1>5. \A r \in Registries : regcache[r] \in 0 .. Len(caches) /\ (regcache[r] \in DOMAIN Preflight => regcache[r] # 0)
  <2>1. /\ \A n \in Nat : 0 \in 0 .. n /\ \A x \in 1 .. n : x \in 0 .. n /\ x # 0
        /\ 0 \notin DOMAIN Preflight
    BY <1>1
  <2> TAKE r \in Registries
  <2> QED BY <1>1, <1>3, <1>4, <2>1
<1>6. regcache \in [Registries -> 0 .. Len(caches)]
  BY <1>5 DEF Init, CacheInit
<1>7. CacheTypeOK
  BY <1>3, <1>6 DEF CacheTypeOK, Init, CacheInit
<1> QED BY <1>1, <1>2, <1>3, <1>4, <1>5, <1>7

LEMMA InitShape ==
  ASSUME Init
  PROVE  ShapeInv
<1>1. CacheTypeOK /\ Len(caches) \in Nat
  BY InitCaches DEF CacheTypeOK
<1>2. \A g \in Goroutines : Shaped(g[1], at[g], Len(caches), regcache, digests)
  BY <1>1, IdleShaped DEF Init
<1>3. Len(SourceDirs) \in Nat /\ MaxExpired \in Nat
  BY ResolveAssumption, LenProperties
<1>4. Idle \in Locals /\ Idle.client = 0
  BY DEF Idle, Locals, Places
<1>5. at \in [Goroutines -> Locals] /\ \A g \in Goroutines : at[g].client \in 0 .. Len(caches)
  BY <1>1, <1>4 DEF Init
<1>6. Shape
  BY <1>2 DEF Shape
<1>7. prepared \in 0 .. Len(SourceDirs) /\ expired \in 0 .. MaxExpired
  BY <1>3 DEF Init
<1>8. TypeOK
  BY <1>1, <1>5, <1>7 DEF TypeOK, Init
<1> QED BY <1>6, <1>8 DEF ShapeInv

\* The steps of the specification, by name.
LEMMA NextKeepsShape ==
  ASSUME ShapeInv, [Next]_vars
  PROVE  ShapeInv'
<1>1. ASSUME NEW c \in Chains, Prepare(c)
      PROVE  ShapeInv'
  BY <1>1, PrepareKeepsShape
<1>2. ASSUME NEW c \in Chains, NEW x, SendImage(c, x)
      PROVE  ShapeInv'
  <2> DEFINE g == <<"dirs", c>>
             h == <<"tags", c>>
  <2>1. /\ g \in Goroutines /\ h \in Goroutines /\ g[1] \in {"dirs", "tags"} /\ h[1] # "dirs" /\ g # h
        /\ Inputs(h[1]) = Outputs(g[1])
    BY DEF Goroutines, Stages, Inputs, Outputs
  <2>2. Sends(g, x, h)
    BY <1>2 DEF SendImage
  <2> HIDE DEF g, h
  <2> QED BY <2>1, <2>2, SendKeepsShape
<1>3. ASSUME NEW c \in Chains, NEW x, SendTag(c, x)
      PROVE  ShapeInv'
  <2> DEFINE g == <<"tags", c>>
             h == <<"details", c>>
  <2>1. /\ g \in Goroutines /\ h \in Goroutines /\ g[1] \in {"dirs", "tags"} /\ h[1] # "dirs" /\ g # h
        /\ Inputs(h[1]) = Outputs(g[1])
    BY DEF Goroutines, Stages, Inputs, Outputs
  <2>2. Sends(g, x, h)
    BY <1>3 DEF SendTag
  <2> HIDE DEF g, h
  <2> QED BY <2>1, <2>2, SendKeepsShape
<1>4. ASSUME NEW c \in Chains, Rejected(c)
      PROVE  ShapeInv'
  <2>1. <<"dirs", c>> \in Goroutines /\ {"lookup", "get"} \subseteq AtWork
    BY DEF Goroutines, Stages, AtWork
  <2> QED BY <1>4, <2>1, LosesKeepsShape DEF Rejected
<1>5. ASSUME NEW g \in Listers \cup Detailers, Fails(g)
      PROVE  ShapeInv'
  <2>1. g \in Goroutines /\ "query" \in AtWork
    BY ListerStage, DetailerStage DEF AtWork
  <2> QED BY <1>5, <2>1, LosesKeepsShape DEF Fails
<1>6. CASE Channel
  BY <1>1, <1>2, <1>3, <1>6, SendDetailsKeepsShape, LeaveKeepsShape, RestKeepsShape DEF Channel
<1>7. CASE Lookup
  BY <1>7, LookupKeepsShape, RestKeepsShape DEF Lookup
<1>8. CASE Resolve
  <2>1. ASSUME NEW g \in Listers,
               \/ ListHit(g) \/ ListMissed(g) \/ ListAnswered(g)
               \/ \E o \in at[g].unset : LookAt(g, o)
               \/ \E o \in at[g].turn : Replace(g, o)
        PROVE  ShapeInv'
    BY <2>1, ListerStage, ListHitKeepsShape, QueryKeepsShape, ListAnsweredKeepsShape,
       LookAtKeepsShape, ReplaceKeepsShape
  <2>2. ASSUME NEW g \in Detailers,
               \/ DetailsKnown(g) \/ DetailsHit(g) \/ DetailsMissed(g)
               \/ DetailsAnswered(g) \/ StoreDetails(g)
        PROVE  ShapeInv'
    BY <2>2, DetailerStage, GetsDetailsKeepsShape, QueryKeepsShape, DetailsAnsweredKeepsShape,
       StoreDetailsKeepsShape
  <2> QED BY <1>4, <1>5, <1>8, <2>1, <2>2, ExpireKeepsShape DEF Resolve
<1>9. CASE Halted \/ UNCHANGED vars
  BY <1>9, RestKeepsShape DEF Halted
<1> QED BY <1>6, <1>7, <1>8, <1>9 DEF Next

\* Whatever the registry holds, nil pointers are not read: a goroutine has a
\* client and an item wherever it uses them, and a pointer to an object.
THEOREM TypeCorrect == Spec => []TypeOK
<1>1. Init => ShapeInv
  BY InitShape
<1>2. ShapeInv /\ [Next]_vars => ShapeInv'
  BY NextKeepsShape
<1>3. ShapeInv => TypeOK
  BY DEF ShapeInv
<1> QED BY <1>1, <1>2, <1>3, PTL DEF Spec

\* A tag that leaves the last stage has a digest (run.go: resolveTagDetails
\* after ResolveTagDetails of a client), with any number of chains.
THEOREM DigestIsKnown == Spec => []DigestKnown
<1>1. Init => ShapeInv
  BY InitShape
<1>2. ShapeInv /\ [Next]_vars => ShapeInv'
  BY NextKeepsShape
<1>3. ShapeInv => DigestKnown
  <2> SUFFICES ASSUME ShapeInv, NEW g \in Detailers, at[g].pc = "send"
               PROVE  at[g].rest \subseteq digests
    BY DEF DigestKnown
  <2>1. Shaped("details", at[g], Len(caches), regcache, digests)
    BY DetailerStage DEF ShapeInv, Shape
  <2> QED BY <2>1 DEF Shaped
<1> QED BY <1>1, <1>2, <1>3, PTL DEF Spec

-----------------------------------------------------------------------------
(* The map of clients *)

\* No client is made or registered, and nobody starts or stops to do it.
Steady ==
  /\ UNCHANGED <<URLs, regcache, crashed>>
  /\ \A h \in Goroutines : at[h].pc = "insert" \/ at'[h].pc = "insert" => at'[h] = at[h]

LEMMA OneSteady ==
  ASSUME ShapeInv, NEW g \in Goroutines, NEW local, at' = [at EXCEPT ![g] = local],
         at[g].pc # "insert", local.pc # "insert",
         UNCHANGED <<URLs, regcache, crashed>>
  PROVE  Steady
<1>1. at \in [Goroutines -> Locals]
  BY DEF ShapeInv, TypeOK
<1> QED BY <1>1 DEF Steady

LEMMA CallSteady ==
  ASSUME ShapeInv, NEW g \in Goroutines, NEW from, NEW local, Calls(g, from, local),
         from # "insert", local.pc # "insert", UNCHANGED <<URLs, regcache>>
  PROVE  Steady
<1>1. at' = [at EXCEPT ![g] = local] /\ at[g].pc # "insert" /\ UNCHANGED crashed
  BY DEF Calls, Goes, In
<1> QED BY <1>1, OneSteady

LEMMA PlacesAfter ==
  ASSUME NEW local \in Locals, NEW list, NEW s, NEW x
  PROVE  /\ Idle.pc = "receive" /\ Received(s, x, "lookup").pc = "lookup"
         /\ [Idle EXCEPT !.pc = "done"].pc = "done"
         /\ WithList(local, list).pc \in {"receive", "send"}
         /\ Sent(local, x).pc \in {"receive", local.pc}
         /\ \A left, looked : Stored(local, left, looked).pc \in {"receive", "send", local.pc}
         /\ \A place : [local EXCEPT !.pc = place].pc = place
BY DEF Idle, Received, WithList, Sent, Stored, Locals

LEMMA LocalTypes ==
  ASSUME ShapeInv, NEW g \in Goroutines
  PROVE  at[g] \in Locals /\ Len(caches) \in Nat /\ CacheTypeOK
BY DEF ShapeInv, TypeOK, CacheTypeOK

LEMMA SendSteady ==
  ASSUME ShapeInv, NEW g \in Goroutines, NEW h \in Goroutines, NEW x, Sends(g, x, h)
  PROVE  Steady
<1>1. /\ at' = [at EXCEPT ![g] = Sent(@, x), ![h] = Received(at[g].source, x, "lookup")]
      /\ at[g].pc = "send" /\ at[h].pc = "receive" /\ UNCHANGED <<URLs, regcache, crashed>>
  BY DEF Sends, In, cacheVars, URLs
<1>2. at \in [Goroutines -> Locals]
  BY DEF ShapeInv, TypeOK
<1>3. Sent(at[g], x).pc \in {"receive", "send"} /\ Received(at[g].source, x, "lookup").pc = "lookup"
  BY <1>1, <1>2, PlacesAfter
<1> HIDE DEF Sent, Received
<1>4. \A e \in Goroutines : at[e].pc = "insert" \/ at'[e].pc = "insert" => at'[e] = at[e]
  BY <1>1, <1>2, <1>3
<1> QED BY <1>1, <1>4 DEF Steady

LEMMA ChannelSteady ==
  ASSUME ShapeInv, Channel
  PROVE  Steady
<1>1. ASSUME NEW c \in Chains, Prepare(c)
      PROVE  Steady
  <2> DEFINE g == <<"dirs", c>>
             local == Received(prepared + 1, SourceDirs[prepared + 1], "lookup")
  <2>1. /\ at' = [at EXCEPT ![g] = local] /\ at[g].pc = "receive"
        /\ UNCHANGED <<URLs, regcache, crashed>>
    BY <1>1 DEF Prepare, Goes, In, cacheVars, URLs
  <2>2. g \in Goroutines
    BY DEF Goroutines, Stages
  <2>3. local.pc = "lookup"
    BY <2>2, LocalTypes, PlacesAfter
  <2> HIDE DEF g, local
  <2> QED BY <2>1, <2>2, <2>3, OneSteady
<1>2. ASSUME NEW c \in Chains, NEW x, SendImage(c, x) \/ SendTag(c, x)
      PROVE  Steady
  <2>1. <<"dirs", c>> \in Goroutines /\ <<"tags", c>> \in Goroutines /\ <<"details", c>> \in Goroutines
    BY DEF Goroutines, Stages
  <2> QED BY <1>2, <2>1, SendSteady DEF SendImage, SendTag
<1>3. ASSUME NEW c \in Chains, NEW x, SendDetails(c, x)
      PROVE  Steady
  <2> DEFINE g == <<"details", c>>
             local == Sent(at[g], x)
  <2>1. /\ at' = [at EXCEPT ![g] = local] /\ at[g].pc = "send"
        /\ UNCHANGED <<URLs, regcache, crashed>>
    BY <1>3 DEF SendDetails, Goes, In, cacheVars, URLs
  <2>2. g \in Goroutines
    BY DEF Goroutines, Stages
  <2>3. local.pc # "insert"
    BY <2>1, <2>2, LocalTypes, PlacesAfter
  <2> HIDE DEF g, local
  <2> QED BY <2>1, <2>2, <2>3, OneSteady
<1>4. ASSUME NEW g \in Goroutines, Leave(g)
      PROVE  Steady
  <2>1. /\ at' = [at EXCEPT ![g] = [Idle EXCEPT !.pc = "done"]] /\ at[g].pc = "receive"
        /\ UNCHANGED <<URLs, regcache, crashed>>
    BY <1>4 DEF Leave, Goes, In, cacheVars, URLs
  <2>2. [Idle EXCEPT !.pc = "done"].pc = "done"
    BY LocalTypes, PlacesAfter
  <2> QED BY <2>1, <2>2, OneSteady
<1>5. CASE Close
  BY <1>5 DEF Close, Steady, cacheVars, URLs
<1> QED BY <1>1, <1>2, <1>3, <1>4, <1>5 DEF Channel

LEMMA LosesSteady ==
  ASSUME ShapeInv, NEW g \in Goroutines, NEW from, from # "insert", Loses(g, from, Idle)
  PROVE  Steady
<1>1. /\ at' = [at EXCEPT ![g] = Idle] /\ at[g].pc # "insert" /\ UNCHANGED <<URLs, regcache, crashed>>
  BY DEF Loses, Goes, In, cacheVars, URLs
<1>2. Idle.pc # "insert"
  BY DEF Idle
<1> QED BY <1>1, <1>2, OneSteady

LEMMA ListSteady ==
  ASSUME ShapeInv, NEW g \in Listers,
         \/ ListHit(g) \/ ListMissed(g) \/ ListAnswered(g)
         \/ \E o \in at[g].unset : LookAt(g, o)
         \/ \E o \in at[g].turn : Replace(g, o)
  PROVE  Steady
<1>1. g \in Goroutines /\ at[g] \in Locals /\ CacheTypeOK
  BY ListerStage, LocalTypes
<1>2. CASE ListHit(g)
  <2> DEFINE local == WithList(at[g], ListOf(Listed(g), at[g].item))
  <2>1. Calls(g, "get", local) /\ UNCHANGED <<URLs, regcache>>
    BY <1>2 DEF ListHit, cacheVars, URLs
  <2>2. local.pc # "insert"
    BY <1>1, PlacesAfter
  <2> HIDE DEF local
  <2> QED BY <1>1, <2>1, <2>2, CallSteady
<1>3. CASE ListMissed(g)
  <2> DEFINE local == [at[g] EXCEPT !.pc = "query"]
  <2>1. Calls(g, "get", local) /\ UNCHANGED <<URLs, regcache>>
    BY <1>3 DEF ListMissed, cacheVars, URLs
  <2>2. local.pc # "insert"
    BY <1>1, PlacesAfter
  <2> HIDE DEF local
  <2> QED BY <1>1, <2>1, <2>2, CallSteady
<1>4. CASE ListAnswered(g)
  <2> DEFINE x == at[g].item
             list == ListOf(listings + 1, x)
             local == IF x \in Dirs \/ list = {} THEN WithList(at[g], list)
                      ELSE [at[g] EXCEPT !.pc = "set", !.rest = list, !.unset = list]
  <2>1. Calls(g, "query", local) /\ SetList(at[g].client, x) /\ at[g].pc = "query"
    BY <1>4 DEF ListAnswered, Calls, In
  <2>2. local.pc # "insert"
    <3>1. WithList(at[g], list).pc # "insert"
      BY <1>1, PlacesAfter
    <3>2. [at[g] EXCEPT !.pc = "set", !.rest = list, !.unset = list].pc = "set"
      BY <1>1 DEF Locals
    <3> QED BY <3>1, <3>2
  <2>3. at[g].client \in 1 .. Len(caches) /\ x \in Dirs \cup Images
    BY <1>1, <2>1, WorkShape, ListerStage DEF AtWork, Inputs
  <2>4. UNCHANGED <<URLs, regcache>>
    BY <1>1, <2>1, <2>3, SetListTypes
  <2> HIDE DEF local
  <2> QED BY <1>1, <2>1, <2>2, <2>4, CallSteady
<1>5. ASSUME NEW o \in at[g].unset, LookAt(g, o)
      PROVE  Steady
  <2> DEFINE local == Stored(at[g], at[g].unset \ {o}, IF Richer(at[g].client, o) THEN {} ELSE {o})
  <2>1. Calls(g, "set", local) /\ UNCHANGED <<URLs, regcache>> /\ at[g].pc = "set"
    BY <1>5 DEF LookAt, Calls, In, cacheVars, URLs
  <2>2. local.pc # "insert"
    BY <1>1, <2>1, PlacesAfter
  <2> HIDE DEF local
  <2> QED BY <1>1, <2>1, <2>2, CallSteady
<1>6. ASSUME NEW o \in at[g].turn, Replace(g, o)
      PROVE  Steady
  <2> DEFINE local == Stored(at[g], at[g].unset, {})
  <2>1. /\ at' = [at EXCEPT ![g] = local] /\ at[g].pc = "set" /\ SetDetails(at[g].client, o)
        /\ UNCHANGED crashed
    BY <1>6 DEF Replace, Goes, In
  <2>2. local.pc # "insert"
    BY <1>1, <2>1, PlacesAfter
  <2>3. Shaped(g[1], at[g], Len(caches), regcache, digests)
    BY <1>1, LocalShape
  <2>4. at[g].client \in 1 .. Len(caches) /\ o \in Objects
    BY <1>1, <2>1, <2>3, WorkShape DEF AtWork, Shaped, Locals
  <2>5. UNCHANGED <<URLs, regcache>>
    BY <1>1, <2>1, <2>4, SetDetailsTypes
  <2> HIDE DEF local
  <2> QED BY <1>1, <2>1, <2>2, <2>5, OneSteady
<1> QED BY <1>2, <1>3, <1>4, <1>5, <1>6

LEMMA DetailsSteady ==
  ASSUME ShapeInv, NEW g \in Detailers,
         \/ DetailsKnown(g) \/ DetailsHit(g) \/ DetailsMissed(g)
         \/ DetailsAnswered(g) \/ StoreDetails(g)
  PROVE  Steady
<1>1. g \in Goroutines /\ at[g] \in Locals /\ CacheTypeOK
  BY DetailerStage, LocalTypes
<1>2. ASSUME NEW o, GetsDetails(g, o)
      PROVE  Steady
  <2> DEFINE local == WithList(at[g], {o})
  <2>1. Calls(g, "get", local) /\ UNCHANGED <<URLs, regcache>>
    BY <1>2 DEF GetsDetails, cacheVars, URLs
  <2>2. local.pc # "insert"
    BY <1>1, PlacesAfter
  <2> HIDE DEF local
  <2> QED BY <1>1, <2>1, <2>2, CallSteady
<1>3. CASE DetailsMissed(g)
  <2> DEFINE local == [at[g] EXCEPT !.pc = "query"]
  <2>1. Calls(g, "get", local) /\ UNCHANGED <<URLs, regcache>>
    BY <1>3 DEF DetailsMissed, cacheVars, URLs
  <2>2. local.pc # "insert"
    BY <1>1, PlacesAfter
  <2> HIDE DEF local
  <2> QED BY <1>1, <2>1, <2>2, CallSteady
<1>4. CASE DetailsAnswered(g)
  <2> DEFINE local == [at[g] EXCEPT !.pc = "fill"]
  <2>1. /\ at' = [at EXCEPT ![g] = local] /\ at[g].pc = "query"
        /\ UNCHANGED <<URLs, regcache, crashed>>
    BY <1>4 DEF DetailsAnswered, SetDigest, Goes, In, URLs
  <2>2. local.pc # "insert"
    BY <1>1, PlacesAfter
  <2> HIDE DEF local
  <2> QED BY <1>1, <2>1, <2>2, OneSteady
<1>5. CASE StoreDetails(g)
  <2> DEFINE local == WithList(at[g], {at[g].item})
  <2>1. /\ at' = [at EXCEPT ![g] = local] /\ at[g].pc = "fill" /\ UNCHANGED crashed
        /\ SetSizeAndDetails(at[g].client, at[g].item)
    BY <1>5 DEF StoreDetails, Goes, In
  <2>2. local.pc # "insert"
    BY <1>1, PlacesAfter
  <2>3. at[g].client \in 1 .. Len(caches) /\ at[g].item \in Objects
    BY <1>1, <2>1, WorkShape, DetailerStage DEF AtWork, Inputs
  <2>4. UNCHANGED <<URLs, regcache>>
    BY <1>1, <2>1, <2>3, SetSizeTypes
  <2> HIDE DEF local
  <2> QED BY <1>1, <2>1, <2>2, <2>4, OneSteady
<1> QED BY <1>2, <1>3, <1>4, <1>5 DEF DetailsKnown, DetailsHit

\* Only a goroutine that finds no client, or one that has made it, changes that.
LEMMA NextSteady ==
  ASSUME ShapeInv, [Next]_vars
  PROVE  \/ Steady
         \/ \E g \in Goroutines : LookupMisses(g) \/ Insert(g)
         \/ \E g \in Goroutines : MapRace(g)
<1>1. ASSUME NEW g \in Goroutines, LookupFinds(g)
      PROVE  Steady
  <2> DEFINE local == [at[g] EXCEPT !.pc = "get", !.client = regcache[BaseURL(g)]]
  <2>1. Calls(g, "lookup", local) /\ UNCHANGED <<URLs, regcache>>
    BY <1>1 DEF LookupFinds, cacheVars, URLs
  <2>2. local.pc # "insert"
    BY LocalTypes DEF Locals
  <2> HIDE DEF local
  <2> QED BY <2>1, <2>2, CallSteady
<1>2. ASSUME NEW g \in Goroutines, Expire(g)
      PROVE  Steady
  BY <1>2, ExpireChanges DEF Expire, Steady
<1>3. ASSUME NEW c \in Chains, Rejected(c)
      PROVE  Steady
  <2>1. <<"dirs", c>> \in Goroutines
    BY DEF Goroutines, Stages
  <2> QED BY <1>3, <2>1, LosesSteady DEF Rejected
<1>4. ASSUME NEW g \in Listers \cup Detailers, Fails(g)
      PROVE  Steady
  <2>1. g \in Goroutines
    BY ListerStage, DetailerStage
  <2> QED BY <1>4, <2>1, LosesSteady DEF Fails
<1>5. CASE Resolve
  BY <1>2, <1>3, <1>4, <1>5, ListSteady, DetailsSteady DEF Resolve
<1>6. CASE Halted \/ UNCHANGED vars
  BY <1>6 DEF Halted, vars, cacheVars, Steady, URLs
<1>7. CASE Channel
  BY <1>7, ChannelSteady
<1>8. CASE Lookup
  BY <1>1, <1>8 DEF Lookup
<1> QED BY <1>5, <1>6, <1>7, <1>8 DEF Next

LEMMA InsertsForSource ==
  ASSUME ShapeInv, NEW g \in Goroutines, at[g].pc \in {"lookup", "insert"}
  PROVE  /\ at[g].source \in Sources /\ BaseURL(g) \in Registries
         /\ BaseURL(g) = RegistryOf[SourceDirs[at[g].source]]
<1>1. at[g].source \in Sources
  BY LocalShape DEF Shaped, AtWork
<1> QED BY <1>1, SourceRegistry DEF BaseURL

\* A goroutine makes a client of r or registers one.
LEMMA LookupChanges ==
  ASSUME ShapeInv, NEW g \in Goroutines, LookupMisses(g) \/ Insert(g)
  PROVE  /\ at[g].pc \in {"lookup", "insert"} /\ UNCHANGED crashed
         /\ at'[g].source = at[g].source /\ \A h \in Goroutines : h # g => at'[h] = at[h]
         /\ LookupMisses(g) => /\ at[g].pc = "lookup" /\ at'[g].pc = "insert"
                               /\ regcache[BaseURL(g)] = 0 /\ MakeClient(BaseURL(g))
         /\ Insert(g) => /\ at[g].pc = "insert" /\ at'[g].pc = "get"
                         /\ Register(BaseURL(g), at[g].client) /\ at[g].client # 0
<1>1. at \in [Goroutines -> Locals] /\ at[g] \in Locals
  BY DEF ShapeInv, TypeOK
<1>2. CASE LookupMisses(g)
  <2> DEFINE local == [at[g] EXCEPT !.pc = "insert", !.client = Len(caches) + 1]
  <2>1. /\ at' = [at EXCEPT ![g] = local] /\ at[g].pc = "lookup" /\ UNCHANGED crashed
        /\ regcache[BaseURL(g)] = 0 /\ MakeClient(BaseURL(g))
    BY <1>2 DEF LookupMisses, Calls, Goes, In
  <2>2. local.pc = "insert" /\ local.source = at[g].source
    BY <1>1 DEF Locals
  <2> HIDE DEF local
  <2>3. at'[g] = local /\ \A h \in Goroutines : h # g => at'[h] = at[h]
    BY <1>1, <2>1
  <2>4. ~ Insert(g)
    BY <2>1 DEF Insert, Calls, In
  <2> QED BY <2>1, <2>2, <2>3, <2>4
<1>3. CASE Insert(g)
  <2> DEFINE local == [at[g] EXCEPT !.pc = "get"]
  <2>1. /\ at' = [at EXCEPT ![g] = local] /\ at[g].pc = "insert" /\ UNCHANGED crashed
        /\ Register(BaseURL(g), at[g].client)
    BY <1>3 DEF Insert, Calls, Goes, In
  <2>2. local.pc = "get" /\ local.source = at[g].source
    BY <1>1 DEF Locals
  <2> HIDE DEF local
  <2>3. at'[g] = local /\ \A h \in Goroutines : h # g => at'[h] = at[h]
    BY <1>1, <2>1
  <2>4. ~ LookupMisses(g)
    BY <2>1 DEF LookupMisses, Calls, In
  <2>5. at[g].client # 0
    BY <2>1, LocalShape DEF Shaped, AtWork
  <2> QED BY <2>1, <2>2, <2>3, <2>4, <2>5
<1> QED BY <1>2, <1>3

LEMMA SettledStays ==
  ASSUME ShapeInv, [Next]_vars, NEW r \in Registries, Settled(r)
  PROVE  Settled(r)' /\ regcache'[r] = regcache[r]
<1>1. /\ regcache[r] # 0 /\ \A g \in Goroutines : at[g].pc = "insert" => BaseURL(g) # r
      /\ regcache \in [Registries -> 0 .. Len(caches)]
  BY DEF Settled, ShapeInv, TypeOK, CacheTypeOK
<1>2. CASE Steady
  <2>1. \A g \in Goroutines : at'[g].pc = "insert" => at[g].pc = "insert" /\ BaseURL(g)' = BaseURL(g)
    BY <1>2 DEF Steady, BaseURL
  <2> QED BY <1>1, <1>2, <2>1 DEF Settled, Steady
<1>3. ASSUME NEW g \in Goroutines, LookupMisses(g) \/ Insert(g)
      PROVE  Settled(r)' /\ regcache'[r] = regcache[r]
  <2>1. /\ at'[g].source = at[g].source /\ \A h \in Goroutines : h # g => at'[h] = at[h]
        /\ BaseURL(g) # r /\ regcache'[r] = regcache[r]
    <3>1. CASE LookupMisses(g)
      BY <1>1, <3>1, LookupChanges DEF MakeClient
    <3>2. CASE Insert(g)
      BY <1>1, <3>2, LookupChanges DEF Register
    <3> QED BY <1>3, <3>1, <3>2, LookupChanges
  <2>2. BaseURL(g)' # r /\ \A h \in Goroutines : h # g => BaseURL(h)' = BaseURL(h)
    BY <2>1 DEF BaseURL
  <2>3. \A h \in Goroutines : at'[h].pc = "insert" => BaseURL(h)' # r
    BY <1>1, <2>1, <2>2
  <2> QED BY <1>1, <2>1, <2>3 DEF Settled
<1>4. ASSUME NEW g \in Goroutines, MapRace(g)
      PROVE  Settled(r)' /\ regcache'[r] = regcache[r]
  BY <1>1, <1>4 DEF MapRace, cacheVars, Settled, BaseURL
<1> QED BY <1>2, <1>3, <1>4, NextSteady

\* Once a registry has a client and nobody is about to insert one, it keeps
\* that, whatever is done for the others; once all of the sources have, nothing
\* is written to the map, so nobody reads it at the same time (registry.go:
\* FromImageRef).
THEOREM MapSettles == Spec => SettledForGood
<1> DEFINE All == \A s \in Sources : Settled(RegistryOf[SourceDirs[s]])
<1>1. Init => ShapeInv
  BY InitShape
<1>2. ShapeInv /\ [Next]_vars => ShapeInv'
  BY NextKeepsShape
<1>3. ShapeInv /\ [Next]_vars =>
        [/\ \A r \in Registries : Settled(r) => Settled(r)' /\ regcache'[r] = regcache[r]
         /\ All => UNCHANGED <<regcache, crashed>>]_vars
  <2>1. ASSUME ShapeInv, [Next]_vars, All
        PROVE  UNCHANGED <<regcache, crashed>>
    <3>1. \A g \in Goroutines :
            /\ at[g].pc # "insert"
            /\ at[g].pc = "lookup" => regcache[BaseURL(g)] # 0
      BY <2>1, InsertsForSource DEF Settled
    <3>2. ~ \E g \in Goroutines : LookupMisses(g) \/ Insert(g)
      BY <2>1, <3>1, LookupChanges
    <3>3. ~ \E g \in Goroutines : MapRace(g)
      BY <3>1 DEF MapRace, In
    <3> QED BY <2>1, <3>2, <3>3, NextSteady DEF Steady
  <2> QED BY <2>1, SettledStays
<1> QED BY <1>1, <1>2, <1>3, PTL DEF Spec, SettledForGood

\* The chains whose first goroutine has made a client of r that is not in the
\* map.
Makers(r) ==
  {c \in Chains : at[<<"dirs", c>>].pc = "insert" /\ BaseURL(<<"dirs", c>>) = r}

\* Each client of r was made by a chain of its own; while the map has none all
\* of them are still at it.  The preflight checks made one for all chains.
MadeBy(r) ==
  \E made \in SUBSET Chains :
    /\ Makers(r) \subseteq made /\ Cardinality(Clients(r)) = Cardinality(made)
    /\ regcache[r] = 0 => made = Makers(r)

ClientsInv == ShapeInv /\ \A r \in Registries : MadeBy(r)

LEMMA ClientsFinite ==
  ASSUME CacheTypeOK, NEW r
  PROVE  /\ IsFiniteSet(Clients(r)) /\ Clients(r) = {k \in 1 .. Len(caches) : URLs[k] = r}
         /\ Len(caches) \in Nat
<1>1. Len(caches) \in Nat /\ DOMAIN caches = 1 .. Len(caches)
  BY LenProperties DEF CacheTypeOK
<1>2. IsFiniteSet(1 .. Len(caches))
  BY <1>1, FS_Interval
<1>3. Clients(r) \subseteq 1 .. Len(caches)
  BY <1>1 DEF Clients
<1> QED BY <1>1, <1>2, <1>3, FS_Subset DEF Clients, URLs

LEMMA SteadyClients ==
  ASSUME CacheTypeOK, CacheTypeOK', UNCHANGED URLs, NEW r
  PROVE  Clients(r)' = Clients(r)
<1>1. 1 .. Len(caches) = DOMAIN URLs /\ 1 .. Len(caches') = DOMAIN URLs'
  BY DEF URLs
<1>2. Clients(r) = {k \in 1 .. Len(caches) : URLs[k] = r}
  BY ClientsFinite
<1>3. Clients(r)' = {k \in 1 .. Len(caches') : caches'[k].baseURL = r}
  BY LenProperties DEF Clients, CacheTypeOK
<1>4. Clients(r)' = {k \in DOMAIN URLs' : URLs'[k] = r}
  BY <1>3 DEF URLs
<1> QED BY <1>1, <1>2, <1>4

LEMMA MakerIsFirst ==
  ASSUME ShapeInv, NEW g \in Goroutines,
         at[g].pc = "insert" \/ (at[g].pc = "lookup" /\ regcache[BaseURL(g)] = 0)
  PROVE  g[1] = "dirs" /\ g[2] \in Chains /\ g = <<"dirs", g[2]>>
<1>1. Shaped(g[1], at[g], Len(caches), regcache, digests)
  BY LocalShape
<1>2. g[1] = "dirs"
  BY <1>1 DEF Shaped, Has, BaseURL
<1> QED BY <1>2 DEF Goroutines, Stages

\* The clients after one more of r.
LEMMA OneMoreClient ==
  ASSUME CacheTypeOK, NEW r \in Registries, MakeClient(r), NEW q
  PROVE  Clients(q)' = IF q = r THEN Clients(q) \cup {Len(caches) + 1} ELSE Clients(q)
<1> DEFINE n == Len(caches)
<1>1. n \in Nat /\ DOMAIN caches = 1 .. n /\ caches \in Seq(Cache) /\ NewClient(r) \in Cache
  BY LenProperties, NewClientTypes DEF CacheTypeOK
<1>2. /\ Len(caches') = n + 1 /\ caches'[n + 1] = NewClient(r) /\ DOMAIN caches' = 1 .. n + 1
      /\ \A k \in 1 .. n : caches'[k] = caches[k]
  BY <1>1, AppendProperties, LenProperties DEF MakeClient
<1> HIDE DEF n
<1>3. caches'[n + 1].baseURL = r
  BY <1>2, NewClientTypes
<1>4. 1 .. n + 1 = (1 .. n) \cup {n + 1}
  BY <1>1
<1>5. Clients(q)' = {k \in (1 .. n) \cup {n + 1} : caches'[k].baseURL = q}
  BY <1>2, <1>4 DEF Clients
<1>6. Clients(q) = {k \in 1 .. n : caches[k].baseURL = q}
  BY <1>1 DEF Clients
<1> QED BY <1>2, <1>3, <1>5, <1>6 DEF n

LEMMA LookupKeepsClients ==
  ASSUME ClientsInv, NEW g \in Goroutines, LookupMisses(g) \/ Insert(g), NEW q \in Registries
  PROVE  MadeBy(q)'
<1>1. /\ ShapeInv /\ at \in [Goroutines -> Locals] /\ CacheTypeOK
      /\ \A c \in Chains : <<"dirs", c>> \in Goroutines
  BY DEF ClientsInv, ShapeInv, TypeOK, Goroutines, Stages
<1>2. PICK made \in SUBSET Chains :
        /\ Makers(q) \subseteq made /\ Cardinality(Clients(q)) = Cardinality(made)
        /\ regcache[q] = 0 => made = Makers(q)
  BY DEF ClientsInv, MadeBy
<1> DEFINE r == BaseURL(g)
           c == g[2]
<1>3. c \in Chains /\ g = <<"dirs", c>>
  BY <1>1, LookupChanges, MakerIsFirst
<1>4. r \in Registries
  BY <1>1, LookupChanges, InsertsForSource
<1>5. /\ \A h \in Goroutines : h # g => at'[h] = at[h] /\ BaseURL(h)' = BaseURL(h)
      /\ BaseURL(g)' = r
  BY <1>1, LookupChanges DEF BaseURL
<1>6. CASE LookupMisses(g)
  <2>1. /\ at[g].pc = "lookup" /\ at'[g].pc = "insert" /\ regcache[r] = 0 /\ MakeClient(r)
        /\ regcache' = regcache
    BY <1>1, <1>6, LookupChanges DEF MakeClient
  <2> HIDE DEF r, c
  <2>2. c \notin Makers(q) /\ Makers(q)' = IF q = r THEN Makers(q) \cup {c} ELSE Makers(q)
    BY <1>1, <1>3, <1>5, <2>1 DEF Makers
  <2>3. Clients(q)' = IF q = r THEN Clients(q) \cup {Len(caches) + 1} ELSE Clients(q)
    BY <1>1, <1>4, <2>1, OneMoreClient
  <2>4. CASE q # r
    BY <1>2, <2>1, <2>2, <2>3, <2>4 DEF MadeBy
  <2>5. CASE q = r
    <3>1. IsFiniteSet(made) /\ made = Makers(q) /\ c \notin made
      BY <1>2, <2>1, <2>2, <2>5, ResolveAssumption, FS_Subset
    <3>2. Cardinality(made \cup {c}) = Cardinality(made) + 1
      BY <3>1, FS_AddElement
    <3>3. IsFiniteSet(Clients(q)) /\ Len(caches) + 1 \notin Clients(q)
      BY <1>1, ClientsFinite
    <3>4. Cardinality(Clients(q)') = Cardinality(Clients(q)) + 1
      BY <2>3, <2>5, <3>3, FS_AddElement
    <3>5. Cardinality(Clients(q)') = Cardinality(made \cup {c}) /\ made \cup {c} \in SUBSET Chains /\ Makers(q)' = made \cup {c}
      BY <1>2, <1>3, <2>2, <2>5, <3>1, <3>2, <3>4
    <3> QED BY <3>5 DEF MadeBy
  <2> QED BY <2>4, <2>5
<1>7. CASE Insert(g)
  <2>1. /\ at[g].pc = "insert" /\ at'[g].pc = "get" /\ Register(r, at[g].client) /\ at[g].client # 0
        /\ caches' = caches
    BY <1>1, <1>7, LookupChanges DEF Register
  <2> HIDE DEF c
  <2>2. Makers(q)' = IF q = r THEN Makers(q) \ {c} ELSE Makers(q)
    <3>1. \A e \in Chains : e # c => <<"dirs", e>> # g
      BY <1>3
    <3>2. \A e \in Chains : e \in Makers(q)' <=> e \in Makers(q) /\ ~(q = r /\ e = c)
      BY <1>1, <1>3, <1>5, <2>1, <3>1 DEF Makers
    <3>3. Makers(q) \subseteq Chains /\ Makers(q)' \subseteq Chains
      BY DEF Makers
    <3> QED BY <3>2, <3>3
  <2>3. regcache'[q] = IF q = r THEN at[g].client ELSE regcache[q]
    BY <1>1, <2>1 DEF Register, CacheTypeOK
  <2>4. Clients(q)' = Clients(q)
    BY <2>1 DEF Clients
  <2> QED BY <1>2, <2>1, <2>2, <2>3, <2>4 DEF MadeBy
<1> QED BY <1>6, <1>7

LEMMA NextKeepsClients ==
  ASSUME ClientsInv, [Next]_vars
  PROVE  ClientsInv'
<1>1. ShapeInv' /\ CacheTypeOK /\ CacheTypeOK'
  BY NextKeepsShape DEF ClientsInv, ShapeInv, TypeOK
<1>2. CASE Steady
  <2>1. \A r : Makers(r)' = Makers(r)
    BY <1>2 DEF Steady, Makers, BaseURL, Goroutines, Stages
  <2>2. \A r : Clients(r)' = Clients(r)
    BY <1>1, <1>2, SteadyClients DEF Steady
  <2> QED BY <1>1, <1>2, <2>1, <2>2 DEF ClientsInv, MadeBy, Steady
<1>3. ASSUME NEW g \in Goroutines, MapRace(g)
      PROVE  ClientsInv'
  BY <1>1, <1>3 DEF ClientsInv, MadeBy, MapRace, Makers, BaseURL, Clients, cacheVars
<1>4. ASSUME NEW g \in Goroutines, LookupMisses(g) \/ Insert(g)
      PROVE  ClientsInv'
  BY <1>1, <1>4, LookupKeepsClients DEF ClientsInv
<1>5. ShapeInv
  BY DEF ClientsInv
<1> QED BY <1>2, <1>3, <1>4, <1>5, NextSteady

\* However many goroutines look for a client at once, a chain makes at most
\* one of a registry (registry.go: FromImageRef).
THEOREM ChainsMakeOneClientEach == Spec => []OneClientEach
<1>1. Init => ClientsInv
  <2> SUFFICES ASSUME Init, NEW r \in Registries
               PROVE  MadeBy(r)
    BY InitShape DEF ClientsInv
  <2>1. Makers(r) = {}
    BY DEF Init, Makers, Idle, Goroutines, Stages
  <2>2. Clients(r) = {k \in DOMAIN Preflight : Preflight[k] = r}
    <3>1. CacheTypeOK /\ Len(caches) = Len(Preflight) /\ DOMAIN Preflight = 1 .. Len(Preflight)
      BY InitCaches
    <3>2. DOMAIN caches = DOMAIN Preflight
      BY <3>1, LenProperties DEF CacheTypeOK
    <3>3. \A k \in DOMAIN Preflight : caches[k].baseURL = Preflight[k]
      BY InitCaches, NewClientTypes
    <3> QED BY <3>2, <3>3 DEF Clients
  <2>3. CASE Clients(r) = {}
    BY <2>1, <2>3 DEF MadeBy
  <2>4. CASE Clients(r) # {}
    <3>1. PICK k \in DOMAIN Preflight : Preflight[k] = r
      BY <2>2, <2>4
    <3>2. Clients(r) = {k}
      BY <2>2, <3>1, ResolveAssumption
    <3>3. PICK c \in Chains : TRUE
      BY ResolveAssumption
    <3>4. Cardinality({k}) = 1 /\ Cardinality({c}) = 1
      BY FS_Singleton
    <3>5. regcache[r] # 0
      BY <3>1, InitCaches
    <3> QED BY <2>1, <3>2, <3>3, <3>4, <3>5 DEF MadeBy
  <2> QED BY <2>3, <2>4
<1>2. ClientsInv /\ [Next]_vars => ClientsInv'
  BY NextKeepsClients
<1>3. ClientsInv => OneClientEach
  <2> SUFFICES ASSUME ClientsInv
               PROVE  OneClientEach
    OBVIOUS
  <2>1. ASSUME NEW r \in Registries
        PROVE  Cardinality(Clients(r)) <= Cardinality(Chains)
    <3>1. PICK made \in SUBSET Chains : Cardinality(Clients(r)) = Cardinality(made)
      BY DEF ClientsInv, MadeBy
    <3>2. Cardinality(made) <= Cardinality(Chains)
      BY ResolveAssumption, FS_Subset
    <3> QED BY <3>1, <3>2
  <2>2. ASSUME NEW g \in Goroutines, at[g].pc = "insert"
        PROVE  g[1] = "dirs"
    <3>1. ShapeInv
      BY DEF ClientsInv
    <3> QED BY <2>2, <3>1, MakerIsFirst
  <2> QED BY <2>1, <2>2 DEF OneClientEach
<1> QED BY <1>1, <1>2, <1>3, PTL DEF Spec

-----------------------------------------------------------------------------
(* Entries with a digest *)

\* The objects of S are of the first n listings.
UpTo(n, S) == \A o \in S \cap Objects : o[1] <= n

\* The objects, among others, that a goroutine has or works on.
Held(local) == local.rest \cup (IF local.pc \in AtWork THEN {local.item} ELSE {})

\* Nobody has an object, or a list, of a listing that is still to come: a
\* registry's answer gives no digest to an object that a cache has already.
CachesUpTo(n) ==
  \A k \in 1 .. Len(caches) :
    /\ \A x \in Dirs \cup Images : caches[k].lists[x] <= n
    /\ \A t \in Tags : caches[k].details[t] <= n

HeldUpTo(n) == \A g \in Goroutines : UpTo(n, Held(at[g]))

\* Who is about to replace an entry, and has not been overtaken, brings a
\* digest, or the entry has none.
Looked ==
  \A g \in Goroutines \ overtaken : \A o \in at[g].turn :
    o \in digests \/ ~Rich(at[g].client, o)

RichInv == ShapeInv /\ CachesUpTo(listings) /\ HeldUpTo(listings) /\ Looked

LEMMA UpToMore ==
  ASSUME NEW n \in Nat, NEW m \in Nat, n <= m, NEW S, NEW T, UpTo(n, S), T \subseteq S
  PROVE  UpTo(m, T)
BY DEF UpTo, Objects

LEMMA IdleHolds ==
  /\ Held(Idle) = {} /\ Idle.turn = {}
  /\ Held([Idle EXCEPT !.pc = "done"]) = {} /\ [Idle EXCEPT !.pc = "done"].turn = {}
BY DEF Held, Idle, AtWork

LEMMA ReceivedHolds ==
  ASSUME NEW s, NEW x
  PROVE  Held(Received(s, x, "lookup")) = {x} /\ Received(s, x, "lookup").turn = {}
BY DEF Held, Idle, AtWork, Received

LEMMA WithListHolds ==
  ASSUME NEW local, NEW list
  PROVE  Held(WithList(local, list)) \subseteq list /\ WithList(local, list).turn = {}
BY DEF Held, Idle, AtWork, WithList

LEMMA SentHolds ==
  ASSUME NEW local \in Locals, NEW x
  PROVE  /\ Held(Sent(local, x)) \subseteq Held(local)
         /\ local.turn = {} => Sent(local, x).turn = {}
<1>1. CASE local.rest = {x}
  BY <1>1, IdleHolds DEF Sent
<1>2. CASE local.rest # {x}
  BY <1>2 DEF Sent, Held, Locals
<1> QED BY <1>1, <1>2

LEMMA MoveHolds ==
  ASSUME NEW local \in Locals, local.pc \in AtWork, NEW pc, NEW client
  PROVE  /\ Held([local EXCEPT !.pc = pc]) \subseteq Held(local)
         /\ [local EXCEPT !.pc = pc].turn = local.turn
         /\ Held([local EXCEPT !.pc = pc, !.client = client]) \subseteq Held(local)
         /\ [local EXCEPT !.pc = pc, !.client = client].turn = local.turn
BY DEF Held, Locals

LEMMA SetHolds ==
  ASSUME NEW local \in Locals, local.pc \in AtWork, NEW list
  PROVE  /\ Held([local EXCEPT !.pc = "set", !.rest = list, !.unset = list])
              \subseteq list \cup Held(local)
         /\ [local EXCEPT !.pc = "set", !.rest = list, !.unset = list].turn = local.turn
BY DEF Held, Locals

LEMMA StoredHolds ==
  ASSUME NEW local \in Locals, NEW left, NEW looked
  PROVE  /\ Held(Stored(local, left, looked)) \subseteq Held(local)
         /\ \/ Stored(local, left, looked).turn = {}
            \/ /\ Stored(local, left, looked).turn = looked
               /\ Stored(local, left, looked).client = local.client
<1>1. CASE left \cup looked = {}
  <2>1. Stored(local, left, looked) = WithList(local, local.rest)
    BY <1>1 DEF Stored
  <2>2. local.rest \subseteq Held(local)
    BY DEF Held
  <2> QED BY <2>1, <2>2, WithListHolds
<1>2. CASE left \cup looked # {}
  BY <1>2 DEF Stored, Held, Locals
<1> QED BY <1>1, <1>2

LEMMA ListingTypes ==
  ASSUME RichInv
  PROVE  ShapeInv /\ CacheTypeOK /\ listings \in Nat /\ at \in [Goroutines -> Locals]
BY DEF RichInv, ShapeInv, TypeOK, CacheTypeOK

\* What g has afterwards is listed, and so is what everyone has.
LEMMA HeldStep ==
  ASSUME RichInv, NEW g \in Goroutines, NEW local, at' = [at EXCEPT ![g] = local],
         listings' \in Nat, listings <= listings', UpTo(listings', Held(local))
  PROVE  HeldUpTo(listings)'
<1>1. listings \in Nat /\ at \in [Goroutines -> Locals]
  BY ListingTypes
<1>2. ASSUME NEW h \in Goroutines
      PROVE  UpTo(listings', Held(at'[h]))
  <2>1. CASE h = g
    <3>1. at'[h] = local
      BY <1>1, <2>1
    <3> QED BY <3>1
  <2>2. CASE h # g
    <3>1. at'[h] = at[h] /\ UpTo(listings, Held(at[h]))
      BY <1>1, <2>2 DEF RichInv, HeldUpTo
    <3> QED BY <1>1, <3>1, UpToMore
  <2> QED BY <2>1, <2>2
<1> QED BY <1>2 DEF HeldUpTo, UpTo, Held

\* What an action property says of the entries of the caches.
RichKept ==
  \A k \in 1 .. Len(caches), t \in Tags :
    Rich(k, <<0, t>>) =>
      \/ Rich(k, <<0, t>>)' \/ caches'[k].details[t] = 0
      \/ \E g \in overtaken : at'[g] # at[g]

\* No entry gets a digest.
NoneRicher ==
  \A k \in 1 .. Len(caches), t \in Tags : Rich(k, <<0, t>>)' => Rich(k, <<0, t>>)

LEMMA TurnShape ==
  ASSUME ShapeInv, NEW h \in Goroutines, NEW o \in at[h].turn
  PROVE  /\ at[h].pc = "set" /\ at[h].client \in 1 .. Len(caches)
         /\ o \in Objects /\ o[1] \in Nat \ {0} /\ o[2] \in Tags
         /\ o = <<o[1], o[2]>>
<1>1. Shaped(h[1], at[h], Len(caches), regcache, digests)
  BY LocalShape
<1>2. at[h].pc = "set" /\ at[h].turn \subseteq Objects
  BY <1>1 DEF Shaped, Locals
<1>3. at[h].client \in 1 .. Len(caches)
  BY <1>2, WorkShape DEF AtWork
<1> QED BY <1>2, <1>3 DEF Objects

LEMMA LookedStays ==
  ASSUME RichInv, NEW g \in Goroutines, NEW local, at' = [at EXCEPT ![g] = local],
         digests \subseteq digests', overtaken' = overtaken, NoneRicher,
         \/ local = at[g]
         \/ local.turn = {}
         \/ \A o \in local.turn :
              /\ local.client \in 1 .. Len(caches) /\ o[2] \in Tags
              /\ o \in digests \/ ~Rich(local.client, o)
  PROVE  Looked'
<1>1. ShapeInv /\ at \in [Goroutines -> Locals]
  BY ListingTypes
<1>2. ASSUME NEW h \in Goroutines \ overtaken, NEW o \in at'[h].turn
      PROVE  \E k \in 1 .. Len(caches) :
               /\ k = at'[h].client /\ o[2] \in Tags
               /\ o \in digests \/ ~Rich(k, o)
  <2>1. CASE h = g /\ local # at[g]
    <3>1. at'[h] = local
      BY <1>1, <2>1
    <3> QED BY <1>2, <2>1, <3>1
  <2>2. CASE h # g \/ local = at[g]
    <3>1. at'[h] = at[h]
      BY <1>1, <2>2
    <3>2. at[h].client \in 1 .. Len(caches) /\ o[2] \in Tags
      BY <1>1, <1>2, <3>1, TurnShape
    <3> QED BY <1>2, <3>1, <3>2 DEF RichInv, Looked
  <2> QED BY <2>1, <2>2
<1>3. ASSUME NEW h \in Goroutines \ overtaken', NEW o \in at'[h].turn
      PROVE  o \in digests' \/ ~Rich(at[h].client, o)'
  <2>1. PICK k \in 1 .. Len(caches) :
          k = at'[h].client /\ o[2] \in Tags /\ (o \in digests \/ ~Rich(k, o))
    BY <1>2, <1>3
  <2>2. ~Rich(k, o) => ~Rich(k, <<0, o[2]>>)
    BY DEF Rich, Cached
  <2>3. ~Rich(k, <<0, o[2]>>) => ~Rich(k, <<0, o[2]>>)'
    BY <2>1 DEF NoneRicher
  <2>4. ~Rich(k, <<0, o[2]>>)' => ~Rich(at[h].client, o)'
    BY <2>1 DEF Rich, Cached
  <2> QED BY <2>1, <2>2, <2>3, <2>4
<1> QED BY <1>3 DEF Looked

\* A step that may give an entry a digest marks who is about to replace it.
LEMMA LookedOvertaken ==
  ASSUME RichInv, NEW g \in Goroutines, NEW local, at' = [at EXCEPT ![g] = local],
         digests \subseteq digests', (overtaken \cup Overtakes) \ {g} \subseteq overtaken',
         local.turn = {}
  PROVE  Looked'
<1>1. ShapeInv /\ at \in [Goroutines -> Locals]
  BY ListingTypes
<1>2. ASSUME NEW h \in Goroutines \ overtaken', NEW o \in at'[h].turn
      PROVE  o \in digests' \/ ~Rich(at[h].client, o)'
  <2>1. h # g
    BY <1>1, <1>2
  <2>2. at'[h] = at[h] /\ h \notin overtaken /\ h \notin Overtakes
    BY <1>1, <2>1
  <2> DEFINE k == at[h].client
  <2>3. o \in digests \/ ~Rich(k, o)
    BY <1>2, <2>2 DEF RichInv, Looked
  <2>4. ASSUME NEW c, c = k
        PROVE  Rich(c, o) \/ ~Rich(c, o)'
    BY <1>2, <2>2, <2>4 DEF Overtakes
  <2>5. ASSUME NEW c, c = k
        PROVE  Rich(at[h].client, o)' => Rich(c, o)'
    BY <2>2, <2>5 DEF Rich, Cached
  <2> QED BY <2>3, <2>4, <2>5
<1> QED BY <1>2 DEF Looked

\* A step of g that changes no cache and no digest.
LEMMA PlainStep ==
  ASSUME RichInv, ShapeInv', NEW g \in Goroutines, NEW local, at' = [at EXCEPT ![g] = local],
         UNCHANGED <<caches, listings, digests, overtaken>>, UpTo(listings, Held(local)),
         \/ local.turn = {}
         \/ \A o \in local.turn :
              /\ local.client \in 1 .. Len(caches) /\ o[2] \in Tags
              /\ o \in digests \/ ~Rich(local.client, o)
  PROVE  RichInv' /\ RichKept
<1>1. NoneRicher
  BY DEF NoneRicher, Rich, Cached
<1>2. Looked'
  BY <1>1, LookedStays
<1>3. listings' \in Nat /\ listings <= listings' /\ UpTo(listings', Held(local))
  BY ListingTypes
<1>4. HeldUpTo(listings)'
  BY <1>3, HeldStep
<1>5. CachesUpTo(listings)'
  BY DEF RichInv, CachesUpTo
<1>6. RichKept
  BY DEF RichKept, Rich, Cached
<1> QED BY <1>2, <1>4, <1>5, <1>6 DEF RichInv

\* Nobody moves, nothing that counts changes.
LEMMA StillStep ==
  ASSUME RichInv, ShapeInv', UNCHANGED <<caches, listings, digests, overtaken, at>>
  PROVE  RichInv' /\ RichKept
BY DEF RichInv, Looked, HeldUpTo, UpTo, Held, CachesUpTo, RichKept, Rich, Cached

\* What g has before its step, and that it is not about to replace an entry.
LEMMA Before ==
  ASSUME RichInv, NEW g \in Goroutines
  PROVE  /\ ShapeInv /\ CacheTypeOK /\ at[g] \in Locals /\ UpTo(listings, Held(at[g]))
         /\ listings \in Nat
         /\ at[g].pc # "set" => at[g].turn = {}
<1>1. ShapeInv /\ CacheTypeOK /\ listings \in Nat
  BY ListingTypes
<1>2. Shaped(g[1], at[g], Len(caches), regcache, digests)
  BY <1>1, LocalShape
<1> QED BY <1>1, <1>2 DEF Shaped, RichInv, HeldUpTo

LEMMA CallPlain ==
  ASSUME RichInv, ShapeInv', NEW g \in Goroutines, NEW from, NEW local, Calls(g, from, local),
         UNCHANGED <<caches, listings, digests>>, UpTo(listings, Held(local)), local.turn = {}
  PROVE  RichInv' /\ RichKept
<1>1. at' = [at EXCEPT ![g] = local] /\ overtaken' = overtaken
  BY DEF Calls, Goes
<1> QED BY <1>1, PlainStep

LEMMA ChannelRich ==
  ASSUME RichInv, ShapeInv', Channel
  PROVE  RichInv' /\ RichKept
<1>1. ASSUME NEW c \in Chains, Prepare(c)
      PROVE  RichInv' /\ RichKept
  <2> DEFINE g == <<"dirs", c>>
             s == prepared + 1
             local == Received(s, SourceDirs[s], "lookup")
  <2>1. at' = [at EXCEPT ![g] = local] /\ UNCHANGED <<caches, listings, digests, overtaken>>
    BY <1>1 DEF Prepare, Goes, cacheVars
  <2>2. g \in Goroutines
    BY DEF Goroutines, Stages
  <2>3. SourceDirs[s] \notin Objects
    BY <1>1, ResolveAssumption, ElementOfSeq DEF Prepare, Sources
  <2>4. Held(local) = {SourceDirs[s]} /\ local.turn = {}
    BY ReceivedHolds
  <2>5. UpTo(listings, Held(local))
    BY <2>3, <2>4 DEF UpTo
  <2> HIDE DEF g, local
  <2> QED BY <2>1, <2>2, <2>4, <2>5, PlainStep
<1>2. ASSUME NEW g \in Goroutines, NEW h \in Goroutines, NEW x, Sends(g, x, h), g # h
      PROVE  RichInv' /\ RichKept
  <2> DEFINE sent == Sent(at[g], x)
             received == Received(at[g].source, x, "lookup")
  <2>1. /\ at' = [at EXCEPT ![g] = sent, ![h] = received]
        /\ UNCHANGED <<caches, listings, digests, overtaken>>
        /\ at[g].pc = "send" /\ x \in at[g].rest
    BY <1>2 DEF Sends, In, cacheVars
  <2>2. /\ at[g] \in Locals /\ at[g].turn = {} /\ UpTo(listings, Held(at[g]))
        /\ at \in [Goroutines -> Locals] /\ listings \in Nat
    BY <2>1, Before, ListingTypes
  <2>3. /\ Held(sent) \subseteq Held(at[g]) /\ Held(received) = {x}
        /\ sent.turn = {} /\ received.turn = {}
    BY <2>2, SentHolds, ReceivedHolds
  <2>4. Held(received) \subseteq Held(at[g])
    BY <2>1, <2>3 DEF Held
  <2>5. UpTo(listings, Held(sent)) /\ UpTo(listings, Held(received))
    BY <2>2, <2>3, <2>4, UpToMore
  <2> HIDE DEF sent, received
  <2>6. /\ at'[g] = sent /\ at'[h] = received
        /\ \A e \in Goroutines \ {g, h} : at'[e] = at[e]
    BY <1>2, <2>1, <2>2
  <2>7. HeldUpTo(listings)'
    <3>1. ASSUME NEW e \in Goroutines PROVE UpTo(listings, Held(at'[e]))
      <4>1. at'[e] \in {sent, received} \/ at'[e] = at[e]
        BY <2>6
      <4> QED BY <2>5, <4>1, Before
    <3> QED BY <2>1, <3>1 DEF HeldUpTo, UpTo, Held
  <2>8. Looked'
    <3>1. \A e \in Goroutines : at'[e].turn = {} \/ at'[e] = at[e]
      BY <2>3, <2>6
    <3>2. ASSUME NEW e \in Goroutines \ overtaken', NEW o \in at'[e].turn
          PROVE  o \in digests' \/ ~Rich(at[e].client, o)'
      <4>1. at'[e] = at[e] /\ (o \in digests \/ ~Rich(at[e].client, o))
        BY <2>1, <3>1, <3>2 DEF RichInv, Looked
      <4>2. caches' = caches /\ digests' = digests
        BY <2>1
      <4> QED BY ONLY <4>1, <4>2 DEF Rich, Cached
    <3> QED BY <3>2 DEF Looked
  <2>9. CachesUpTo(listings)' /\ RichKept
    BY <2>1 DEF RichInv, CachesUpTo, RichKept, Rich, Cached
  <2> QED BY <2>7, <2>8, <2>9 DEF RichInv
<1>3. ASSUME NEW c \in Chains, NEW x, SendImage(c, x) \/ SendTag(c, x)
      PROVE  RichInv' /\ RichKept
  <2>1. /\ <<"dirs", c>> \in Goroutines /\ <<"tags", c>> \in Goroutines /\ <<"details", c>> \in Goroutines
        /\ <<"dirs", c>> # <<"tags", c>> /\ <<"tags", c>> # <<"details", c>>
    BY DEF Goroutines, Stages
  <2> QED BY <1>2, <1>3, <2>1 DEF SendImage, SendTag
<1>4. ASSUME NEW c \in Chains, NEW x, SendDetails(c, x)
      PROVE  RichInv' /\ RichKept
  <2> DEFINE g == <<"details", c>>
             local == Sent(at[g], x)
  <2>1. /\ at' = [at EXCEPT ![g] = local] /\ UNCHANGED <<caches, listings, digests, overtaken>>
        /\ at[g].pc = "send"
    BY <1>4 DEF SendDetails, Goes, In, cacheVars
  <2>2. g \in Goroutines
    BY DEF Goroutines, Stages
  <2>3. at[g] \in Locals /\ at[g].turn = {} /\ UpTo(listings, Held(at[g])) /\ listings \in Nat
    BY <2>1, <2>2, Before
  <2>4. Held(local) \subseteq Held(at[g]) /\ local.turn = {}
    BY <2>3, SentHolds
  <2>5. UpTo(listings, Held(local))
    BY <2>3, <2>4, UpToMore
  <2> HIDE DEF g, local
  <2> QED BY <2>1, <2>2, <2>4, <2>5, PlainStep
<1>5. ASSUME NEW g \in Goroutines, Leave(g)
      PROVE  RichInv' /\ RichKept
  <2> DEFINE local == [Idle EXCEPT !.pc = "done"]
  <2>1. at' = [at EXCEPT ![g] = local] /\ UNCHANGED <<caches, listings, digests, overtaken>>
    BY <1>5 DEF Leave, Goes, cacheVars
  <2>2. Held(local) = {} /\ local.turn = {}
    BY IdleHolds
  <2>3. UpTo(listings, Held(local))
    BY <2>2 DEF UpTo
  <2> HIDE DEF local
  <2> QED BY <2>1, <2>2, <2>3, PlainStep
<1>6. CASE Close
  BY <1>6, StillStep DEF Close, cacheVars
<1> QED BY <1>1, <1>3, <1>4, <1>5, <1>6 DEF Channel

LEMMA LosesRich ==
  ASSUME RichInv, ShapeInv', NEW g \in Goroutines, NEW from, Loses(g, from, Idle)
  PROVE  RichInv' /\ RichKept
<1>1. at' = [at EXCEPT ![g] = Idle] /\ UNCHANGED <<caches, listings, digests, overtaken>>
  BY DEF Loses, Goes, cacheVars
<1>2. Held(Idle) = {} /\ Idle.turn = {}
  BY IdleHolds
<1>3. UpTo(listings, Held(Idle))
  BY <1>2 DEF UpTo
<1> QED BY <1>1, <1>2, <1>3, PlainStep

\* A client that is made has nothing in its cache.
LEMMA LookupRich ==
  ASSUME RichInv, ShapeInv', Lookup
  PROVE  RichInv' /\ RichKept
<1>1. ASSUME NEW g \in Goroutines, LookupFinds(g) \/ Insert(g)
      PROVE  RichInv' /\ RichKept
  <2>1. PICK from, local :
          /\ Calls(g, from, local) /\ at[g].pc \in AtWork \ {"set"}
          /\ \/ local = [at[g] EXCEPT !.pc = "get", !.client = regcache[BaseURL(g)]]
             \/ local = [at[g] EXCEPT !.pc = "get"]
    BY <1>1 DEF LookupFinds, Insert, Calls, In, AtWork
  <2>2. UNCHANGED <<caches, listings, digests>>
    BY <1>1 DEF LookupFinds, Insert, Register, cacheVars
  <2>3. at[g] \in Locals /\ at[g].turn = {} /\ UpTo(listings, Held(at[g])) /\ listings \in Nat
    BY <2>1, Before
  <2>4. Held(local) \subseteq Held(at[g]) /\ local.turn = {}
    BY <2>1, <2>3 DEF Held, Locals
  <2>5. UpTo(listings, Held(local))
    BY <2>3, <2>4, UpToMore
  <2> QED BY <2>1, <2>2, <2>4, <2>5, CallPlain
<1>2. ASSUME NEW g \in Goroutines, LookupMisses(g)
      PROVE  RichInv' /\ RichKept
  <2> DEFINE local == [at[g] EXCEPT !.pc = "insert", !.client = Len(caches) + 1]
  <2> DEFINE r == BaseURL(g)
  <2>1. /\ at' = [at EXCEPT ![g] = local] /\ at[g].pc = "lookup" /\ MakeClient(r)
        /\ overtaken' = overtaken
    BY <1>2 DEF LookupMisses, Calls, Goes, In
  <2>2. at[g] \in Locals /\ at[g].turn = {} /\ UpTo(listings, Held(at[g])) /\ listings \in Nat
    BY <2>1, Before
  <2>3. Held(local) \subseteq Held(at[g]) /\ local.turn = {}
    BY <2>1, <2>2 DEF AtWork, Held, Locals
  <2>4. UpTo(listings, Held(local))
    BY <2>2, <2>3, UpToMore
  <2> HIDE DEF local
  <2>5. /\ Len(caches') = Len(caches) + 1 /\ Len(caches) \in Nat
        /\ \A k \in 1 .. Len(caches) : caches'[k] = caches[k]
        /\ caches'[Len(caches) + 1] = NewClient(r)
        /\ UNCHANGED <<listings, digests>>
    <3>1. NewClient(r) \in Cache /\ caches \in Seq(Cache)
      BY <2>1, Before, InsertsForSource, NewClientTypes DEF CacheTypeOK, RichInv
    <3> QED BY <2>1, <3>1, AppendProperties DEF MakeClient
  <2> HIDE DEF r
  <2>6. NoneRicher
    BY <2>5 DEF NoneRicher, Rich, Cached
  <2>7. Looked'
    BY <2>1, <2>3, <2>5, <2>6, LookedStays
  <2>8. HeldUpTo(listings)'
    <3>1. listings' \in Nat /\ listings <= listings' /\ UpTo(listings', Held(local))
      BY <2>2, <2>4, <2>5
    <3> QED BY <2>1, <3>1, HeldStep
  <2>9. CachesUpTo(listings)'
    <3>1. /\ \A x \in Dirs \cup Images : NewClient(r).lists[x] = 0
          /\ \A t \in Tags : NewClient(r).details[t] = 0
      BY DEF NewClient
    <3>2. \A k \in 1 .. Len(caches) + 1 : k \in 1 .. Len(caches) \/ k = Len(caches) + 1
      BY <2>5
    <3> QED BY <2>2, <2>5, <3>1, <3>2 DEF RichInv, CachesUpTo
  <2>10. RichKept
    BY <2>5 DEF RichKept, Rich, Cached
  <2> QED BY <2>7, <2>8, <2>9, <2>10 DEF RichInv
<1>3. ASSUME NEW g \in Goroutines, MapRace(g)
      PROVE  RichInv' /\ RichKept
  BY <1>3, StillStep DEF MapRace, cacheVars
<1> QED BY <1>1, <1>2, <1>3 DEF Lookup

\* One entry of a cache changes.
LEMMA DetailsChange ==
  ASSUME CacheTypeOK, NEW k \in 1 .. Len(caches), NEW t \in Tags, NEW n \in Nat,
         caches' = [caches EXCEPT ![k].details[t] = n]
  PROVE  /\ Len(caches') = Len(caches)
         /\ caches'[k].details[t] = n
         /\ \A j \in 1 .. Len(caches), u \in Tags :
              j # k \/ u # t => caches'[j].details[u] = caches[j].details[u]
         /\ \A j \in 1 .. Len(caches) : caches'[j].lists = caches[j].lists
<1> DEFINE r == [caches[k] EXCEPT !.details = [@ EXCEPT ![t] = n]]
<1>1. r \in Cache
  BY CacheAt DEF Cache
<1>2. r.details = [caches[k].details EXCEPT ![t] = n] /\ r.lists = caches[k].lists
  BY CacheAt DEF Cache
<1>3. caches' = [caches EXCEPT ![k] = r]
  OBVIOUS
<1> HIDE DEF r
<1>4. /\ Len(caches') = Len(caches)
      /\ \A j \in 1 .. Len(caches) : caches'[j] = IF j = k THEN r ELSE caches[j]
  BY <1>1, <1>3, ExceptSeq DEF CacheTypeOK
<1>5. caches[k].details \in [Tags -> Nat]
  BY CacheAt
<1> QED BY <1>2, <1>4, <1>5

LEMMA ListsChange ==
  ASSUME CacheTypeOK, NEW k \in 1 .. Len(caches), NEW x \in Dirs \cup Images, NEW n \in Nat,
         caches' = [caches EXCEPT ![k].lists[x] = n]
  PROVE  /\ Len(caches') = Len(caches)
         /\ caches'[k].lists[x] = n
         /\ \A j \in 1 .. Len(caches), y \in Dirs \cup Images :
              j # k \/ y # x => caches'[j].lists[y] = caches[j].lists[y]
         /\ \A j \in 1 .. Len(caches) : caches'[j].details = caches[j].details
<1> DEFINE r == [caches[k] EXCEPT !.lists = [@ EXCEPT ![x] = n]]
<1>1. r \in Cache
  BY CacheAt DEF Cache
<1>2. r.lists = [caches[k].lists EXCEPT ![x] = n] /\ r.details = caches[k].details
  BY CacheAt DEF Cache
<1>3. caches' = [caches EXCEPT ![k] = r]
  OBVIOUS
<1> HIDE DEF r
<1>4. /\ Len(caches') = Len(caches)
      /\ \A j \in 1 .. Len(caches) : caches'[j] = IF j = k THEN r ELSE caches[j]
  <2>1. caches \in Seq(Cache)
    BY DEF CacheTypeOK
  <2> QED BY <1>1, <1>3, <2>1, ExceptSeq
<1>5. caches[k].lists \in [Dirs \cup Images -> Nat]
  BY CacheAt
<1> QED BY <1>2, <1>4, <1>5

\* An entry that changes is emptied, or gets a listed object, with its digest
\* unless the entry has none or whoever has looked at it has been overtaken.
LEMMA EntryChange ==
  ASSUME RichInv, NEW k \in 1 .. Len(caches), NEW t \in Tags, NEW n \in Nat, n <= listings,
         caches' = [caches EXCEPT ![k].details[t] = n],
         UNCHANGED <<listings, digests>>,
         \/ n = 0 \/ <<n, t>> \in digests \/ ~Rich(k, <<0, t>>)
         \/ \E g \in overtaken : at'[g] # at[g]
  PROVE  CachesUpTo(listings)' /\ RichKept
<1>1. CacheTypeOK
  BY ListingTypes
<1>2. /\ Len(caches') = Len(caches)
      /\ caches'[k].details[t] = n
      /\ \A j \in 1 .. Len(caches), u \in Tags :
           j # k \/ u # t => caches'[j].details[u] = caches[j].details[u]
      /\ \A j \in 1 .. Len(caches) : caches'[j].lists = caches[j].lists
  BY <1>1, DetailsChange
<1>3. CachesUpTo(listings)'
  BY <1>2 DEF RichInv, CachesUpTo
<1>4. ASSUME NEW j \in 1 .. Len(caches), NEW u \in Tags, Rich(j, <<0, u>>)
      PROVE  \/ Rich(j, <<0, u>>)' \/ caches'[j].details[u] = 0
             \/ \E g \in overtaken : at'[g] # at[g]
  <2>1. CASE j = k /\ u = t
    <3>1. <<n, t>> \in digests => Rich(k, <<0, t>>)' \/ n = 0
      BY <1>2 DEF Rich, Cached
    <3> QED BY <1>2, <1>4, <2>1, <3>1
  <2>2. CASE ~(j = k /\ u = t)
    <3>1. caches'[j].details[u] = caches[j].details[u]
      BY <1>2, <2>2
    <3> QED BY <1>4, <3>1 DEF Rich, Cached
  <2> QED BY <2>1, <2>2
<1> QED BY <1>3, <1>4 DEF RichKept

LEMMA SetListChange ==
  ASSUME CacheTypeOK, NEW k \in 1 .. Len(caches), NEW x \in Dirs \cup Images, SetList(k, x)
  PROVE  /\ Len(caches') = Len(caches) /\ listings' = listings + 1
         /\ caches'[k].lists[x] = listings + 1
         /\ \A j \in 1 .. Len(caches), y \in Dirs \cup Images :
              j # k \/ y # x => caches'[j].lists[y] = caches[j].lists[y]
         /\ \A j \in 1 .. Len(caches) : caches'[j].details = caches[j].details
         /\ digests \subseteq digests' /\ \A o \in digests' \ digests : o[1] = listings + 1
<1>1. listings + 1 \in Nat
  BY DEF CacheTypeOK
<1>2. caches' = [caches EXCEPT ![k].lists[x] = listings + 1]
  BY DEF SetList
<1>3. digests \subseteq digests' /\ \A o \in digests' \ digests : o[1] = listings + 1
  BY DEF SetList, GcrListing, DockerHubListing, ObjectsOf
<1>4. \A n \in Nat : caches' = [caches EXCEPT ![k].lists[x] = n] =>
         /\ Len(caches') = Len(caches)
         /\ caches'[k].lists[x] = n
         /\ \A j \in 1 .. Len(caches), y \in Dirs \cup Images :
              j # k \/ y # x => caches'[j].lists[y] = caches[j].lists[y]
         /\ \A j \in 1 .. Len(caches) : caches'[j].details = caches[j].details
  BY ListsChange
<1> QED BY <1>1, <1>2, <1>3, <1>4 DEF SetList

LEMMA ListUpTo ==
  ASSUME NEW n \in Nat \ {0}, NEW x \in Dirs \cup Images
  PROVE  UpTo(n, ListOf(n, x))
BY ResolveAssumption DEF UpTo, ListOf, ObjectsOf, Objects

LEMMA QueryRich ==
  ASSUME RichInv, ShapeInv', NEW g \in Goroutines, ListMissed(g) \/ DetailsMissed(g)
  PROVE  RichInv' /\ RichKept
<1> DEFINE local == [at[g] EXCEPT !.pc = "query"]
<1>1. Calls(g, "get", local) /\ UNCHANGED cacheVars /\ at[g].pc = "get"
  BY DEF ListMissed, DetailsMissed, Calls, In
<1>2. at[g] \in Locals /\ at[g].turn = {} /\ UpTo(listings, Held(at[g])) /\ listings \in Nat
  BY <1>1, Before
<1>3. Held(local) \subseteq Held(at[g]) /\ local.turn = {}
  BY <1>1, <1>2 DEF AtWork, Held, Locals
<1>4. UpTo(listings, Held(local))
  BY <1>2, <1>3, UpToMore
<1> HIDE DEF local
<1> QED BY <1>1, <1>3, <1>4, CallPlain DEF cacheVars

LEMMA ListHitRich ==
  ASSUME RichInv, ShapeInv', NEW g \in Listers, ListHit(g)
  PROVE  RichInv' /\ RichKept
<1> DEFINE x == at[g].item
           n == Listed(g)
           list == ListOf(n, x)
           local == WithList(at[g], list)
<1>1. g \in Goroutines /\ g[1] \in {"dirs", "tags"} /\ ShapeInv /\ CacheTypeOK /\ listings \in Nat
  BY ListerStage, Before
<1>2. Calls(g, "get", local) /\ UNCHANGED cacheVars /\ at[g].pc = "get" /\ n # 0
  BY DEF ListHit, Calls, In
<1>3. at[g].client \in 1 .. Len(caches) /\ x \in Dirs \cup Images
  BY <1>1, <1>2, WorkShape DEF AtWork, Inputs
<1>4. n \in Nat \ {0} /\ n <= listings
  BY <1>1, <1>2, <1>3, CacheAt DEF Listed, RichInv, CachesUpTo
<1> HIDE DEF n, x
<1>5. UpTo(n, list)
  BY <1>3, <1>4, ListUpTo
<1>6. Held(local) \subseteq list /\ local.turn = {}
  BY WithListHolds
<1> HIDE DEF list
<1>7. UpTo(listings, Held(local))
  BY <1>1, <1>4, <1>5, <1>6, UpToMore
<1> HIDE DEF local
<1> QED BY <1>1, <1>2, <1>6, <1>7, CallPlain DEF cacheVars

\* No cache has an object of the listing that comes.
LEMMA ListAnsweredRich ==
  ASSUME RichInv, ShapeInv', NEW g \in Listers, ListAnswered(g)
  PROVE  RichInv' /\ RichKept
<1> DEFINE x == at[g].item
           n == listings + 1
           k == at[g].client
           list == ListOf(n, x)
           local == IF x \in Dirs \/ list = {} THEN WithList(at[g], list)
                    ELSE [at[g] EXCEPT !.pc = "set", !.rest = list, !.unset = list]
<1>1. g \in Goroutines /\ g[1] \in {"dirs", "tags"} /\ ShapeInv /\ CacheTypeOK /\ listings \in Nat
  BY ListerStage, Before
<1>2. /\ at' = [at EXCEPT ![g] = local] /\ at[g].pc = "query" /\ SetList(k, x)
      /\ overtaken' = overtaken
  BY DEF ListAnswered, Calls, Goes, In
<1>3. k \in 1 .. Len(caches) /\ x \in Dirs \cup Images /\ at[g] \in Locals
  BY <1>1, <1>2, WorkShape DEF AtWork, Inputs
<1>4. at[g].turn = {} /\ UpTo(listings, Held(at[g])) /\ n \in Nat \ {0} /\ listings <= n
  BY <1>1, <1>2, Before
<1>5. UpTo(n, list)
  BY <1>3, <1>4, ListUpTo
<1>6. UpTo(n, Held(local)) /\ local.turn = {}
  <2> HIDE DEF n
  <2>1. CASE x \in Dirs \/ list = {}
    <3>1. local = WithList(at[g], list)
      BY <2>1
    <3> HIDE DEF list, local
    <3>2. Held(local) \subseteq list /\ local.turn = {}
      BY <3>1, WithListHolds
    <3> QED BY <1>4, <1>5, <3>2, UpToMore
  <2>2. CASE ~(x \in Dirs \/ list = {})
    <3>1. local = [at[g] EXCEPT !.pc = "set", !.rest = list, !.unset = list]
      BY <2>2
    <3> HIDE DEF list, local
    <3>2. Held(local) \subseteq list \cup Held(at[g]) /\ local.turn = {}
      BY <1>2, <1>3, <1>4, <3>1, SetHolds DEF AtWork
    <3>3. UpTo(n, Held(at[g]))
      BY <1>1, <1>4, UpToMore
    <3>4. UpTo(n, list \cup Held(at[g]))
      BY <1>5, <3>3 DEF UpTo
    <3> QED BY <1>4, <3>2, <3>4, UpToMore
  <2> QED BY <2>1, <2>2
<1>7. /\ Len(caches') = Len(caches) /\ listings' = n /\ caches'[k].lists[x] = n
      /\ \A j \in 1 .. Len(caches), y \in Dirs \cup Images :
           j # k \/ y # x => caches'[j].lists[y] = caches[j].lists[y]
      /\ \A j \in 1 .. Len(caches) : caches'[j].details = caches[j].details
  BY <1>1, <1>2, <1>3, SetListChange
<1>8. digests \subseteq digests' /\ \A o \in digests' \ digests : o[1] = n
  BY <1>1, <1>2, <1>3, SetListChange
<1> HIDE DEF local, list, k, x
<1>9. NoneRicher
  <2>1. ASSUME NEW j \in 1 .. Len(caches), NEW t \in Tags, Rich(j, <<0, t>>)'
        PROVE  Rich(j, <<0, t>>)
    <3> DEFINE m == caches[j].details[t]
    <3>1. m # 0 /\ <<m, t>> \in digests'
      BY <1>7, <2>1 DEF Rich, Cached
    <3>2. m \in Nat /\ m <= listings
      BY <1>1, CacheAt DEF RichInv, CachesUpTo
    <3>3. <<m, t>>[1] # n
      BY <1>1, <3>2
    <3>4. <<m, t>> \in digests
      BY <1>8, <3>1, <3>3
    <3> QED BY <3>1, <3>4 DEF Rich, Cached
  <2> QED BY <2>1 DEF NoneRicher
<1>10. Looked'
  BY <1>1, <1>2, <1>6, <1>8, <1>9, LookedStays
<1>11. HeldUpTo(listings)'
  <2>1. listings' \in Nat /\ listings <= listings' /\ UpTo(listings', Held(local))
    BY <1>4, <1>6, <1>7
  <2> QED BY <1>1, <1>2, <2>1, HeldStep
<1>12. CachesUpTo(listings)'
  <2>1. ASSUME NEW j \in 1 .. Len(caches), NEW y \in Dirs \cup Images
        PROVE  caches'[j].lists[y] <= n
    <3>1. caches[j].lists[y] \in Nat /\ caches[j].lists[y] <= listings
      BY <1>1, CacheAt DEF RichInv, CachesUpTo
    <3> QED BY <1>1, <1>7, <3>1
  <2>2. ASSUME NEW j \in 1 .. Len(caches), NEW t \in Tags
        PROVE  caches'[j].details[t] <= n
    <3>1. caches[j].details[t] \in Nat /\ caches[j].details[t] <= listings
      BY <1>1, CacheAt DEF RichInv, CachesUpTo
    <3> QED BY <1>1, <1>7, <3>1
  <2> QED BY <1>7, <2>1, <2>2 DEF CachesUpTo
<1>13. RichKept
  BY <1>7, <1>8 DEF RichKept, Rich, Cached
<1> QED BY <1>10, <1>11, <1>12, <1>13 DEF RichInv

LEMMA LookAtRich ==
  ASSUME RichInv, ShapeInv', NEW g \in Listers, NEW o \in at[g].unset, LookAt(g, o)
  PROVE  RichInv' /\ RichKept
<1> DEFINE left == at[g].unset \ {o}
           looked == IF Richer(at[g].client, o) THEN {} ELSE {o}
           local == Stored(at[g], left, looked)
<1>1. g \in Goroutines /\ ShapeInv
  BY ListerStage, Before
<1>2. Calls(g, "set", local) /\ UNCHANGED cacheVars /\ at[g].pc = "set"
  BY DEF LookAt, Calls, In
<1>3. /\ at[g] \in Locals /\ UpTo(listings, Held(at[g])) /\ listings \in Nat
      /\ at[g].client \in 1 .. Len(caches) /\ o \in Objects
  BY <1>1, <1>2, Before, WorkShape DEF AtWork, Locals
<1>4. \A p \in looked : o = p /\ ~Richer(at[g].client, o)
  OBVIOUS
<1> HIDE DEF left, looked
<1>5. Held(local) \subseteq Held(at[g])
  BY <1>3, StoredHolds
<1>6. \/ local.turn = {}
      \/ local.turn = looked /\ local.client = at[g].client
  BY <1>3, StoredHolds
<1> HIDE DEF local
<1>7. UpTo(listings, Held(local))
  BY <1>3, <1>5, UpToMore
<1>8. \/ local.turn = {}
      \/ \A p \in local.turn :
           /\ local.client \in 1 .. Len(caches) /\ p[2] \in Tags
           /\ p \in digests \/ ~Rich(local.client, p)
  BY <1>3, <1>4, <1>6 DEF Richer, Objects
<1>9. at' = [at EXCEPT ![g] = local] /\ UNCHANGED <<caches, listings, digests, overtaken>>
  BY <1>2 DEF Calls, Goes, cacheVars
<1> QED BY <1>1, <1>7, <1>8, <1>9, PlainStep

\* The object that comes has a digest, or the entry has none, or it got one
\* after it was looked at.
LEMMA ReplaceRich ==
  ASSUME RichInv, ShapeInv', NEW g \in Listers, NEW o \in at[g].turn, Replace(g, o)
  PROVE  RichInv' /\ RichKept
<1> DEFINE local == Stored(at[g], at[g].unset, {})
           k == at[g].client
<1>1. g \in Goroutines /\ ShapeInv /\ at \in [Goroutines -> Locals]
  BY ListerStage, ListingTypes
<1>2. /\ at' = [at EXCEPT ![g] = local] /\ at[g].pc = "set" /\ SetDetails(k, o)
      /\ overtaken' = (overtaken \cup Overtakes) \ {g}
  BY DEF Replace, In, Goes
<1>3. at[g] \in Locals /\ UpTo(listings, Held(at[g])) /\ listings \in Nat
  BY <1>1, Before
<1>4. /\ k \in 1 .. Len(caches) /\ o \in Objects /\ o[1] \in Nat \ {0} /\ o[2] \in Tags
      /\ o = <<o[1], o[2]>>
  BY <1>1, TurnShape
<1>5. o[1] <= listings
  <2>1. Shaped(g[1], at[g], Len(caches), regcache, digests)
    BY <1>1, LocalShape
  <2>2. o \in Held(at[g])
    BY <1>2, <2>1 DEF Held, Shaped
  <2> QED BY <1>3, <1>4, <2>2 DEF UpTo
<1>6. Held(local) \subseteq Held(at[g]) /\ local.turn = {}
  BY <1>3, StoredHolds
<1> HIDE DEF local
<1>7. UpTo(listings, Held(local))
  BY <1>3, <1>6, UpToMore
<1>8. UNCHANGED <<listings, digests>> /\ caches' = [caches EXCEPT ![k].details[o[2]] = o[1]]
  BY <1>2 DEF SetDetails
<1>9. Looked'
  BY <1>1, <1>2, <1>6, <1>8, LookedOvertaken
<1>10. HeldUpTo(listings)'
  <2>1. listings' \in Nat /\ listings <= listings' /\ UpTo(listings', Held(local))
    BY <1>3, <1>7, <1>8
  <2> QED BY <1>1, <1>2, <2>1, HeldStep
<1>11. at'[g] # at[g]
  <2>1. at'[g] = local
    BY <1>1, <1>2
  <2> QED BY <1>6, <2>1
<1>12. g \notin overtaken => o \in digests \/ ~Rich(k, <<0, o[2]>>)
  BY <1>1 DEF RichInv, Looked, Rich, Cached
<1>13. \/ <<o[1], o[2]>> \in digests \/ ~Rich(k, <<0, o[2]>>)
       \/ \E h \in overtaken : at'[h] # at[h]
  BY <1>4, <1>11, <1>12
<1>14. CachesUpTo(listings)' /\ RichKept
  <2> DEFINE n == o[1]
             t == o[2]
  <2>1. n \in Nat /\ t \in Tags
    BY <1>4
  <2> QED BY <1>4, <1>5, <1>8, <1>13, <2>1, EntryChange
<1> QED BY <1>9, <1>10, <1>14 DEF RichInv

LEMMA DetailsRich ==
  ASSUME RichInv, ShapeInv', NEW g \in Detailers,
         \/ DetailsKnown(g) \/ DetailsHit(g) \/ DetailsAnswered(g) \/ StoreDetails(g)
  PROVE  RichInv' /\ RichKept
<1> DEFINE o == at[g].item
           k == at[g].client
<1>1. /\ g \in Goroutines /\ g[1] = "details" /\ ShapeInv /\ CacheTypeOK
      /\ at[g].pc \in {"get", "query", "fill"}
  BY DetailerStage, Before DEF DetailsKnown, DetailsHit, DetailsAnswered, StoreDetails, In
<1>2. /\ at[g] \in Locals /\ at[g].turn = {} /\ UpTo(listings, Held(at[g])) /\ listings \in Nat
  BY <1>1, Before
<1>3. k \in 1 .. Len(caches) /\ o \in Objects
  BY <1>1, WorkShape DEF AtWork, Inputs
<1>4. o \in Held(at[g])
  BY <1>1 DEF Held, AtWork
<1>5. o[1] \in Nat \ {0} /\ o[2] \in Tags /\ o = <<o[1], o[2]>> /\ o[1] <= listings
  BY <1>2, <1>3, <1>4 DEF UpTo, Objects
<1>6. ASSUME NEW p, GetsDetails(g, p), p[1] <= listings
      PROVE  RichInv' /\ RichKept
  <2> DEFINE local == WithList(at[g], {p})
  <2>1. Calls(g, "get", local) /\ UNCHANGED cacheVars
    BY <1>6 DEF GetsDetails
  <2>2. Held(local) \subseteq {p} /\ local.turn = {}
    BY WithListHolds
  <2>3. UpTo(listings, Held(local))
    BY <1>6, <2>2 DEF UpTo
  <2> HIDE DEF local
  <2> QED BY <1>1, <2>1, <2>2, <2>3, CallPlain DEF cacheVars
<1>7. CASE DetailsKnown(g)
  BY <1>5, <1>6, <1>7 DEF DetailsKnown
<1>8. CASE DetailsHit(g)
  <2>1. Cached(k, o)[1] <= listings
    BY <1>3, <1>5 DEF Cached, RichInv, CachesUpTo
  <2> QED BY <1>6, <1>8, <2>1 DEF DetailsHit
<1>9. CASE DetailsAnswered(g)
  <2> DEFINE local == [at[g] EXCEPT !.pc = "fill"]
  <2>1. /\ at' = [at EXCEPT ![g] = local] /\ digests' = digests \cup {o}
        /\ UNCHANGED <<caches, listings>> /\ overtaken' = overtaken \cup Overtakes
        /\ at[g].pc = "query"
    BY <1>9 DEF DetailsAnswered, Goes, SetDigest, In
  <2>2. Held(local) \subseteq Held(at[g]) /\ local.turn = {}
    BY <1>2, <2>1 DEF AtWork, Held, Locals
  <2>3. UpTo(listings, Held(local))
    BY <1>2, <2>2, UpToMore
  <2> HIDE DEF local, o
  <2>4. Looked'
    BY <1>1, <2>1, <2>2, LookedOvertaken
  <2>5. HeldUpTo(listings)'
    <3>1. listings' \in Nat /\ listings <= listings' /\ UpTo(listings', Held(local))
      BY <1>2, <2>1, <2>3
    <3> QED BY <1>1, <2>1, <3>1, HeldStep
  <2>6. CachesUpTo(listings)' /\ RichKept
    BY <2>1 DEF RichInv, CachesUpTo, RichKept, Rich, Cached
  <2> QED BY <2>4, <2>5, <2>6 DEF RichInv
<1>10. CASE StoreDetails(g)
  <2> DEFINE local == WithList(at[g], {o})
  <2>1. /\ at' = [at EXCEPT ![g] = local] /\ at[g].pc = "fill"
        /\ caches' = [caches EXCEPT ![k].details[o[2]] = o[1]]
        /\ UNCHANGED <<listings, digests>> /\ overtaken' = overtaken \cup Overtakes
    BY <1>10 DEF StoreDetails, Goes, SetSizeAndDetails, In
  <2>2. Held(local) \subseteq {o} /\ local.turn = {}
    BY WithListHolds
  <2>3. UpTo(listings, Held(local))
    BY <1>5, <2>2 DEF UpTo
  <2>4. o \in digests
    <3>1. Shaped(g[1], at[g], Len(caches), regcache, digests)
      BY <1>1, LocalShape
    <3> QED BY <2>1, <3>1 DEF Shaped
  <2> HIDE DEF local
  <2>5. Looked'
    BY <1>1, <2>1, <2>2, LookedOvertaken
  <2>6. HeldUpTo(listings)'
    <3>1. listings' \in Nat /\ listings <= listings' /\ UpTo(listings', Held(local))
      BY <1>2, <2>1, <2>3
    <3> QED BY <1>1, <2>1, <3>1, HeldStep
  <2>7. CachesUpTo(listings)' /\ RichKept
    BY <1>3, <1>5, <2>1, <2>4, EntryChange
  <2> QED BY <2>5, <2>6, <2>7 DEF RichInv
<1> QED BY <1>7, <1>8, <1>9, <1>10

LEMMA ExpireRich ==
  ASSUME RichInv, ShapeInv', NEW g \in Goroutines, Expire(g)
  PROVE  RichInv' /\ RichKept
<1> DEFINE k == at[g].client
<1>1. ShapeInv /\ CacheTypeOK /\ listings \in Nat /\ at \in [Goroutines -> Locals]
  BY ListingTypes
<1>2. k \in 1 .. Len(caches)
  BY <1>1, WorkShape DEF Expire, AtWork
<1>3. PICK x \in Dirs \cup Images \cup Tags : ExpireEntry(k, x)
  BY <1>1, ExpireReads DEF Expire
<1>4. UNCHANGED <<at, overtaken, listings, digests>>
  BY <1>3 DEF Expire, ExpireEntry
<1>5. /\ Len(caches') = Len(caches)
      /\ \A j \in 1 .. Len(caches), t \in Tags :
           caches'[j].details[t] \in {0, caches[j].details[t]}
      /\ \A j \in 1 .. Len(caches), y \in Dirs \cup Images :
           caches'[j].lists[y] \in {0, caches[j].lists[y]}
  <2> HIDE DEF k
  <2>1. CASE x \in Tags
    <3>1. caches' = [caches EXCEPT ![k].details[x] = 0]
      BY <1>3, <2>1 DEF ExpireEntry
    <3> QED BY <1>1, <1>2, <2>1, <3>1, DetailsChange
  <2>2. CASE x \notin Tags
    <3>1. caches' = [caches EXCEPT ![k].lists[x] = 0]
      BY <1>3, <2>2 DEF ExpireEntry
    <3> QED BY <1>1, <1>2, <2>2, <3>1, ListsChange
  <2> QED BY <2>1, <2>2
<1>6. CachesUpTo(listings)'
  BY <1>1, <1>4, <1>5 DEF RichInv, CachesUpTo
<1>7. HeldUpTo(listings)'
  BY <1>4 DEF RichInv, HeldUpTo, UpTo, Held
<1>8. NoneRicher
  BY <1>4, <1>5 DEF NoneRicher, Rich, Cached
<1>9. Looked'
  <2>1. at' = [at EXCEPT ![g] = at[g]]
    BY <1>1, <1>4
  <2> QED BY <1>4, <1>8, <2>1, LookedStays
<1>10. RichKept
  BY <1>4, <1>5 DEF RichKept, Rich, Cached
<1> QED BY <1>6, <1>7, <1>9, <1>10 DEF RichInv

LEMMA NextRich ==
  ASSUME RichInv, [Next]_vars
  PROVE  RichInv' /\ RichKept
<1>1. ShapeInv /\ ShapeInv'
  BY ListingTypes, NextKeepsShape
<1>2. ASSUME NEW c \in Chains, Rejected(c)
      PROVE  RichInv' /\ RichKept
  <2>1. <<"dirs", c>> \in Goroutines
    BY DEF Goroutines, Stages
  <2> QED BY <1>1, <1>2, <2>1, LosesRich DEF Rejected
<1>3. ASSUME NEW g \in Listers \cup Detailers, Fails(g)
      PROVE  RichInv' /\ RichKept
  <2>1. g \in Goroutines
    BY ListerStage, DetailerStage
  <2> QED BY <1>1, <1>3, <2>1, LosesRich DEF Fails
<1>4. CASE Resolve
  <2>1. ASSUME NEW g \in Listers,
               \/ ListHit(g) \/ ListMissed(g) \/ ListAnswered(g)
               \/ \E o \in at[g].unset : LookAt(g, o)
               \/ \E o \in at[g].turn : Replace(g, o)
        PROVE  RichInv' /\ RichKept
    BY <1>1, <2>1, ListerStage, ListHitRich, QueryRich, ListAnsweredRich, LookAtRich, ReplaceRich
  <2>2. ASSUME NEW g \in Detailers,
               \/ DetailsKnown(g) \/ DetailsHit(g) \/ DetailsMissed(g)
               \/ DetailsAnswered(g) \/ StoreDetails(g)
        PROVE  RichInv' /\ RichKept
    BY <1>1, <2>2, DetailerStage, QueryRich, DetailsRich
  <2> QED BY <1>1, <1>2, <1>3, <1>4, <2>1, <2>2, ExpireRich DEF Resolve
<1>5. CASE Halted \/ UNCHANGED vars
  <2>1. UNCHANGED <<caches, listings, digests, overtaken, at>>
    BY <1>5 DEF Halted, vars, cacheVars
  <2> QED BY <1>1, <2>1, StillStep
<1> QED BY <1>1, <1>4, <1>5, ChannelRich, LookupRich DEF Next

LEMMA InitRich ==
  ASSUME Init
  PROVE  RichInv
<1>1. /\ ShapeInv /\ listings = 0
      /\ \A k \in 1 .. Len(caches) :
           /\ \A x \in Dirs \cup Images : caches[k].lists[x] = 0
           /\ \A t \in Tags : caches[k].details[t] = 0
  BY InitShape, InitCaches DEF Init, CacheInit, NewClient
<1>2. \A g \in Goroutines : at[g] = Idle /\ Held(at[g]) = {} /\ at[g].turn = {}
  BY IdleHolds DEF Init
<1> QED BY <1>1, <1>2 DEF RichInv, CachesUpTo, HeldUpTo, UpTo, Looked

\* What cache.go:52 asks for: an entry with a digest is replaced by one
\* without only by a SetTags that looked at it before it had one.
THEOREM RichEntriesStay == Spec => RichStays
<1>1. ASSUME RichInv, [Next]_vars
      PROVE  [RichKept]_vars
  BY <1>1, NextRich
<1> QED BY <1>1, InitRich, NextRich, PTL DEF Spec, RichStays, RichKept

-----------------------------------------------------------------------------
(* That the stage ends *)

\* Who sends has something to send; in SetTags one object is looked at, or its
\* entry replaced, at a time.
InTurn(local) ==
  /\ local.pc = "send" => local.rest # {}
  /\ local.pc = "set" =>
       \/ local.turn = {} /\ local.unset # {}
       \/ \E o \in local.turn : local.turn = {o} /\ o \notin local.unset

Turns == \A g \in Goroutines : InTurn(at[g])

\* A goroutine sends, or receives.
Sending(g) == at[g].pc = "send" /\ at[g].rest # {}
Receiving(g) == at[g].pc = "receive"

\* Some goroutine is not waiting: the guards of the actions.
SomeoneCanGo ==
  /\ ~crashed
  /\ \/ \E g \in Goroutines : at[g].pc \in {"lookup", "insert", "get", "query"}
     \/ \E g \in Detailers : at[g].pc = "fill"
     \/ \E g \in Listers :
          /\ at[g].pc = "set"
          /\ \/ at[g].turn = {} /\ at[g].unset # {}
             \/ \E o \in at[g].turn : at[g].turn = {o}
     \/ \E c \in Chains :
          \/ Receiving(<<"dirs", c>>) /\ prepared < Len(SourceDirs)
          \/ Sending(<<"dirs", c>>) /\ Receiving(<<"tags", c>>)
          \/ Sending(<<"tags", c>>) /\ Receiving(<<"details", c>>)
          \/ Sending(<<"details", c>>)
     \/ \E g \in Goroutines : Receiving(g) /\ InputClosed(g)
     \/ ~closed /\ AllForwarded

LEMMA StagesOf ==
  ASSUME NEW c \in Chains, NEW stage \in Stages
  PROVE  <<stage, c>> \in Goroutines /\ <<stage, c>>[1] = stage /\ <<stage, c>>[2] = c
BY DEF Goroutines

LEMMA InputClosedIf ==
  ASSUME NEW c \in Chains
  PROVE  /\ InputClosed(<<"dirs", c>>) <=> prepared = Len(SourceDirs)
         /\ InputClosed(<<"tags", c>>) <=> Done(<<"dirs", c>>)
         /\ InputClosed(<<"details", c>>) <=> Done(<<"tags", c>>)
BY DEF InputClosed

\* Who is at work can go.
LEMMA WorkerCanGo ==
  ASSUME ShapeInv, Turns, ~crashed, NEW g \in Goroutines, at[g].pc \in AtWork
  PROVE  SomeoneCanGo
<1>1. Shaped(g[1], at[g], Len(caches), regcache, digests) /\ g[1] \in Stages /\ g[2] \in Chains
      /\ g = <<g[1], g[2]>>
  BY LocalShape DEF Goroutines
<1>2. CASE at[g].pc = "set"
  <2>1. g[1] = "tags"
    BY <1>1, <1>2 DEF Shaped
  <2>2. g \in Listers
    BY <1>1, <2>1 DEF Listers
  <2> QED BY <1>2, <2>2 DEF Turns, InTurn, SomeoneCanGo
<1>3. CASE at[g].pc = "fill"
  <2>1. g[1] = "details"
    BY <1>1, <1>3 DEF Shaped
  <2>2. g \in Detailers
    BY <1>1, <2>1 DEF Detailers
  <2> QED BY <1>3, <2>2 DEF SomeoneCanGo
<1>4. CASE at[g].pc \in {"lookup", "insert", "get", "query"}
  BY <1>4 DEF SomeoneCanGo
<1> QED BY <1>2, <1>3, <1>4 DEF AtWork

\* Nobody in a chain can go only when all three have ended: each waits for
\* the one before it to send or to end, and the first for prepare.
LEMMA ChainCanGo ==
  ASSUME ShapeInv, Turns, ~crashed, ~SomeoneCanGo, NEW c \in Chains
  PROVE  Done(<<"details", c>>)
<1> DEFINE d == <<"dirs", c>>
           t == <<"tags", c>>
           e == <<"details", c>>
<1>1. {d, t, e} \subseteq Goroutines
  BY StagesOf DEF Stages
<1>2. \A g \in {d, t, e} : at[g].pc \in {"receive", "send", "done"}
  BY <1>1, WorkerCanGo DEF ShapeInv, TypeOK, Locals, Places, AtWork
<1>3. \A g \in {d, t, e} : at[g].pc = "send" => Sending(g)
  BY <1>1 DEF Turns, InTurn, Sending
<1>4. \A g \in {d, t, e} : Receiving(g) => ~InputClosed(g)
  BY <1>1 DEF SomeoneCanGo
<1>5. ~Receiving(d)
  <2>1. prepared \in 0 .. Len(SourceDirs) /\ Len(SourceDirs) \in Nat
    BY ResolveAssumption DEF ShapeInv, TypeOK
  <2>2. prepared # Len(SourceDirs) => prepared < Len(SourceDirs)
    BY <2>1
  <2> QED BY <1>4, <2>2, InputClosedIf DEF SomeoneCanGo
<1>6. ~Receiving(t)
  BY <1>2, <1>3, <1>4, <1>5, InputClosedIf DEF SomeoneCanGo, Done, Receiving
<1>7. ~Receiving(e)
  BY <1>2, <1>3, <1>4, <1>6, InputClosedIf DEF SomeoneCanGo, Done, Receiving
<1>8. ~Sending(e)
  BY DEF SomeoneCanGo
<1> QED BY <1>2, <1>3, <1>7, <1>8 DEF Done, Receiving

LEMMA NobodyWaits ==
  ASSUME ShapeInv, Turns
  PROVE  closed \/ crashed \/ SomeoneCanGo
<1> SUFFICES ASSUME ~closed, ~crashed, ~SomeoneCanGo PROVE FALSE
  OBVIOUS
<1>1. AllForwarded
  BY ChainCanGo DEF AllForwarded
<1> QED BY <1>1 DEF SomeoneCanGo

\* Before it sends, a goroutine may still send anything.
Early == {"lookup", "insert", "get", "query", "fill"}

\* The places that a goroutine at a place has not left.
PlacesAhead(place) ==
  {p \in Early \cup {"leave"} :
     \/ p = "lookup" /\ place = "lookup"
     \/ p = "insert" /\ place \in {"lookup", "insert"}
     \/ p = "get" /\ place \in {"lookup", "insert", "get"}
     \/ p = "query" /\ place \in Early \ {"fill"}
     \/ p = "fill" /\ place \in Early
     \/ p = "leave" /\ place # "done"}

\* An image stands for itself, an object for its tag.
Keys(items) == {IF x \in Objects THEN x[2] ELSE x : x \in items}

Unit == (Early \cup {"leave", "look", "replace", "send"}) \X (Images \cup Tags \cup {Nothing})

\* What a goroutine has before it: places to leave, objects to look at and
\* entries to replace in SetTags, and things to send.
Units(local) ==
  {u \in Unit :
     \/ u[1] \in PlacesAhead(local.pc) /\ u[2] = Nothing
     \/ u[1] \in {"look", "replace", "send"} /\ local.pc \in Early
     \/ u[1] = "look" /\ u[2] \in Keys(local.unset)
     \/ u[1] = "replace" /\ u[2] \in Keys(local.unset \cup local.turn)
     \/ u[1] = "send" /\ u[2] \in Keys(local.rest)}

UnitsOf(stage) == {w \in Chains \X Unit : w[2] \in Units(at[<<stage, w[1]>>])}

\* Before the chains: sources to send, entries to expire, and the ends.
Outside ==
  ({"prepare"} \X {s \in Sources : s > prepared}) \cup ({"expire"} \X (expired + 1 .. MaxExpired))
    \cup ({"close"} \X ({TRUE} \ {closed})) \cup ({"crash"} \X ({TRUE} \ {crashed}))

Parts == <<Outside, UnitsOf("dirs"), UnitsOf("tags"), UnitsOf("details")>>

\* The i-th part loses something; those before it stay as they are.
Loss(i) ==
  /\ \A j \in 1 .. 4 : j < i => Parts[j]' = Parts[j]
  /\ Parts[i]' \subseteq Parts[i] /\ Parts[i]' # Parts[i]

Progress == (\A j \in 1 .. 4 : IsFiniteSet(Parts[j])) /\ \E i \in 1 .. 4 : Loss(i)

StepsRunOut == [][Progress]_vars

Fewer(new, old) == Units(new) \subseteq Units(old) /\ Units(new) # Units(old)

LEMMA FewerPlaces ==
  ASSUME NEW new, NEW old, old.pc \in Early,
         PlacesAhead(new.pc) \subseteq PlacesAhead(old.pc), old.pc \notin PlacesAhead(new.pc)
  PROVE  Fewer(new, old)
<1> DEFINE u == <<old.pc, Nothing>>
<1>1. u \in Units(old)
  BY DEF Units, Unit, PlacesAhead, Early
<1>2. u \notin Units(new)
  BY DEF Units, Early
<1>3. Units(new) \subseteq Units(old)
  BY DEF Units
<1> QED BY <1>1, <1>2, <1>3 DEF Fewer

LEMMA KeysGrow ==
  ASSUME NEW S, NEW T, S \subseteq T
  PROVE  Keys(S) \subseteq Keys(T)
BY DEF Keys

LEMMA FewerKeys ==
  ASSUME NEW new, NEW old, new.pc \notin Early, old.pc \notin Early,
         PlacesAhead(new.pc) \subseteq PlacesAhead(old.pc),
         new.unset \subseteq old.unset, new.unset \cup new.turn \subseteq old.unset \cup old.turn,
         new.rest \subseteq old.rest,
         NEW u \in Units(old), u \notin Units(new)
  PROVE  Fewer(new, old)
<1>1. /\ Keys(new.unset) \subseteq Keys(old.unset)
      /\ Keys(new.unset \cup new.turn) \subseteq Keys(old.unset \cup old.turn)
      /\ Keys(new.rest) \subseteq Keys(old.rest)
  BY KeysGrow
<1>2. Units(new) \subseteq Units(old)
  BY <1>1 DEF Units
<1> QED BY <1>2 DEF Fewer

LEMMA PlacesAheadOf ==
  /\ PlacesAhead("lookup") = Early \cup {"leave"}
  /\ PlacesAhead("insert") = {"insert", "get", "query", "fill", "leave"}
  /\ PlacesAhead("get") = {"get", "query", "fill", "leave"}
  /\ PlacesAhead("query") = {"query", "fill", "leave"}
  /\ PlacesAhead("fill") = {"fill", "leave"}
  /\ PlacesAhead("set") = {"leave"} /\ PlacesAhead("send") = {"leave"}
  /\ PlacesAhead("receive") = {"leave"} /\ PlacesAhead("done") = {}
BY DEF PlacesAhead, Early

-----------------------------------------------------------------------------
(* A step of one goroutine *)

Advances(g) ==
  \E local :
    /\ at' = [at EXCEPT ![g] = local]
    /\ InTurn(local) /\ Fewer(local, at[g])
    /\ UNCHANGED <<prepared, closed, crashed, expired>>

LEMMA CallAdvances ==
  ASSUME NEW g, NEW from, NEW local, Calls(g, from, local), InTurn(local), Fewer(local, at[g])
  PROVE  Advances(g)
BY DEF Calls, Goes, historyVars, Advances

\* g goes on to a later place, or is back in its loop.
LEMMA PlaceAdvances ==
  ASSUME NEW g \in Goroutines, NEW local, at[g].pc \in Early,
         local.pc \in Places \ {"lookup"},
         local.pc \in {"insert", "get", "query"} => local.pc \in PlacesAhead(at[g].pc) \ {at[g].pc},
         local.pc = "fill" => at[g].pc # "fill"
  PROVE  Fewer(local, at[g])
<1>1. PlacesAhead(local.pc) \subseteq PlacesAhead(at[g].pc) /\ at[g].pc \notin PlacesAhead(local.pc)
  BY PlacesAheadOf DEF Early, Places
<1> QED BY <1>1, FewerPlaces

LEMMA WithListTurn ==
  ASSUME NEW local, NEW list
  PROVE  /\ WithList(local, list).pc \in {"receive", "send"} /\ InTurn(WithList(local, list))
         /\ WithList(local, list).unset = {} /\ WithList(local, list).turn = {}
         /\ WithList(local, list).rest = list
BY DEF WithList, Idle, InTurn

LEMMA IdleTurn ==
  /\ InTurn(Idle) /\ Idle.pc = "receive" /\ Idle.unset = {} /\ Idle.turn = {} /\ Idle.rest = {}
BY DEF Idle, InTurn

LEMMA ListAdvances ==
  ASSUME NEW g \in Goroutines, NEW list, at[g].pc \in Early
  PROVE  Fewer(WithList(at[g], list), at[g])
<1>1. WithList(at[g], list).pc \in {"receive", "send"}
  BY WithListTurn
<1> QED BY <1>1, PlaceAdvances DEF Places

LEMMA LookupAdvances ==
  ASSUME ShapeInv, NEW g \in Goroutines, LookupFinds(g) \/ LookupMisses(g) \/ Insert(g)
  PROVE  Advances(g)
<1>1. at[g] \in Locals
  BY LocalTypes
<1>2. CASE LookupFinds(g)
  <2> DEFINE r == [at[g] EXCEPT !.pc = "get", !.client = regcache[BaseURL(g)]]
  <2>1. r.pc = "get"
    BY <1>1 DEF Locals
  <2>2. Calls(g, "lookup", r) /\ at[g].pc = "lookup"
    BY <1>2 DEF LookupFinds, Calls, In
  <2> HIDE DEF r
  <2>3. Fewer(r, at[g]) /\ InTurn(r)
    BY <2>1, <2>2, PlaceAdvances, PlacesAheadOf DEF Early, Places, InTurn
  <2> QED BY <2>2, <2>3, CallAdvances
<1>3. CASE LookupMisses(g)
  <2> DEFINE r == [at[g] EXCEPT !.pc = "insert", !.client = Len(caches) + 1]
  <2>1. r.pc = "insert"
    BY <1>1 DEF Locals
  <2>2. Calls(g, "lookup", r) /\ at[g].pc = "lookup"
    BY <1>3 DEF LookupMisses, Calls, In
  <2> HIDE DEF r
  <2>3. Fewer(r, at[g]) /\ InTurn(r)
    BY <2>1, <2>2, PlaceAdvances, PlacesAheadOf DEF Early, Places, InTurn
  <2> QED BY <2>2, <2>3, CallAdvances
<1>4. CASE Insert(g)
  <2> DEFINE r == [at[g] EXCEPT !.pc = "get"]
  <2>1. r.pc = "get"
    BY <1>1 DEF Locals
  <2>2. Calls(g, "insert", r) /\ at[g].pc = "insert"
    BY <1>4 DEF Insert, Calls, In
  <2> HIDE DEF r
  <2>3. Fewer(r, at[g]) /\ InTurn(r)
    BY <2>1, <2>2, PlaceAdvances, PlacesAheadOf DEF Early, Places, InTurn
  <2> QED BY <2>2, <2>3, CallAdvances
<1> QED BY <1>2, <1>3, <1>4

LEMMA LosesAdvances ==
  ASSUME NEW g \in Goroutines, NEW from \in Early, Loses(g, from, Idle)
  PROVE  Advances(g)
<1>1. at[g].pc \in Early /\ at' = [at EXCEPT ![g] = Idle]
      /\ UNCHANGED <<prepared, closed, crashed, expired>>
  BY DEF Loses, Goes, In
<1>2. Fewer(Idle, at[g]) /\ InTurn(Idle)
  BY <1>1, IdleTurn, PlaceAdvances DEF Places
<1> QED BY <1>1, <1>2, Zenon DEF Advances

\* A miss of a cache.
LEMMA MissAdvances ==
  ASSUME ShapeInv, NEW g \in Goroutines, Calls(g, "get", [at[g] EXCEPT !.pc = "query"])
  PROVE  Advances(g)
<1> DEFINE r == [at[g] EXCEPT !.pc = "query"]
<1>1. r.pc = "query" /\ at[g].pc = "get"
  BY LocalTypes DEF Locals, Calls, In
<1>2. Calls(g, "get", r)
  OBVIOUS
<1> HIDE DEF r
<1>3. Fewer(r, at[g]) /\ InTurn(r)
  BY <1>1, PlaceAdvances, PlacesAheadOf DEF Early, Places, InTurn
<1> QED BY <1>2, <1>3, CallAdvances

LEMMA ReturnAdvances ==
  ASSUME NEW g \in Goroutines, NEW from \in Early, NEW list, Calls(g, from, WithList(at[g], list))
  PROVE  Advances(g)
<1>1. at[g].pc \in Early
  BY DEF Calls, In
<1> QED BY <1>1, WithListTurn, ListAdvances, CallAdvances

LEMMA ListAnsweredAdvances ==
  ASSUME ShapeInv, NEW g \in Listers, ListAnswered(g)
  PROVE  Advances(g)
<1> DEFINE x == at[g].item
           list == ListOf(listings + 1, x)
           s == [at[g] EXCEPT !.pc = "set", !.rest = list, !.unset = list]
           r == IF x \in Dirs \/ list = {} THEN WithList(at[g], list) ELSE s
<1>1. g \in Goroutines
  BY ListerStage
<1>2. at[g].pc = "query" /\ Calls(g, "query", r)
  BY DEF ListAnswered, In
<1>3. at[g] \in Locals /\ at[g].turn = {}
  BY <1>1, <1>2, LocalShape DEF Shaped
<1>4. CASE x \in Dirs \/ list = {}
  <2>1. Calls(g, "query", WithList(at[g], list))
    BY <1>2, <1>4
  <2> QED BY <1>1, <2>1, ReturnAdvances DEF Early
<1>5. CASE ~(x \in Dirs \/ list = {})
  <2> HIDE DEF list
  <2>1. s.pc = "set" /\ s.unset = list /\ s.turn = {}
    BY <1>3 DEF Locals
  <2>2. Calls(g, "query", s)
    BY <1>2, <1>5
  <2> HIDE DEF s
  <2>3. Fewer(s, at[g])
    BY <1>1, <1>2, <2>1, PlaceAdvances DEF Early, Places
  <2>4. InTurn(s)
    BY <1>5, <2>1 DEF InTurn
  <2> QED BY <2>2, <2>3, <2>4, CallAdvances
<1> QED BY <1>4, <1>5

LEMMA StoredTurn ==
  ASSUME NEW local \in Locals, local.pc = "set", NEW left, NEW looked,
         \/ looked = {}
         \/ \E o \in looked : looked = {o} /\ o \notin left
  PROVE  LET r == Stored(local, left, looked)
         IN  /\ InTurn(r) /\ r.pc \in {"receive", "send", "set"}
             /\ r.unset = left /\ r.turn = looked /\ r.rest = local.rest
<1>1. CASE left \cup looked = {}
  <2>1. Stored(local, left, looked) = WithList(local, local.rest)
    BY <1>1 DEF Stored
  <2>2. left = {} /\ looked = {}
    BY <1>1
  <2> QED BY <2>1, <2>2, WithListTurn
<1>2. CASE left \cup looked # {}
  <2> DEFINE r == [local EXCEPT !.unset = left, !.turn = looked]
  <2>1. r.pc = "set" /\ r.unset = left /\ r.turn = looked /\ r.rest = local.rest
    BY DEF Locals
  <2>2. Stored(local, left, looked) = r
    BY <1>2 DEF Stored
  <2> HIDE DEF r
  <2> QED BY <1>2, <2>1, <2>2 DEF InTurn
<1> QED BY <1>1, <1>2

\* Of objects with a tag each, only o has the key of o.
LEMMA KeyLeaves ==
  ASSUME NEW S \in SUBSET Objects, OneEach(S), NEW o \in S
  PROVE  o[2] \in Tags /\ o[2] \in Keys(S) /\ o[2] \notin Keys(S \ {o})
BY DEF Keys, OneEach, Objects

LEMMA SetTurn ==
  ASSUME ShapeInv, NEW g \in Goroutines, at[g].pc = "set"
  PROVE  /\ at[g] \in Locals /\ at[g].rest \in SUBSET Objects /\ OneEach(at[g].rest)
         /\ at[g].unset \subseteq at[g].rest /\ at[g].turn \subseteq at[g].rest
<1>1. Shaped(g[1], at[g], Len(caches), regcache, digests)
  BY LocalShape
<1>2. PICK m \in Nat \ {0} : at[g].rest = ObjectsOf(m, at[g].item)
  BY <1>1 DEF Shaped
<1>3. at[g].item \in Images
  BY <1>1 DEF Shaped, AtWork, Inputs
<1>4. at[g].rest = {m} \X TagsOf[at[g].item] /\ TagsOf[at[g].item] \subseteq Tags
  BY <1>2, <1>3, ResolveAssumption DEF ObjectsOf
<1>5. at[g].rest \in SUBSET Objects /\ OneEach(at[g].rest)
  BY <1>4 DEF Objects, OneEach
<1> QED BY <1>1, <1>5 DEF Shaped

LEMMA LookAtAdvances ==
  ASSUME ShapeInv, NEW g \in Goroutines, NEW o \in at[g].unset, LookAt(g, o)
  PROVE  Advances(g)
<1> DEFINE left == at[g].unset \ {o}
           looked == IF Richer(at[g].client, o) THEN {} ELSE {o}
           r == Stored(at[g], left, looked)
           u == <<"look", o[2]>>
<1>1. at[g].pc = "set" /\ at[g].turn = {} /\ Calls(g, "set", r)
  BY DEF LookAt, Calls, In
<1>2. /\ at[g] \in Locals /\ at[g].unset \in SUBSET Objects /\ OneEach(at[g].unset)
  BY <1>1, SetTurn DEF OneEach
<1>3. looked \subseteq {o} /\ (looked = {} \/ \E p \in looked : looked = {p} /\ p \notin left)
  OBVIOUS
<1> HIDE DEF looked
<1>4. /\ InTurn(r) /\ r.pc \in {"receive", "send", "set"}
      /\ r.unset = left /\ r.turn = looked /\ r.rest = at[g].rest
  BY <1>1, <1>2, <1>3, StoredTurn
<1> HIDE DEF r
<1>5. o[2] \in Tags /\ o[2] \in Keys(at[g].unset) /\ o[2] \notin Keys(left)
  BY <1>2, KeyLeaves
<1>6. u \in Units(at[g]) /\ u \notin Units(r)
  BY <1>4, <1>5 DEF Units, Unit, PlacesAhead, Early
<1>7. PlacesAhead(r.pc) \subseteq PlacesAhead(at[g].pc)
  BY <1>1, <1>4, PlacesAheadOf
<1>8. Fewer(r, at[g])
  BY <1>1, <1>3, <1>4, <1>6, <1>7, FewerKeys DEF Early
<1> QED BY <1>1, <1>4, <1>8, CallAdvances

LEMMA ReplaceAdvances ==
  ASSUME ShapeInv, Turns, NEW g \in Goroutines, NEW o, Replace(g, o)
  PROVE  Advances(g)
<1> DEFINE r == Stored(at[g], at[g].unset, {})
           S == at[g].unset \cup {o}
           u == <<"replace", o[2]>>
<1>1. /\ at[g].pc = "set" /\ at[g].turn = {o} /\ at' = [at EXCEPT ![g] = r]
      /\ UNCHANGED <<prepared, closed, crashed, expired>>
  BY DEF Replace, Goes, In, historyVars
<1>2. /\ at[g] \in Locals /\ S \in SUBSET Objects /\ OneEach(S)
  BY <1>1, SetTurn DEF OneEach
<1>3. o \notin at[g].unset
  BY <1>1 DEF Turns, InTurn
<1>4. /\ InTurn(r) /\ r.pc \in {"receive", "send", "set"}
      /\ r.unset = at[g].unset /\ r.turn = {} /\ r.rest = at[g].rest
  BY <1>1, <1>2, StoredTurn
<1> HIDE DEF r
<1>5. o[2] \in Tags /\ o[2] \in Keys(S) /\ o[2] \notin Keys(S \ {o})
  BY <1>2, KeyLeaves
<1>6. S \ {o} = at[g].unset
  BY <1>3
<1>7. u \in Units(at[g]) /\ u \notin Units(r)
  BY <1>1, <1>4, <1>5, <1>6 DEF Units, Unit, PlacesAhead, Early
<1>8. PlacesAhead(r.pc) \subseteq PlacesAhead(at[g].pc)
  BY <1>1, <1>4, PlacesAheadOf
<1>9. Fewer(r, at[g])
  BY <1>1, <1>4, <1>7, <1>8, FewerKeys DEF Early
<1> QED BY <1>1, <1>4, <1>9, Zenon DEF Advances

LEMMA DetailsAdvances ==
  ASSUME ShapeInv, NEW g \in Detailers,
         \/ DetailsKnown(g) \/ DetailsHit(g) \/ DetailsMissed(g)
         \/ DetailsAnswered(g) \/ StoreDetails(g)
  PROVE  Advances(g)
<1>1. g \in Goroutines /\ at[g] \in Locals
  BY DetailerStage, LocalTypes
<1>2. ASSUME NEW o, GetsDetails(g, o)
      PROVE  Advances(g)
  BY <1>1, <1>2, ReturnAdvances DEF GetsDetails, Early
<1>3. CASE DetailsKnown(g) \/ DetailsHit(g)
  BY <1>2, <1>3 DEF DetailsKnown, DetailsHit
<1>4. CASE DetailsMissed(g)
  BY <1>1, <1>4, MissAdvances DEF DetailsMissed
<1>5. CASE DetailsAnswered(g)
  <2> DEFINE r == [at[g] EXCEPT !.pc = "fill"]
  <2>1. r.pc = "fill"
    BY <1>1 DEF Locals
  <2>2. /\ at[g].pc = "query" /\ at' = [at EXCEPT ![g] = r]
        /\ UNCHANGED <<prepared, closed, crashed, expired>>
    BY <1>5 DEF DetailsAnswered, Goes, In, historyVars
  <2> HIDE DEF r
  <2>3. Fewer(r, at[g]) /\ InTurn(r)
    BY <1>1, <2>1, <2>2, PlaceAdvances DEF Early, Places, InTurn
  <2> QED BY <2>2, <2>3, Zenon DEF Advances
<1>6. CASE StoreDetails(g)
  <2> DEFINE r == WithList(at[g], {at[g].item})
  <2>1. /\ at[g].pc = "fill" /\ at' = [at EXCEPT ![g] = r]
        /\ UNCHANGED <<prepared, closed, crashed, expired>>
    BY <1>6 DEF StoreDetails, Goes, In, historyVars
  <2>2. Fewer(r, at[g]) /\ InTurn(r)
    BY <1>1, <2>1, ListAdvances, WithListTurn DEF Early
  <2> QED BY <2>1, <2>2, Zenon DEF Advances
<1> QED BY <1>3, <1>4, <1>5, <1>6

LEMMA LeaveAdvances ==
  ASSUME NEW g \in Goroutines, Leave(g)
  PROVE  Advances(g)
<1> DEFINE r == [Idle EXCEPT !.pc = "done"]
           u == <<"leave", Nothing>>
<1>1. r.pc = "done" /\ r.unset = {} /\ r.turn = {} /\ r.rest = {}
  BY DEF Idle
<1>2. /\ at[g].pc = "receive" /\ at' = [at EXCEPT ![g] = r]
      /\ UNCHANGED <<prepared, closed, crashed, expired>>
  BY DEF Leave, Goes, In, historyVars
<1> HIDE DEF r
<1>3. u \in Units(at[g]) /\ u \notin Units(r)
  BY <1>1, <1>2 DEF Units, Unit, PlacesAhead, Early
<1>4. Fewer(r, at[g])
  BY <1>1, <1>2, <1>3, PlacesAheadOf, FewerKeys DEF Early
<1>5. InTurn(r)
  BY <1>1 DEF InTurn
<1> QED BY <1>2, <1>4, <1>5, Zenon DEF Advances

\* What is sent is not sent again.
LEMMA SentFewer ==
  ASSUME ShapeInv, Turns, NEW g \in Goroutines, at[g].pc = "send", NEW x \in at[g].rest
  PROVE  Fewer(Sent(at[g], x), at[g]) /\ InTurn(Sent(at[g], x))
<1> DEFINE r == Sent(at[g], x)
           key == IF x \in Objects THEN x[2] ELSE x
           u == <<"send", key>>
<1>1. /\ Shaped(g[1], at[g], Len(caches), regcache, digests) /\ at[g] \in Locals
      /\ g[1] \in {"dirs", "tags", "details"}
  BY LocalShape, LocalTypes, GoroutineStage
<1>2. at[g].unset = {} /\ at[g].turn = {}
  BY <1>1 DEF Shaped
<1>3. /\ r.unset = {} /\ r.turn = {} /\ r.rest = at[g].rest \ {x}
      /\ r.pc \in {"receive", "send"} /\ InTurn(r)
  <2>1. CASE at[g].rest = {x}
    <3>1. r = Idle
      BY <2>1 DEF Sent
    <3> QED BY <2>1, <3>1, IdleTurn
  <2>2. CASE at[g].rest # {x}
    <3> DEFINE s == [at[g] EXCEPT !.rest = @ \ {x}]
    <3>1. s.pc = "send" /\ s.unset = {} /\ s.turn = {} /\ s.rest = at[g].rest \ {x}
      BY <1>1, <1>2 DEF Locals
    <3>2. r = s
      BY <2>2 DEF Sent
    <3> HIDE DEF s, r
    <3> QED BY <2>2, <3>1, <3>2 DEF InTurn
  <2> QED BY <2>1, <2>2
<1> HIDE DEF r
<1>4. key \in Images \cup Tags /\ key \in Keys(at[g].rest) /\ key \notin Keys(at[g].rest \ {x})
  <2>1. CASE g[1] = "dirs"
    <3>1. at[g].rest \subseteq Images /\ Images \cap Objects = {}
      BY <1>1, <2>1, ResolveAssumption DEF Shaped, Outputs
    <3> QED BY <3>1 DEF Keys
  <2>2. CASE g[1] # "dirs"
    <3>1. at[g].rest \in SUBSET Objects /\ OneEach(at[g].rest)
      BY <1>1, <2>2 DEF Shaped, Outputs
    <3> QED BY <3>1, KeyLeaves
  <2> QED BY <2>1, <2>2
<1> HIDE DEF key
<1>5. u \in Units(at[g]) /\ u \notin Units(r)
  BY <1>3, <1>4 DEF Units, Unit, PlacesAhead, Early
<1>6. Fewer(r, at[g])
  BY <1>2, <1>3, <1>5, PlacesAheadOf, FewerKeys DEF Early
<1>7. InTurn(r)
  BY <1>3
<1> QED BY <1>6, <1>7, Zenon DEF r

LEMMA SendDetailsAdvances ==
  ASSUME ShapeInv, Turns, NEW c \in Chains, NEW x \in at[<<"details", c>>].rest, SendDetails(c, x)
  PROVE  Advances(<<"details", c>>)
<1> DEFINE g == <<"details", c>>
<1>1. g \in Goroutines
  BY StagesOf DEF Stages
<1>2. /\ at[g].pc = "send" /\ at' = [at EXCEPT ![g] = Sent(at[g], x)]
      /\ UNCHANGED <<prepared, closed, crashed, expired>>
  BY DEF SendDetails, Goes, In
<1>3. Fewer(Sent(at[g], x), at[g]) /\ InTurn(Sent(at[g], x))
  BY <1>1, <1>2, SentFewer
<1> QED BY <1>2, <1>3, Zenon DEF Advances

LEMMA ListersAdvance ==
  ASSUME ShapeInv, Turns, NEW g \in Listers,
         \/ ListHit(g) \/ ListMissed(g) \/ ListAnswered(g)
         \/ \E o \in at[g].unset : LookAt(g, o)
         \/ \E o \in at[g].turn : Replace(g, o)
  PROVE  Advances(g)
<1>1. g \in Goroutines
  BY ListerStage
<1>2. CASE ListHit(g)
  BY <1>1, <1>2, ReturnAdvances DEF ListHit, Early
<1>3. CASE ListMissed(g)
  BY <1>1, <1>3, MissAdvances DEF ListMissed
<1> QED BY <1>1, <1>2, <1>3, ListAnsweredAdvances, LookAtAdvances, ReplaceAdvances

-----------------------------------------------------------------------------
(* Every kind of step *)

\* prepare, the ends and the expiries.
OutsideStep ==
  /\ Outside' \subseteq Outside /\ Outside' # Outside
  /\ \/ UNCHANGED at
     \/ \E c \in Chains : \E s, x : at' = [at EXCEPT ![<<"dirs", c>>] = Received(s, x, "lookup")]

\* From one goroutine of a chain to the next.
HandOver(first, second) ==
  \E c \in Chains : \E x :
    /\ x \in at[<<first, c>>].rest /\ at[<<first, c>>].pc = "send"
    /\ \E s : at' = [at EXCEPT ![<<first, c>>] = Sent(@, x),
                               ![<<second, c>>] = Received(s, x, "lookup")]
    /\ UNCHANGED <<prepared, closed, crashed, expired>>

StepKinds ==
  \/ OutsideStep \/ HandOver("dirs", "tags") \/ HandOver("tags", "details")
  \/ \E g \in Goroutines : Advances(g)

LEMMA OutsideSteps ==
  ASSUME ShapeInv,
         \/ \E c \in Chains : Prepare(c)
         \/ Close
         \/ \E g \in Goroutines : Expire(g)
         \/ \E g \in Goroutines : MapRace(g)
  PROVE  OutsideStep
<1>1. prepared \in Nat /\ expired \in Nat /\ MaxExpired \in Nat /\ closed \in BOOLEAN /\ crashed \in BOOLEAN
  BY ResolveAssumption DEF ShapeInv, TypeOK
<1>2. ASSUME NEW c \in Chains, Prepare(c)
      PROVE  OutsideStep
  <2>1. /\ prepared + 1 \in Sources /\ prepared' = prepared + 1
        /\ UNCHANGED <<closed, crashed, expired>>
        /\ at' = [at EXCEPT ![<<"dirs", c>>] = Received(prepared + 1, SourceDirs[prepared + 1], "lookup")]
    BY <1>2 DEF Prepare, Goes, historyVars
  <2>2. Sources \subseteq Int
    BY ResolveAssumption DEF Sources
  <2>3. {s \in Sources : s > prepared'} \subseteq {s \in Sources : s > prepared}
    <3>1. \A s \in Int, p \in Nat : s > p + 1 => s > p
      OBVIOUS
    <3>2. \A s \in Sources : s > prepared' => s > prepared
      BY <1>1, <2>1, <2>2, <3>1
    <3> QED BY <3>2
  <2>4. prepared + 1 > prepared /\ ~(prepared + 1 > prepared')
    BY <1>1, <2>1
  <2> DEFINE u == <<"prepare", prepared + 1>>
  <2>5. u \in Outside /\ u \notin Outside'
    BY <2>1, <2>4 DEF Outside
  <2>6. Outside' \subseteq Outside
    BY <2>1, <2>3 DEF Outside
  <2> QED BY <2>1, <2>5, <2>6 DEF OutsideStep
<1>3. CASE Close
  <2>1. closed = FALSE /\ closed' = TRUE /\ UNCHANGED <<prepared, at, crashed, expired>>
    BY <1>1, <1>3 DEF Close
  <2>2. <<"close", TRUE>> \in Outside /\ <<"close", TRUE>> \notin Outside'
    BY <2>1 DEF Outside
  <2>3. Outside' \subseteq Outside
    BY <2>1 DEF Outside
  <2> QED BY <2>1, <2>2, <2>3 DEF OutsideStep
<1>4. ASSUME NEW g \in Goroutines, Expire(g)
      PROVE  OutsideStep
  <2>1. expired < MaxExpired /\ expired' = expired + 1 /\ UNCHANGED <<prepared, at, closed, crashed>>
    BY <1>4 DEF Expire, historyVars
  <2>2. /\ expired' + 1 .. MaxExpired \subseteq expired + 1 .. MaxExpired
        /\ expired + 1 \in expired + 1 .. MaxExpired
        /\ expired + 1 \notin expired' + 1 .. MaxExpired
    BY <1>1, <2>1
  <2> DEFINE u == <<"expire", expired + 1>>
  <2>3. u \in Outside /\ u \notin Outside'
    BY <2>2 DEF Outside
  <2>4. Outside' \subseteq Outside
    BY <2>1, <2>2 DEF Outside
  <2> QED BY <2>1, <2>3, <2>4 DEF OutsideStep
<1>5. ASSUME NEW g \in Goroutines, MapRace(g)
      PROVE  OutsideStep
  <2>1. crashed = FALSE /\ crashed' = TRUE /\ UNCHANGED <<prepared, at, closed, expired>>
    BY <1>1, <1>5 DEF MapRace, In, historyVars
  <2>2. <<"crash", TRUE>> \in Outside /\ <<"crash", TRUE>> \notin Outside'
    BY <2>1 DEF Outside
  <2>3. Outside' \subseteq Outside
    BY <2>1 DEF Outside
  <2> QED BY <2>1, <2>2, <2>3 DEF OutsideStep
<1> QED BY <1>2, <1>3, <1>4, <1>5

LEMMA NextSteps ==
  ASSUME ShapeInv, Turns, Next
  PROVE  StepKinds \/ UNCHANGED vars
<1>1. ASSUME NEW c \in Chains, NEW x \in at[<<"dirs", c>>].rest, SendImage(c, x)
      PROVE  HandOver("dirs", "tags")
  BY <1>1 DEF SendImage, Sends, In, historyVars, HandOver
<1>2. ASSUME NEW c \in Chains, NEW x \in at[<<"tags", c>>].rest, SendTag(c, x)
      PROVE  HandOver("tags", "details")
  BY <1>2 DEF SendTag, Sends, In, historyVars, HandOver
<1>3. ASSUME NEW c \in Chains, Rejected(c)
      PROVE  \E g \in Goroutines : Advances(g)
  <2>1. <<"dirs", c>> \in Goroutines
    BY StagesOf DEF Stages
  <2> QED BY <1>3, <2>1, LosesAdvances DEF Rejected, Early
<1>4. ASSUME NEW g \in Listers \cup Detailers, Fails(g)
      PROVE  \E h \in Goroutines : Advances(h)
  <2>1. g \in Goroutines
    BY ListerStage, DetailerStage
  <2> QED BY <1>4, <2>1, LosesAdvances DEF Fails, Early
<1>5. CASE Channel
  <2>1. ASSUME NEW c \in Chains, NEW x \in at[<<"details", c>>].rest, SendDetails(c, x)
        PROVE  \E g \in Goroutines : Advances(g)
    <3>1. <<"details", c>> \in Goroutines
      BY StagesOf DEF Stages
    <3> QED BY <2>1, <3>1, SendDetailsAdvances
  <2> QED BY <1>1, <1>2, <1>5, <2>1, OutsideSteps, LeaveAdvances DEF Channel, StepKinds
<1>6. CASE Lookup
  BY <1>6, LookupAdvances, OutsideSteps DEF Lookup, StepKinds
<1>7. CASE Resolve
  <2>1. ASSUME NEW g \in Listers,
               \/ ListHit(g) \/ ListMissed(g) \/ ListAnswered(g)
               \/ \E o \in at[g].unset : LookAt(g, o)
               \/ \E o \in at[g].turn : Replace(g, o)
        PROVE  \E h \in Goroutines : Advances(h)
    BY <2>1, ListerStage, ListersAdvance
  <2>2. ASSUME NEW g \in Detailers,
               \/ DetailsKnown(g) \/ DetailsHit(g) \/ DetailsMissed(g)
               \/ DetailsAnswered(g) \/ StoreDetails(g)
        PROVE  \E h \in Goroutines : Advances(h)
    BY <2>2, DetailerStage, DetailsAdvances
  <2> QED BY <1>3, <1>4, <1>7, <2>1, <2>2, OutsideSteps DEF Resolve, StepKinds
<1> QED BY <1>5, <1>6, <1>7 DEF Next, Halted

-----------------------------------------------------------------------------
(* Who sends has something to send *)

LEMMA OneTurn ==
  ASSUME ShapeInv, Turns, NEW g, NEW local, at' = [at EXCEPT ![g] = local], InTurn(local)
  PROVE  Turns'
BY DEF ShapeInv, TypeOK, Turns

LEMMA ReceivedTurn ==
  ASSUME NEW s, NEW x
  PROVE  InTurn(Received(s, x, "lookup"))
BY DEF Received, Idle, InTurn

LEMMA HandOverTurns ==
  ASSUME ShapeInv, Turns, NEW first \in Stages, NEW second \in Stages, HandOver(first, second)
  PROVE  Turns'
<1>0. PICK c \in Chains : \E x, s :
        /\ x \in at[<<first, c>>].rest /\ at[<<first, c>>].pc = "send"
        /\ at' = [at EXCEPT ![<<first, c>>] = Sent(@, x),
                            ![<<second, c>>] = Received(s, x, "lookup")]
  BY DEF HandOver
<1>1. PICK x, s :
        /\ x \in at[<<first, c>>].rest /\ at[<<first, c>>].pc = "send"
        /\ at' = [at EXCEPT ![<<first, c>>] = Sent(@, x),
                            ![<<second, c>>] = Received(s, x, "lookup")]
  BY <1>0
<1> DEFINE r == Sent(at[<<first, c>>], x)
           q == Received(s, x, "lookup")
<1>2. <<first, c>> \in Goroutines /\ at \in [Goroutines -> Locals]
  BY StagesOf DEF ShapeInv, TypeOK
<1>3. InTurn(r) /\ InTurn(q)
  BY <1>1, <1>2, SentFewer, ReceivedTurn
<1>4. at' = [at EXCEPT ![<<first, c>>] = r, ![<<second, c>>] = q]
  BY <1>1
<1> HIDE DEF r, q
<1>5. \A h \in Goroutines : at'[h] \in {at[h], r, q}
  BY <1>2, <1>4
<1> QED BY <1>3, <1>5 DEF Turns

LEMMA NextKeepsTurns ==
  ASSUME ShapeInv, Turns, [Next]_vars
  PROVE  Turns'
<1>1. CASE UNCHANGED at
  BY <1>1 DEF Turns
<1>2. ASSUME NEW c, NEW s, NEW x, at' = [at EXCEPT ![<<"dirs", c>>] = Received(s, x, "lookup")]
      PROVE  Turns'
  BY <1>2, OneTurn, ReceivedTurn
<1>3. CASE OutsideStep
  BY <1>1, <1>2, <1>3 DEF OutsideStep
<1>4. CASE HandOver("dirs", "tags") \/ HandOver("tags", "details")
  BY <1>4, HandOverTurns DEF Stages
<1>5. ASSUME NEW g, Advances(g)
      PROVE  Turns'
  BY <1>5, OneTurn DEF Advances
<1> QED BY <1>1, <1>3, <1>4, <1>5, NextSteps DEF StepKinds, vars

LEMMA InitTurns == Init => Turns
BY IdleTurn DEF Init, Turns

LEMMA TurnsHold == Spec => [](ShapeInv /\ Turns)
<1>1. ShapeInv /\ Turns /\ [Next]_vars => ShapeInv' /\ Turns'
  BY NextKeepsShape, NextKeepsTurns
<1> QED BY <1>1, InitShape, InitTurns, PTL DEF Spec

\* Until the channel to the filter is closed some goroutine can go: the three
\* of a chain, prepare and the one that closes never wait for each other.
THEOREM NobodyWaitsForEver == Spec => [](closed \/ crashed \/ SomeoneCanGo)
BY NobodyWaits, TurnsHold, PTL

-----------------------------------------------------------------------------
(* Steps run out *)

LEMMA UnitsKept ==
  ASSUME NEW stage, \A c \in Chains : at'[<<stage, c>>] = at[<<stage, c>>]
  PROVE  UnitsOf(stage)' = UnitsOf(stage)
<1>1. \A c \in Chains : Units(at[<<stage, c>>])' = Units(at[<<stage, c>>])
  BY DEF Units, Keys
<1> QED BY <1>1 DEF UnitsOf

LEMMA UnitsTaken ==
  ASSUME NEW stage, NEW c \in Chains, NEW local, at'[<<stage, c>>] = local,
         Fewer(local, at[<<stage, c>>]),
         \A d \in Chains : d # c => at'[<<stage, d>>] = at[<<stage, d>>]
  PROVE  UnitsOf(stage)' \subseteq UnitsOf(stage) /\ UnitsOf(stage)' # UnitsOf(stage)
<1>1. Units(at[<<stage, c>>])' = Units(local)
  BY DEF Units, Keys
<1>2. \A d \in Chains : d # c => Units(at[<<stage, d>>])' = Units(at[<<stage, d>>])
  BY DEF Units, Keys
<1>3. UnitsOf(stage)' \subseteq UnitsOf(stage)
  BY <1>1, <1>2 DEF UnitsOf, Fewer
<1>4. PICK u \in Units(at[<<stage, c>>]) : u \notin Units(local)
  BY DEF Fewer
<1>5. u \in Unit
  BY <1>4 DEF Units
<1>6. <<c, u>> \in UnitsOf(stage) /\ <<c, u>> \notin UnitsOf(stage)'
  BY <1>1, <1>4, <1>5 DEF UnitsOf
<1> QED BY <1>3, <1>6

LEMMA AdvanceLoses ==
  ASSUME ShapeInv, NEW g \in Goroutines, Advances(g)
  PROVE  \E i \in 1 .. 4 : Loss(i)
<1>1. PICK local : /\ at' = [at EXCEPT ![g] = local] /\ Fewer(local, at[g])
                   /\ UNCHANGED <<prepared, closed, crashed, expired>>
  BY DEF Advances
<1>2. at \in [Goroutines -> Locals]
  BY DEF ShapeInv, TypeOK
<1>3. g[1] \in {"dirs", "tags", "details"} /\ g[2] \in Chains /\ g = <<g[1], g[2]>>
  BY DEF Goroutines, Stages
<1>4. \A stage \in Stages, c \in Chains : <<stage, c>> # g => at'[<<stage, c>>] = at[<<stage, c>>]
  BY <1>1, <1>2, StagesOf
<1>5. at'[g] = local
  BY <1>1, <1>2
<1>6. /\ UnitsOf(g[1])' \subseteq UnitsOf(g[1]) /\ UnitsOf(g[1])' # UnitsOf(g[1])
  <2> DEFINE stage == g[1]
             c == g[2]
  <2>1. at'[<<stage, c>>] = local /\ Fewer(local, at[<<stage, c>>])
    BY <1>1, <1>3, <1>5
  <2>2. \A d \in Chains : d # c => at'[<<stage, d>>] = at[<<stage, d>>]
    BY <1>3, <1>4 DEF Stages
  <2> QED BY <1>3, <2>1, <2>2, UnitsTaken
<1>7. \A stage \in Stages : stage # g[1] => UnitsOf(stage)' = UnitsOf(stage)
  BY <1>3, <1>4, UnitsKept
<1>8. Outside' = Outside
  BY <1>1 DEF Outside
<1>9. CASE g[1] = "dirs"
  BY <1>6, <1>8, <1>9 DEF Loss, Parts
<1>10. CASE g[1] = "tags"
  BY <1>6, <1>7, <1>8, <1>10 DEF Loss, Parts, Stages
<1>11. CASE g[1] = "details"
  BY <1>6, <1>7, <1>8, <1>11 DEF Loss, Parts, Stages
<1> QED BY <1>3, <1>9, <1>10, <1>11

LEMMA HandOverLoses ==
  ASSUME ShapeInv, Turns, NEW first \in Stages, NEW second \in Stages, first # second,
         HandOver(first, second)
  PROVE  /\ UnitsOf(first)' \subseteq UnitsOf(first) /\ UnitsOf(first)' # UnitsOf(first)
         /\ \A stage \in Stages : stage \notin {first, second} => UnitsOf(stage)' = UnitsOf(stage)
         /\ Outside' = Outside
<1>0. PICK c \in Chains : \E x, s :
        /\ x \in at[<<first, c>>].rest /\ at[<<first, c>>].pc = "send"
        /\ at' = [at EXCEPT ![<<first, c>>] = Sent(@, x),
                            ![<<second, c>>] = Received(s, x, "lookup")]
        /\ UNCHANGED <<prepared, closed, crashed, expired>>
  BY DEF HandOver
<1>1. PICK x, s :
        /\ x \in at[<<first, c>>].rest /\ at[<<first, c>>].pc = "send"
        /\ at' = [at EXCEPT ![<<first, c>>] = Sent(@, x),
                            ![<<second, c>>] = Received(s, x, "lookup")]
        /\ UNCHANGED <<prepared, closed, crashed, expired>>
  BY <1>0
<1> DEFINE r == Sent(at[<<first, c>>], x)
           q == Received(s, x, "lookup")
<1>2. <<first, c>> \in Goroutines /\ <<second, c>> \in Goroutines /\ at \in [Goroutines -> Locals]
  BY StagesOf DEF ShapeInv, TypeOK
<1>3. Fewer(r, at[<<first, c>>])
  BY <1>1, <1>2, SentFewer
<1>4. at' = [at EXCEPT ![<<first, c>>] = r, ![<<second, c>>] = q]
  BY <1>1
<1> HIDE DEF r, q
<1>5. at'[<<first, c>>] = r
  BY <1>2, <1>4
<1>6. \A stage \in Stages, d \in Chains :
        <<stage, d>> \notin {<<first, c>>, <<second, c>>} => at'[<<stage, d>>] = at[<<stage, d>>]
  BY <1>2, <1>4, StagesOf
<1>7. UnitsOf(first)' \subseteq UnitsOf(first) /\ UnitsOf(first)' # UnitsOf(first)
  <2>1. \A d \in Chains : d # c => at'[<<first, d>>] = at[<<first, d>>]
    BY <1>6
  <2> QED BY <1>3, <1>5, <2>1, UnitsTaken
<1>8. ASSUME NEW stage \in Stages, stage \notin {first, second}
      PROVE  UnitsOf(stage)' = UnitsOf(stage)
  BY <1>6, <1>8, UnitsKept
<1>9. Outside' = Outside
  BY <1>1 DEF Outside
<1> QED BY <1>7, <1>8, <1>9

LEMMA StepLoses ==
  ASSUME ShapeInv, Turns, StepKinds
  PROVE  \E i \in 1 .. 4 : Loss(i)
<1>1. CASE OutsideStep
  BY <1>1 DEF OutsideStep, Loss, Parts
<1>2. CASE HandOver("dirs", "tags")
  <2>1. UnitsOf("dirs")' \subseteq UnitsOf("dirs") /\ UnitsOf("dirs")' # UnitsOf("dirs")
        /\ Outside' = Outside
    BY <1>2, HandOverLoses DEF Stages
  <2>2. Loss(2)
    BY <2>1 DEF Loss, Parts
  <2> QED BY <2>2
<1>3. CASE HandOver("tags", "details")
  <2>1. UnitsOf("tags")' \subseteq UnitsOf("tags") /\ UnitsOf("tags")' # UnitsOf("tags")
        /\ Outside' = Outside /\ UnitsOf("dirs")' = UnitsOf("dirs")
    BY <1>3, HandOverLoses DEF Stages
  <2>2. Loss(3)
    BY <2>1 DEF Loss, Parts
  <2> QED BY <2>2
<1>4. CASE \E g \in Goroutines : Advances(g)
  BY <1>4, AdvanceLoses
<1> QED BY <1>1, <1>2, <1>3, <1>4 DEF StepKinds

LEMMA PartsFinite ==
  ASSUME TypeOK
  PROVE  \A j \in 1 .. 4 : IsFiniteSet(Parts[j])
<1>1. IsFiniteSet(Outside)
  <2>1. Len(SourceDirs) \in Nat /\ Sources = 1 .. Len(SourceDirs)
    BY ResolveAssumption DEF Sources
  <2>2. IsFiniteSet(Sources)
    BY <2>1, FS_Interval
  <2>3. IsFiniteSet({s \in Sources : s > prepared})
    BY <2>2, FS_Subset
  <2>4. expired + 1 \in Int /\ MaxExpired \in Int
    BY ResolveAssumption DEF TypeOK
  <2>5. IsFiniteSet(expired + 1 .. MaxExpired)
    BY <2>4, FS_Interval
  <2>6. IsFiniteSet({TRUE} \ {closed}) /\ IsFiniteSet({TRUE} \ {crashed})
    BY FS_Singleton, FS_Difference
  <2>7. /\ IsFiniteSet({"prepare"} \X {s \in Sources : s > prepared})
        /\ IsFiniteSet({"expire"} \X (expired + 1 .. MaxExpired))
        /\ IsFiniteSet({"close"} \X ({TRUE} \ {closed}))
        /\ IsFiniteSet({"crash"} \X ({TRUE} \ {crashed}))
    BY <2>3, <2>5, <2>6, FS_Singleton, FS_Product
  <2> QED BY <2>7, FS_Union DEF Outside
<1>2. IsFiniteSet(Unit)
  <2>1. Early \cup {"leave", "look", "replace", "send"} =
          ((({"lookup"} \cup {"insert"}) \cup ({"get"} \cup {"query"})) \cup {"fill"})
            \cup (({"leave"} \cup {"look"}) \cup ({"replace"} \cup {"send"}))
    BY DEF Early
  <2>2. IsFiniteSet(Early \cup {"leave", "look", "replace", "send"})
    BY <2>1, FS_Singleton, FS_Union
  <2>3. IsFiniteSet((Images \cup Tags) \cup {Nothing})
    BY ResolveAssumption, FS_Singleton, FS_Union
  <2> QED BY <2>2, <2>3, FS_Product DEF Unit
<1>3. ASSUME NEW stage
      PROVE  IsFiniteSet(UnitsOf(stage))
  <2>1. IsFiniteSet(Chains \X Unit)
    BY <1>2, ResolveAssumption, FS_Product
  <2>2. UnitsOf(stage) \in SUBSET (Chains \X Unit)
    BY DEF UnitsOf
  <2> QED BY <2>1, <2>2, FS_Subset
<1> QED BY <1>1, <1>3 DEF Parts

\* Every step takes something from one of four finite parts and adds nothing
\* to those before it: whatever requests do, the stage takes finitely many
\* steps.
THEOREM StageTakesFinitelyManySteps == Spec => StepsRunOut
<1>1. ShapeInv /\ Turns /\ [Next]_vars => [Progress]_vars
  BY NextSteps, StepLoses, PartsFinite DEF ShapeInv, Progress
<1> QED BY <1>1, TurnsHold, PTL DEF Spec, StepsRunOut
=============================================================================
