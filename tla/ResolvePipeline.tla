-------------------------- MODULE ResolvePipeline ---------------------------
(***************************************************************************)
(* The resolve stage (run.go: prepare, resolve, resolveImages, resolveTags *)
(* and resolveTagDetails; concurrency.go: mergeTagDetailChs).  Each of     *)
(* ConfigNumWorkers chains is three goroutines joined by channels without  *)
(* a buffer, and a forwarder of mergeTagDetailChs, which passes what it    *)
(* gets on to the filter at once.  They share the registry's clients and   *)
(* caches.                                                                 *)
(*                                                                         *)
(* What a registry lists comes in any order.  A request fails at any time: *)
(* the deadline of its worker, which runs from the worker's creation, may  *)
(* have passed.  Meanwhile the resolve stage of housekeeping looks up the  *)
(* clients of the destinations, which are in the map since the preflight   *)
(* checks, and uses them for what no source has.                           *)
(***************************************************************************)
EXTENDS RegistryCache, FiniteSets

CONSTANTS
  Chains,
  SourceDirs, \* spec.images: of each source its directory
  RegistryOf, \* of each directory its registry
  Nothing,    \* what a goroutine that waits for its input has
  MaxExpired  \* bound: entries of caches that expire

ASSUME ResolveAssumption ==
  /\ IsFiniteSet(Chains) /\ Chains # {} /\ MaxExpired \in Nat
  /\ IsFiniteSet(Images) /\ IsFiniteSet(Tags)
  /\ SourceDirs \in Seq(Dirs) /\ RegistryOf \in [Dirs -> Registries]
  /\ Preflight \in Seq(Registries)
  /\ \A j, k \in DOMAIN Preflight : Preflight[j] = Preflight[k] => j = k
  /\ ImagesIn \in [Dirs -> SUBSET Images]
  /\ \A d, e \in Dirs : ImagesIn[d] \cap ImagesIn[e] # {} => RegistryOf[d] = RegistryOf[e]
  /\ TagsOf \in [Images -> SUBSET Tags]
  /\ \A i, j \in Images : i # j => TagsOf[i] \cap TagsOf[j] = {}
  /\ Dirs \cap (Images \cup Objects \cup Tags) = {} /\ Images \cap (Objects \cup Tags) = {}

VARIABLES
  prepared, \* how many sources prepare has sent
  at,       \* each goroutine
  out,      \* history: tags of a source that the filter has received
  missing,  \* history: tags of a source that cannot come any more
  closed,   \* the channel to the filter is
  crashed,  \* the process has panicked
  expired,  \* how many entries of caches have expired
  overtaken \* history: who looked at an entry, in SetTags, that has a digest since

historyVars == <<out, missing, closed>>
vars == <<cacheVars, prepared, at, historyVars, crashed, expired, overtaken>>

Sources == DOMAIN SourceDirs
Stages == {"dirs", "tags", "details"}
Goroutines == Stages \X Chains

Places == {"receive", "lookup", "insert", "get", "query", "set", "fill", "send", "done"}

Items == Dirs \cup Images \cup Objects

\* A goroutine has received an item, which comes from a source (history), and
\* has a client from FromImageRef.  It has objects to send, and in SetTags
\* objects to store and the one whose entry it has looked at.
Locals ==
  [pc : Places, source : Sources \cup {Nothing}, item : Items \cup {Nothing}, client : Nat,
   rest : SUBSET Items, unset : SUBSET Objects, turn : SUBSET Objects]

TypeOK ==
  /\ CacheTypeOK
  /\ prepared \in 0 .. Len(SourceDirs)
  /\ at \in [Goroutines -> Locals]
  /\ \A g \in Goroutines : at[g].client \in 0 .. Len(caches)
  /\ out \subseteq Sources \X Tags /\ missing \subseteq Sources \X Tags
  /\ closed \in BOOLEAN /\ crashed \in BOOLEAN /\ overtaken \subseteq Goroutines
  /\ expired \in 0 .. MaxExpired

Idle ==
  [pc |-> "receive", source |-> Nothing, item |-> Nothing, client |-> 0,
   rest |-> {}, unset |-> {}, turn |-> {}]

Init ==
  /\ CacheInit
  /\ prepared = 0
  /\ at = [g \in Goroutines |-> Idle]
  /\ out = {} /\ missing = {}
  /\ closed = FALSE /\ crashed = FALSE /\ overtaken = {}
  /\ expired = 0

-----------------------------------------------------------------------------
(* Channels *)

In(g, place) == ~crashed /\ at[g].pc = place

\* Only g takes a step, within its process.
Goes(g, locals) ==
  /\ at' = [at EXCEPT ![g] = locals]
  /\ UNCHANGED <<crashed, expired>>

Received(s, x, place) == [Idle EXCEPT !.pc = place, !.source = s, !.item = x]

\* prepare sends the next source to the first goroutine of chain c.
Prepare(c) ==
  LET s == prepared + 1 IN
  /\ In(<<"dirs", c>>, "receive") /\ s \in Sources
  /\ Goes(<<"dirs", c>>, Received(s, SourceDirs[s], "lookup"))
  /\ prepared' = s
  /\ UNCHANGED <<cacheVars, historyVars, overtaken>>

\* What is left of a goroutine that has sent x: after the last one its loop
\* goes on to the next item.
Sent(local, x) ==
  IF local.rest = {x} THEN Idle ELSE [local EXCEPT !.rest = @ \ {x}]

\* out <- x: g sends and h receives.
Sends(g, x, h) ==
  /\ In(g, "send") /\ x \in at[g].rest /\ In(h, "receive")
  /\ at' = [at EXCEPT ![g] = Sent(@, x), ![h] = Received(at[g].source, x, "lookup")]
  /\ UNCHANGED <<cacheVars, prepared, historyVars, crashed, expired, overtaken>>

SendImage(c, x) == Sends(<<"dirs", c>>, x, <<"tags", c>>)
SendTag(c, x) == Sends(<<"tags", c>>, x, <<"details", c>>)

\* Through the forwarder of the chain to the filter.
SendDetails(c, x) ==
  LET g == <<"details", c>> IN
  /\ In(g, "send") /\ x \in at[g].rest
  /\ Goes(g, Sent(at[g], x))
  /\ out' = out \cup {<<at[g].source, x[2]>>}
  /\ UNCHANGED <<cacheVars, prepared, missing, closed, overtaken>>

Done(g) == at[g].pc = "done"

\* The channel that g receives from is closed and has nothing left.
InputClosed(g) ==
  CASE g[1] = "dirs" -> prepared = Len(SourceDirs)
    [] g[1] = "tags" -> Done(<<"dirs", g[2]>>)
    [] g[1] = "details" -> Done(<<"tags", g[2]>>)

\* g leaves its loop and closes its channels.
Leave(g) ==
  /\ In(g, "receive") /\ InputClosed(g)
  /\ Goes(g, [Idle EXCEPT !.pc = "done"])
  /\ UNCHANGED <<cacheVars, prepared, historyVars, overtaken>>

\* Mutant of AllForwarded: the first forwarder to end closes the channel.
AnyForwarded == \E c \in Chains : Done(<<"details", c>>)

\* Then wg.Wait returns.
AllForwarded == \A c \in Chains : Done(<<"details", c>>)

Close ==
  /\ ~crashed /\ ~closed /\ AllForwarded
  /\ closed' = TRUE
  /\ UNCHANGED <<cacheVars, prepared, at, out, missing, crashed, expired, overtaken>>

-----------------------------------------------------------------------------
(* FromImageRef: a map that goroutines read and write without a lock *)

\* g goes on within a call.
Calls(g, from, locals) ==
  /\ In(g, from)
  /\ Goes(g, locals)
  /\ UNCHANGED <<prepared, historyVars, overtaken>>

\* The registry of what g has.
BaseURL(g) == RegistryOf[SourceDirs[at[g].source]]

LookupFinds(g) ==
  /\ Calls(g, "lookup", [at[g] EXCEPT !.pc = "get", !.client = regcache[BaseURL(g)]])
  /\ regcache[BaseURL(g)] # 0
  /\ UNCHANGED cacheVars

\* Mutant of LookupMisses: the map is not asked.
LookupSkipped(g) ==
  /\ Calls(g, "lookup", [at[g] EXCEPT !.pc = "insert", !.client = Len(caches) + 1])
  /\ MakeClient(BaseURL(g))

LookupMisses(g) ==
  /\ Calls(g, "lookup", [at[g] EXCEPT !.pc = "insert", !.client = Len(caches) + 1])
  /\ regcache[BaseURL(g)] = 0
  /\ MakeClient(BaseURL(g))

Insert(g) ==
  /\ Calls(g, "insert", [at[g] EXCEPT !.pc = "get"])
  /\ Register(BaseURL(g), at[g].client)

\* "concurrent map read and map write", "concurrent map writes": while g
\* inserts its client, another goroutine, of housekeeping if not of this stage,
\* may look one up or insert one, of whatever registry, and the runtime may
\* notice.
MapRace(g) ==
  /\ In(g, "insert")
  /\ crashed' = TRUE
  /\ UNCHANGED <<cacheVars, prepared, at, historyVars, expired, overtaken>>

-----------------------------------------------------------------------------
(* ResolveImages, ResolveTags and ResolveTagDetails *)

\* The tags that x stands for.
TagsBehind(x) ==
  CASE x \in Dirs -> UNION {TagsOf[i] : i \in ImagesIn[x]}
    [] x \in Images -> TagsOf[x]
    [] x \in Objects -> {x[2]}

\* continue, without a result.
Loses(g, from, locals) ==
  /\ In(g, from)
  /\ Goes(g, locals)
  /\ missing' = missing \cup ({at[g].source} \X TagsBehind(at[g].item))
  /\ UNCHANGED <<cacheVars, prepared, out, closed, overtaken>>

\* FromImageRef rejects the source, or StripBaseURL.
Rejected(c) == \E from \in {"lookup", "get"} : Loses(<<"dirs", c>>, from, Idle)

\* Mutant of Fails: the item is tried again until its request succeeds.
FailsAndRetries(g) ==
  /\ Calls(g, "query", [at[g] EXCEPT !.pc = "get"])
  /\ UNCHANGED cacheVars

\* So does a tag of the outdated schema 1, but there is no event of that.
Fails(g) == Loses(g, "query", Idle)

\* Lists are resolved by the first two goroutines of a chain.
Listers == {"dirs", "tags"} \X Chains

\* g returns from its resolver and has a list to send, or nothing.
WithList(local, list) ==
  IF list = {} THEN Idle
  ELSE [Idle EXCEPT !.pc = "send", !.source = local.source, !.rest = list]

Listed(g) == caches[at[g].client].lists[at[g].item]

ListHit(g) ==
  /\ In(g, "get") /\ Listed(g) # 0
  /\ Calls(g, "get", WithList(at[g], ListOf(Listed(g), at[g].item)))
  /\ UNCHANGED cacheVars

ListMissed(g) ==
  /\ In(g, "get") /\ Listed(g) = 0
  /\ Calls(g, "get", [at[g] EXCEPT !.pc = "query"])
  /\ UNCHANGED cacheVars

ListAnswered(g) ==
  LET x == at[g].item
      list == ListOf(listings + 1, x)
  IN  /\ In(g, "query")
      /\ Calls(g, "query",
               IF x \in Dirs \/ list = {} THEN WithList(at[g], list)
               ELSE [at[g] EXCEPT !.pc = "set", !.rest = list, !.unset = list])
      /\ SetList(at[g].client, x)

\* SetTags has come to o and leaves left and looked; after the last it returns.
Stored(local, left, looked) ==
  IF left \cup looked = {} THEN WithList(local, local.rest)
  ELSE [local EXCEPT !.unset = left, !.turn = looked]

\* It looks at the entry of o's tag.
LookAt(g, o) ==
  /\ at[g].turn = {} /\ o \in at[g].unset
  /\ Calls(g, "set", Stored(at[g], at[g].unset \ {o},
                            IF Richer(at[g].client, o) THEN {} ELSE {o}))
  /\ UNCHANGED cacheVars

\* The goroutines that are about to replace an entry they have looked at, and
\* the step gives it a digest.
Overtakes ==
  {h \in Goroutines :
     \E k \in {at[h].client}, p \in at[h].turn : ~Rich(k, p) /\ Rich(k, p)'}

Replace(g, o) ==
  /\ In(g, "set") /\ at[g].turn = {o}
  /\ Goes(g, Stored(at[g], at[g].unset, {}))
  /\ SetDetails(at[g].client, o)
  /\ overtaken' = (overtaken \cup Overtakes) \ {g}
  /\ UNCHANGED <<prepared, historyVars>>

Detailers == {"details"} \X Chains

\* The digest and the size are known, or another worker has had them.
GetsDetails(g, o) ==
  /\ Calls(g, "get", WithList(at[g], {o}))
  /\ UNCHANGED cacheVars

Known(o) == o \in digests \cap sizes

DetailsKnown(g) ==
  /\ In(g, "get") /\ Known(at[g].item)
  /\ GetsDetails(g, at[g].item)

DetailsHit(g) ==
  /\ In(g, "get") /\ ~Known(at[g].item) /\ Hit(at[g].client, at[g].item)
  /\ GetsDetails(g, Cached(at[g].client, at[g].item))

DetailsMissed(g) ==
  /\ In(g, "get") /\ ~Known(at[g].item) /\ ~Hit(at[g].client, at[g].item)
  /\ Calls(g, "get", [at[g] EXCEPT !.pc = "query"])
  /\ UNCHANGED cacheVars

\* The answer sets the digest,
DetailsAnswered(g) ==
  /\ In(g, "query")
  /\ Goes(g, [at[g] EXCEPT !.pc = "fill"])
  /\ SetDigest(at[g].item)
  /\ overtaken' = overtaken \cup Overtakes
  /\ UNCHANGED <<prepared, historyVars>>

\* then the size, and the cache has them.
StoreDetails(g) ==
  /\ In(g, "fill")
  /\ Goes(g, WithList(at[g], {at[g].item}))
  /\ SetSizeAndDetails(at[g].client, at[g].item)
  /\ overtaken' = overtaken \cup Overtakes
  /\ UNCHANGED <<prepared, historyVars>>

\* The keys that g is about to get.
Reads(g) ==
  IF at[g].pc = "set" THEN {o[2] : o \in at[g].unset}
  ELSE {IF g \in Listers THEN at[g].item ELSE at[g].item[2]}

\* A get finds that the TTL of the entry is over.
Expire(g) ==
  /\ ~crashed /\ at[g].pc \in {"get", "set"} /\ expired < MaxExpired
  /\ \E x \in Reads(g) : ExpireEntry(at[g].client, x)
  /\ expired' = expired + 1
  /\ UNCHANGED <<prepared, at, historyVars, crashed, overtaken>>

-----------------------------------------------------------------------------
(* The specification *)

Halted == (closed \/ crashed) /\ UNCHANGED vars

Channel ==
  \/ \E c \in Chains :
       \/ Prepare(c)
       \/ \E x \in at[<<"dirs", c>>].rest : SendImage(c, x)
       \/ \E x \in at[<<"tags", c>>].rest : SendTag(c, x)
       \/ \E x \in at[<<"details", c>>].rest : SendDetails(c, x)
  \/ \E g \in Goroutines : Leave(g)
  \/ Close

Lookup ==
  \E g \in Goroutines :
    LookupFinds(g) \/ LookupMisses(g) \/ Insert(g) \/ MapRace(g)

Resolve ==
  \/ \E g \in Goroutines : Expire(g)
  \/ \E c \in Chains : Rejected(c)
  \/ \E g \in Listers \cup Detailers : Fails(g)
  \/ \E g \in Listers :
       \/ ListHit(g) \/ ListMissed(g) \/ ListAnswered(g)
       \/ \E o \in at[g].unset : LookAt(g, o)
       \/ \E o \in at[g].turn : Replace(g, o)
  \/ \E g \in Detailers :
       \/ DetailsKnown(g) \/ DetailsHit(g) \/ DetailsMissed(g)
       \/ DetailsAnswered(g) \/ StoreDetails(g)

Next == Channel \/ Lookup \/ Resolve \/ Halted

\* Some goroutine that can run runs; requests end.
Spec == Init /\ [][Next]_vars /\ WF_vars(Next)

-----------------------------------------------------------------------------
(* Properties *)

\* What comes out has a digest, although the object may be another worker's,
\* or one that the cache had before its details were asked for.  copyImage
\* skips a copy when two digests are equal, and two unknown ones would be.
DigestKnown == \A g \in Detailers : at[g].pc = "send" => at[g].rest \subseteq digests

\* cache.go:52 "Don't accidentally overwrite an existing tag with richer
\* metadata": an entry with a digest stays or expires, unless it got the digest
\* between SetTags's look at the entry and its replacement.
RichStays ==
  [][\A k \in 1 .. Len(caches), t \in Tags :
       Rich(k, <<0, t>>) =>
         \/ Rich(k, <<0, t>>)' \/ caches'[k].details[t] = 0
         \/ \E g \in overtaken : at'[g] # at[g]]_vars

\* A chain makes at most one client of a registry, and only its first
\* goroutine does: when an image comes, its registry is in the map.
Clients(r) == {k \in DOMAIN caches : caches[k].baseURL = r}

OneClientEach ==
  /\ \A r \in Registries : Cardinality(Clients(r)) <= Cardinality(Chains)
  /\ \A g \in Goroutines : at[g].pc = "insert" => g[1] = "dirs"

\* A registry's client is settled when all who found none have inserted theirs.
Settled(r) ==
  regcache[r] # 0 /\ \A g \in Goroutines : at[g].pc = "insert" => BaseURL(g) # r

\* A client that is settled remains the registry's, but only when those of all
\* sources are does the map not change any more and not end the process.
SettledForGood ==
  [][/\ \A r \in Registries : Settled(r) => Settled(r)' /\ regcache'[r] = regcache[r]
     /\ (\A s \in Sources : Settled(RegistryOf[SourceDirs[s]])) =>
          UNCHANGED <<regcache, crashed>>]_vars

\* Every tag of every source comes out or is missing because a request for
\* it, its image or its directory failed or its schema is outdated, and the
\* channel to the filter is closed after that.
Wanted == {x \in Sources \X Tags : x[2] \in TagsBehind(SourceDirs[x[1]])}

Promise == INSTANCE ResolvePromise
             WITH delivered <- out

KeepsPromise == Promise!ResolvePromiseSpec

\* The stage ends, unless the runtime notices a race on the map.
Ends == <>(closed \/ crashed)
=============================================================================
