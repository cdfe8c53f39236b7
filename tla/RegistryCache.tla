--------------------------- MODULE RegistryCache ---------------------------
(***************************************************************************)
(* What the resolve workers share (pkg/cim/registry): one map with the     *)
(* clients of all registries, each with its cache, and the TagDetails      *)
(* objects that the caches and the channels point to.  Every operation of  *)
(* a cache is one step, and so is every access of a field of an object; a  *)
(* caller takes several.                                                   *)
(*                                                                         *)
(* An object is <<n, t>>: tag t of the n-th listing.  Its digest and its   *)
(* size are known or not.  LastModified always is: every object that the   *)
(* resolve stage makes or completes has it, so the half of Richer and Hit  *)
(* that asks for it is left out.  (copyImage stores its target without it, *)
(* as an entry of the destination's tag, which no source has.)  What a     *)
(* registry holds does not change.  A torn read of a digest that is being  *)
(* set counts as either: only its length is looked at.                     *)
(***************************************************************************)
EXTENDS Naturals, Sequences

CONSTANTS
  Registries,  \* their base URLs, the keys of the map
  KindsOf,     \* of each what its suffix makes it, both if that is left open
  Preflight,   \* those of the destinations, which preflightChecks has put in the map
  Dirs, Images, Tags,
  ImagesIn,    \* what the registry answers for a directory
  TagsOf,      \* and for an image
  WithImages   \* tags that Docker Hub lists with their digests

VARIABLES
  registry,    \* of each base URL: "dockerhub" or "gcr"
  regcache,    \* the map: of each base URL its client, or 0
  caches,      \* the cache of each client that has been made
  listings,    \* listings so far
  digests, sizes \* objects with a digest, with a size

cacheVars == <<registry, regcache, caches, listings, digests, sizes>>

Objects == (Nat \ {0}) \X Tags

\* A list is remembered by its number, a tag's details by that of its object.
Cache ==
  [baseURL : Registries, lists : [Dirs \cup Images -> Nat], details : [Tags -> Nat]]

CacheTypeOK ==
  /\ registry \in [Registries -> {"dockerhub", "gcr"}]
  /\ caches \in Seq(Cache)
  /\ regcache \in [Registries -> 0 .. Len(caches)]
  /\ listings \in Nat
  /\ digests \subseteq Objects /\ sizes \subseteq Objects

NewClient(r) ==
  [baseURL |-> r, lists |-> [x \in Dirs \cup Images |-> 0], details |-> [t \in Tags |-> 0]]

CacheInit ==
  /\ registry \in [Registries -> {"dockerhub", "gcr"}]
  /\ \A r \in Registries : registry[r] \in KindsOf[r]
  /\ caches = [k \in DOMAIN Preflight |-> NewClient(Preflight[k])]
  /\ regcache = [r \in Registries |->
                   IF \E k \in DOMAIN Preflight : Preflight[k] = r
                   THEN CHOOSE k \in DOMAIN Preflight : Preflight[k] = r ELSE 0]
  /\ listings = 0
  /\ digests = {} /\ sizes = {}

-----------------------------------------------------------------------------
(* FromImageRef *)

\* Mutant of MakeClient: it has no cache.
MakeNoCache(r) == UNCHANGED cacheVars

MakeClient(r) ==
  /\ caches' = Append(caches, NewClient(r))
  /\ UNCHANGED <<registry, regcache, listings, digests, sizes>>

\* Mutant of Register: the client is not kept.
RegisterNot(r, k) == UNCHANGED cacheVars

Register(r, k) ==
  /\ regcache' = [regcache EXCEPT ![r] = k]
  /\ UNCHANGED <<registry, caches, listings, digests, sizes>>

-----------------------------------------------------------------------------
(* The operations of a cache *)

\* Of a repository's tags, Docker Hub knows the digests of some and all sizes.
DockerHubListing(objects) ==
  /\ digests' = digests \cup {o \in objects : o[2] \in WithImages}
  /\ sizes' = sizes \cup objects

\* GCR knows the digests and no sizes.
GcrListing(objects) == digests' = digests \cup objects /\ UNCHANGED sizes

ObjectsOf(n, image) == {n} \X TagsOf[image]

\* What list n of x holds.
ListOf(n, x) == IF x \in Dirs THEN ImagesIn[x] ELSE ObjectsOf(n, x)

\* The registry answers; SetImages, or the first step of SetTags.
SetList(k, x) ==
  LET n == listings + 1 IN
  /\ listings' = n
  /\ caches' = [caches EXCEPT ![k].lists[x] = n]
  /\ IF x \in Dirs THEN UNCHANGED <<digests, sizes>>
     ELSE IF registry[caches[k].baseURL] = "gcr" THEN GcrListing(ObjectsOf(n, x))
     ELSE DockerHubListing(ObjectsOf(n, x))
  /\ UNCHANGED <<registry, regcache>>

\* The object that cache k has for the tag of o.
Cached(k, o) == <<caches[k].details[o[2]], o[2]>>

\* The cache has an object for the tag, with its digest.
Rich(k, o) == Cached(k, o)[1] # 0 /\ Cached(k, o) \in digests

\* Mutant of Richer: an entry is always replaced.
RicherNever(k, o) == FALSE

\* SetTags: the cached object has a digest that o lacks.
Richer(k, o) == Rich(k, o) /\ o \notin digests

\* Mutant of Hit: any entry is one.
HitAny(k, o) == Cached(k, o)[1] # 0

\* GetTagDetails: its caller gets Cached(k, o).
Hit(k, o) == Rich(k, o)

SetDetails(k, o) ==
  /\ caches' = [caches EXCEPT ![k].details[o[2]] = o[1]]
  /\ UNCHANGED <<registry, regcache, listings, digests, sizes>>

ExpireEntry(k, x) ==
  /\ \/ x \in Tags /\ caches[k].details[x] # 0 /\ caches' = [caches EXCEPT ![k].details[x] = 0]
     \/ x \notin Tags /\ caches[k].lists[x] # 0 /\ caches' = [caches EXCEPT ![k].lists[x] = 0]
  /\ UNCHANGED <<registry, regcache, listings, digests, sizes>>

SetDigest(o) ==
  /\ digests' = digests \cup {o}
  /\ UNCHANGED <<registry, regcache, caches, listings, sizes>>

SetSizeAndDetails(k, o) ==
  /\ sizes' = sizes \cup {o}
  /\ caches' = [caches EXCEPT ![k].details[o[2]] = o[1]]
  /\ UNCHANGED <<registry, regcache, listings, digests>>
=============================================================================
