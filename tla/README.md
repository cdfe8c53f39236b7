# Verification of container-image-mirror

TLA+ models of the mirror run of this repository (`pkg/cim`, `pkg/memlim`),
TLC runs on small instances, and TLAPS proofs for every instance.

## The system

`Runner.Run` (`pkg/cim/run.go`) mirrors images from source registries to
destination registries. It builds a pipeline of goroutines joined by channels:

```
prepare -> resolve -> filter -> transform -> splitJobCh -+-> interleave -> copy
            (N workers)                                  +-> housekeeping -> deleteTag
```

and then loops over the events of `resolve`, `copy` and `housekeeping` until
all three event channels are closed.

| Component | State | Operations | Interacts with |
|---|---|---|---|
| Interleave buffer (`interleave_buffer.go`, `Runner.interleave`) | buffered jobs, filter (image -> epoch), epoch | `Tick`, `FlushBuffer` | receives from `splitJobCh`, sends to the copy stage's channel and closes it |
| Copy stage (`Runner.copy`, `copyImage`) | one job per worker, the global `ConfigCopyImageTimeout` | check the target, wait for memory, copy, requeue | shared job channel; memlim calls back to cancel a copy |
| Memory limiter (`memlim.go`) | `queue`, `activeGoRoutines`, `memtrack`, `running`, `ctx` | `LimitMemory`, `WaitForFreeMemory`, `FreedMemHint`, timer, `shedLoad` | called by all copy workers and by `Run`; only the timer takes the lock |
| Housekeeping (`Runner.housekeeping`, `deleteTag`) | set of tags to delete | list the destination, keep the tags of the jobs, delete the rest | second branch of `splitJobCh`, its own `resolve` |
| Filter (`Runner.filter`) | tags per image | maxAge, minNum, maxNum | between `resolve` and `transform` |
| Resolve pipeline (`prepare`, `resolve*`, `transform`) | contexts with timeouts | directories -> images -> tags -> details -> jobs | registry clients |
| Channel plumbing (`concurrency.go`) | buffers, wait groups | `splitJobCh`, `merge*Chs` | every stage |
| Events and status (`events.go`, `status.go`, `summary.go`) | counters, state per object, summary | `emit`, `updateStatus`, `updateSummary`, `Count` | every worker emits; `Run` reads the counter of failures |
| Registry clients and cache (`registry/`) | map of clients, cache of images, tags and tag details | `FromImageRef`, `Resolve*`, `Get*`, `Set*` | all stages, concurrently |
| Operator, flags, logging | none of the run's | `Reconcile` is empty | - |

### What is hard

- **Interleavings without locks.** Copy workers share a channel they both
  receive from and send to, a timeout they double, and memlim's slices.
- **Shutdown of a pipeline.** Stages end when their input is closed; a worker
  that sends back a job does so on a channel another stage closes.
- **Bounded channels.** A full channel whose reader is its writer stops a stage.
- **Events that may be lost.** `emit` does not wait for a receiver, and the
  result of a run is computed from events.
- **Partial failure.** A registry that does not answer yields fewer jobs, and
  housekeeping deletes what is not a job.
- **Shared objects.** Caches hand out pointers to objects that other workers are
  still filling in, and the map of clients has no lock.

What makes each component correct:

- *interleave*: every job received is sent exactly once; two tags of an image
  are at least `interval` jobs apart; a flush always ends.
- *copy*: a job is at one place; it is settled once, whatever is cancelled or
  times out; a run returns after the last job and reports failures.
- *memlim*: a request is admitted once, when memory allows, and is not
  forgotten; load shedding hits a running copy.
- *housekeeping*: it deletes exactly the tags no job wants.
- *filter*: the selection satisfies the policy for every list of tags.
- *resolve*: every tag of a source comes out with its digest, or a failure is
  the reason that it does not; the channel is closed after the last.
- *cache*: a hit has a digest, and a rich entry is not replaced by a poor one;
  the map of clients settles.
- *events, status and result*: what `Run` counts and returns is what the events
  that found a receiver say, in whatever order they come.

## The modules

| Module | Models | Kind |
|---|---|---|
| `JobRelay` | the promise of the interleave stage | abstract specification |
| `InterleaveBuffer` | `Tick`, `FlushBuffer`, `Runner.interleave` | component |
| `InterleaveBufferProofs` | theorems about `InterleaveBuffer` | proofs |
| `CopyPromise` | what the copy stage promises to the caller of `Run` | abstract specification |
| `CopyStage` | `copyImage`, its channel, the way of its events, the end of `Run` | component |
| `CopyStageProofs` | theorems about `CopyStage` | proofs |
| `MemLim` | requests, timer and `shedLoad` of `pkg/memlim` | component |
| `MemLimProofs` | theorems about `MemLim` | proofs |
| `Housekeeping` | `splitJobCh`, `Runner.housekeeping`, `deleteTag`, beside the copies | component |
| `HousekeepingProofs` | theorems about `Housekeeping` | proofs |
| `TagPolicy` | `Runner.filter` for one image | component |
| `TagPolicyProofs` | theorems about `TagPolicy` | proofs |
| `RegistryCache` | the map of clients, the caches, the tag objects they share | component, as a library of steps |
| `ResolvePromise` | what the resolve stage promises to the filter | abstract specification |
| `ResolvePipeline` | `prepare`, `resolve` and its workers, `mergeTagDetailChs`, the resolvers of both registries, on `RegistryCache` | component, composed with `RegistryCache` |
| `ResolvePipelineProofs` | theorems about `ResolvePipeline` | proofs |
| `ResolveRefinementProofs` | `ResolvePipeline` implements `ResolvePromise` | proofs |
| `MirrorRun` | `runSingleJob`, `preflightChecks`, `Run`, `mergeEventChs`, status and summary | component |
| `MirrorRunProofs` | theorems about `MirrorRun` | proofs |
| `MC...` (one for each component) | constants for TLC | model checking |

### InterleaveBuffer

One action is one iteration of one of the goroutine's loops. `TickInput` is a
`Tick` on a job received (`TickPass`: the image is not in the filter or has
expired, the job is returned; `TickKeep`: the job is buffered, and the scan
replaces it or cycles the buffer). `TickBlocks` is the send to a full buffer
channel: the goroutine waits for itself and takes no further step.
`InputClosed`, `FlushTick`, `FlushAgain` and `FlushLast` are `FlushBuffer`: its
recursion is a tail call, so it is a loop over two buffers, `drain` (the closed
one) and `buf` (the fresh one). The scan of `Tick` is modelled by its result:
the jobs before the first eligible one move to the back. A job is a pointer and
is never equal to another; `ImageOf` is the result of `stripTag`. The epoch is
a natural number: the model shows that the decrement of a round that returns
nil is undone, and does not cover 2^64 jobs.

`offered` holds what the input has not handed over; the input may be closed
after any of it, so every run checks all subsets and all orders of the jobs.

### CopyStage

One action is one step of a worker between two synchronisations. The job
channel has no buffer, so `Receive` (from the interleave stage) and `Requeue`
(from another worker) are rendezvous. `SendOnClosed` is the panic of a worker
whose send on the channel meets its closing; it ends the process (`crashed`).
`timeout` is the exponent of `ConfigCopyImageTimeout` over its default; the
doubling is a check, a read and a write of a variable the workers share
(`DeadlineExceeded`, `ReadTimeout`, `WriteTimeout`).
A failed copy emits an event (`Emit`) that is lost unless the worker's
forwarder is in its receive; the event then passes the second forwarder
(`relay`) to the loop of `Run`, which counts it. `Return` is the end of `Run`.

The environment decides whether a target is up to date, when memlim admits a
job (`Admitted`), and how a copy ends. Only memlim cancels: the context of the
run is made from `context.Background` in `main.go` and never cancelled. The
events of `resolve` and `housekeeping` come to the same loop of `Run`, and their
failures add to the same counter. Of them the module has that one may be counted
(`elsewhere`, `FailElsewhere`) until both stages have ended (`OthersEnd`), which
`Return` waits for; the way these events take is `MirrorRun`'s. The interleave stage is the set `pending` of
jobs it sends in any order, and then closes the channel: what
`InterleaveBuffer` shows for a stage that is not blocked.

### MemLim

A request is a call of `WaitForFreeMemory` with the copy it admits; one that is
requeued is a new request. Its places are: `appending` and `written` (between
the load of the slice, the write behind its length, and the store of the new
length), `waiting` in the select, `running` (the copy), `hinting` and `freeing`
(`FreedMemHint`, called by the copying goroutine, so the worker may already have
another request). `mgr` is a call of `runMemoryManagement` by the timer; there
is one at a time. It chooses a request (`Scan`), loads and stores
`activeGoRoutines` (`Scan`, `Activate`), shifts the array of the queue in place
(`Activate`) and stores its length (`Remove`), adds to `memtrack` (`Remove`,
`Release`) and closes the channel (`Release`). A `shedLoad` runs beside it.

The queue is an array with a length. The array is large enough: that `append`
may move it to a new one, and then an overlap loses other elements, is not
modelled, nor are torn slice headers. `raced` is a history variable: it is set
when one goroutine begins to update the queue, or `memtrack`, while another is
at it. The properties that need a lock are stated for behaviours in which it is
not set; the others hold whatever overlaps. A lock around these updates would
keep it false. `Run` calls `LimitMemory` and gives a first hint before there are
any requests, once per process, so `running` and `freedmemhints` are set.

### Housekeeping

`splitJobCh` sends each job to the copy stage and then to housekeeping, through
two buffers. A job stands for the tag it wants at the destination. `present` is
what the destination holds: `CopyEnds` adds to it and `DeleteTag` removes from
it, while `ListTag` looks at one tag after the other. Housekeeping's loops are
its stages: `load` (the listing), `keep` (the jobs are removed from
`delTagsMap`), `delete` (the rest is handed to workers), `closed`. The initial
states choose what is at the destination and which desired tags the sources
resolved: the filter sends nothing before all of them have answered. `failed`
collects the tags of failure events; whether these arrive is a question for
`CopyStage`. The copy stage takes every job at last: what it does otherwise is
shown with `InterleaveBuffer`, `CopyStage` and `MemLim`. `crane.Delete` of a tag
removes that tag only.

### TagPolicy

The entries of one image, in the order in which they arrived, are sorted (entries
of one time in any order), and pass two loops, of one action for each iteration,
and the cut. `ix` is the index of the loop. Several entries may have one name.
`FillPanics` is the index out of range that follows when entries of one name
have different times, which two listings of an image can yield; the properties
are stated for one time per name (`OneTimeEach`). `minNum` and `maxNum` are
natural numbers; `LastModified` is always set by `ResolveTags`.

The loops count entries, and `ResolveTags` of Docker Hub returns one for each
platform of a tag (`dockerhub.go:136`), all with one name: three platforms of
one tag meet a `minNum` of 3. `PolicyHeld` is stated for entries.

### RegistryCache and ResolvePipeline

`RegistryCache` has no `Next`: its definitions are the steps that a goroutine
takes on what all of them share, and `ResolvePipeline` puts them in the order of
the code. Every operation of a cache is one step (go-cache locks each), and so
is every access of a field of an object. `FromImageRef` is a lookup
(`LookupFinds`, `LookupMisses` with the making of a client) and an insertion
(`Insert`), because the map has no lock; `MapRace` is the runtime's detection of
that, which ends the process. `SetTags` is the storing of the list (in
`ListAnswered`), and for each tag a look at its entry (`LookAt`) and its
replacement (`Replace`). The setting of a digest, and of the size and the cache,
are two steps (`DetailsAnswered`, `StoreDetails`), between which other workers
see the object. `Expire` is a `Get` that finds the TTL of an entry over.

An object is a pair of a listing and a tag, so that two listings of one image
make different objects of one cache key. `digests` and `sizes` are the objects
that have them. What the registry holds does not change during the run, and a
digest that is read while it is set counts as either: the code looks at its
length only. A tag has one platform here: several of one name would share one
cache entry, whose last one wins. The order of a list is any.

The map has the clients of all registries: `regcache` has one for each base URL,
`RegistryOf` gives the registry of a source's directory, and every client has a
cache of its own. The runtime may notice any insertion (`MapRace`): while a
goroutine writes the map, another one may look up or insert a client of whatever
registry. If none of the source's own stages does, the `resolve` of housekeeping
may, which looks up the destinations' clients at the same time.

The conditions of `SetTags` and `GetTagDetails` ask for a digest and for
`LastModified`. Every object that this stage makes or completes has the latter,
so `Richer` and `Hit` ask for the digest alone. `copyImage` stores its target
without it (`run.go:487`), under a tag of a destination, which no source has.

A chain of `resolve` is three goroutines (`at[<<"dirs", c>>]`, `"tags"`,
`"details"`), which send with `SendImage`, `SendTag` and `SendDetails`; the last
is received by the chain's forwarder and passed on to the filter, which takes
whatever comes. `Leave` is the end of a loop with the closing of its channels,
`Close` the goroutine that waits for the forwarders. `Rejected` and `Fails` are
the error paths, `Fails` also that of schema 1. A request may fail at any time,
which includes the deadlines of the workers: they run from the creation of a
worker, so from some moment on every request may fail. The events of failures
are `MirrorRun`'s; here a history variable, `missing`, has the tags that hung on
the item. `Known`, `Hit` and `Richer` are the conditions of `ResolveTagDetails`,
`GetTagDetails` and `SetTags`.

`preflightChecks` has inserted the clients of the destinations' registries
(`Preflight`) before the stages start; where a source and a destination share a
registry, its client is known from the start. So what housekeeping and
`copyImage` look up is there, with one exception that is not in the model: the
checks parse the reference first, and a destination written `docker.io/...` is
then put in the map as `index.docker.io`, so that housekeeping inserts a client
for it. `copyImage` comes later than every insertion of a source: the filter sends
nothing before the channel of `resolve` is closed. GCR's empty catalogue is not
cached in the code and is in the model; the list is empty either way.

### MirrorRun

A job of the command line. `CheckDestination`, `PreflightFails` and `Start` are
`preflightChecks`: a destination without push permission is dropped, any other
failure ends the job. After that, what the stages do is a set of items of work,
each with the channel its worker emits to, its event, the items it needs, and
the destination where it takes place. `Finish` is the end of an item: done,
failed, or skipped; `Omit` says that it never comes because of what it needs.
The other modules say what the stages do; here it matters which events they
emit, and in which order the items become possible.

Not every item ends: the other modules show calls that do not return (a `Tick`
that blocks on its own channel, a request for memory that is lost or too large,
workers that all send a job back, a registry asked without a deadline) and panics
(a job sent back on a closed channel, the race on the map of clients). `Hang` and
`Panic` are these, for the items of `MayHang` and `MayPanic`; a worker's further
items hang with it. `Ends` then says how far the run gets: it returns, or panics,
or comes to a state (`OnlyHungLeft`) in which only hung items and what needs them
are left, and no event is kept by a forwarder.

`Emit` loses the event unless the forwarder of the channel is in its receive.
Forwarders form a tree (`Into`): the events of a worker pass one for its own
channel, then those of `resolve`, of housekeeping, and of `Run`. `Forward` is a
rendezvous of two, `Process` of one with `Run`'s loop, in which both handlers
run (`UpdateStatus`, `UpdateSummary`). `Closed` and `End` are `wg.Done`,
`wg.Wait` and the closing of channels. `Return` asks `Count` for the failures.

Three things that the translation shows. `Counter` reads `Copied` when asked for
the deleted ones (`status.go:87`), which `Run` never does. `copyImage` emits
nothing when it succeeds, so `Summary.NewTags` and the counter of copies stay
empty. A failed handler is only logged, but none can fail: every event is a
status change of a known type.

## The runs

| Run | Instance | Shows |
|---|---|---|
| `interleave` | 7 jobs of 3 images (4, 2 and 1 tags), interval 2, room for 3 | `EveryJobOnce`, `Spacing`, `FlushHasRoom`, `BlocksOnlyBeyondLimit`, `DeliveredUnlessBlocked`, `ImplementsRelay` |
| `interleave_blocks` | the same | violation of `AllDelivered` |
| `copy` | 2 workers, 3 jobs, 2 cancellations | `JobInOnePlace`, `NoFalseFailure`, `TimeoutBounded`, `KeepsPromise`, `Ends` |
| `copy_requeue_panics` | the same | violation of `RequeueDoesNotPanic` |
| `copy_failure_lost` | no cancellations | violation of `FailuresReported` |
| `memlim` | 3 requests of 4, 4 and 7 units, 2 workers, limit 10, integers modulo 16, one `shedLoad` | `QueueExact`, `TrackExact`, `LimitKept`, `OnlyAdmittedKilled`, `Served` |
| `memlim_lost` | the same | violation of `WaitEnds` |
| `housekeeping` | 2 desired tags, one other, one of schema 1, buffers of 1, 2 workers | `WantedStays`, `Converges` |
| `housekeeping_desired` | the same | violation of `DesiredStays` |
| `tag_policy` | up to 4 entries, 2 of one tag, 3 times, 12 policies | `KeepsYoungest`, `PolicyHeld`, `NeverPanics`, `Finishes` |
| `resolve` | 2 sources of one directory, 1 image, 1 tag, 2 chains, 1 expiry, either kind of registry, a destination's beside it | `DigestKnown`, `RichStays`, `OneClientEach`, `SettledForGood`, `KeepsPromise`, `Ends` |
| `status` | 2 destinations, 5 items of 2 tags, each of which may hang or panic, 8 event channels in 3 levels | `StatusExact`, `ResultExact`, `Ends` |

Bounds. Four tags of one image are the least for which `FlushBuffer` calls
itself; with interval 2 an entry expires and is used again; with room for
three, the seven jobs reach the full channel, and the flush still calls itself. Two workers are enough for every
race on the timeout and for everyone requeueing; with three jobs there is one
with the interleave stage while both workers hold one. `MaxCancels` bounds how
often memlim cancels: without a bound a run may requeue for ever. With two
cancellations both workers can be cancelled, or the same job twice.
Two workers are enough for every overlap of two updates of memlim's queue; the
third request queues behind a smaller one that overtakes it, or comes back after
a removal; 4 and 7 do not fit together, and 16 is the least power of two that
lets an excess over the limit wrap around. Buffers of one job make both sends of
`splitJobCh` block while the destination is listed, and two deletions overlap.
Four entries are two platforms of a tag and one entry each that is younger and
older; the policies have either bound at zero, the smaller one, and beyond the
number of entries.
Two sources that share a directory, as two projects of GCR do (its cache key has
no project, and its filter of the catalogue none either), make two chains ask
one cache for one image and one tag: that is what an overlap of `SetTags`,
`SetTagDetails` and a hit needs. The two listings are two objects of one key. A
second tag would only repeat the loop of `SetTags`, whose iterations touch
different keys. Docker Hub lists no digests here (`WithImages` is empty), since
with a digest and a size nothing is left to ask; GCR lists them all, without
sizes. One expiry puts a miss where a hit was; the other chain can fill the entry
again. The destination's registry has its client in the map from the start, while
the two chains race to insert those of the sources' registry: a settled client, and
an insertion that can end the process under a lookup of it, are in one map. A source
of a third registry would make the run too large; `MapSettles` and
`ChainsMakeOneClientEach` are proved for any number. The five items of `status` are one tag copied to two destinations and one
found at a destination and deleted: a channel has two events, an item needs
another, the summary has both kinds, and events pass two or three forwarders.

Fairness. All specifications but one assume only weak fairness of the whole
next-state relation: some goroutine that can run runs. In `CopyStage` this
includes that a copy ends (it has a deadline) and that memlim admits a waiting
job at last, which is `Served` of `MemLim` and holds while no updates overlap.
For the other stages it includes that they end, which `Housekeeping` and
`ResolvePipeline` have for theirs. In these two it includes that requests to
registries end. Those of `ResolveTagDetails`, of both registries, and of GCR's
`ResolveTags` have no deadline of the code's (`_ = ctx`, `dockerhub.go:160`,
`gcr.go:71` and `:121`), so for them that is an assumption about the transport.
`MirrorRun` assumes nothing of the kind: an item that may hang does or does not.
It assumes that the requests of `preflightChecks` end. Every behaviour of these modules is finite (proved, see below; of `CopyStage`
because of `MaxCancels`), so it makes them end. `MemLim` has
goroutines that could starve each other: it assumes that the timer and every
request run on (weak fairness of each; a copy ends), and that the timer finds
the least possible allocation again and again (strong fairness of
`TickAfterCollection`): memory that is not in use is collected, and the timer
ticks for ever. Nothing is assumed of `shedLoad`.

Deadlock is checked in every run. The states in which the system may stop are
named: `Halted` of each module (finished, blocked, stuck or crashed).

### Violations

- `AllDelivered` with a small buffer: `Tick` sends to its own channel. The test
  `Test_InterleaveBuffer` expects all the jobs to come out; with more than
  `ConfigBufferSize` jobs buffered the stage stops, and with it the run.
  `BlocksOnlyBeyondLimit` says when: more than `ConfigBufferSize` jobs on top of
  one per image.
- `RequeueDoesNotPanic`: the interleave stage closes the job channel after its
  last job, and a worker whose copy is cancelled later sends to it.
- `FailuresReported`: `emit` drops the event of a failed copy when the forwarder
  is not in its receive, and `Run` returns nil.
- `WaitEnds`: two workers append to the queue at one time, and one request is
  lost. Its worker waits for ever, and so does the run. An append that a removal
  overlaps can bring an admitted request back; its channel is then closed twice,
  which panics. `memtrack` can drift, and the limit is then exceeded.
- `DesiredStays`: housekeeping deletes what has no job, and a source that does
  not answer yields none.

### Where the code and its comments differ

The models follow the code. No property is stated for these, since none of the
stage's promises depends on them; what bears them out is named.

- `Tick` "returns the same tag or a replacement tag for the current epoch"
  (`interleave_buffer.go:36-37`; also `:56`, "delete from filter", and `:66`,
  "Retrieve first one from channel that isn't in filter"). Nothing deletes from the
  filter, and the scan of the buffer asks whether an image is in it, not whether its
  entry has expired. The theorem `NoReplacement` says that every buffered job's image
  is in it: the branch at `:69` is dead, and all buffered jobs wait for the flush.
- "Requeuing while temporarily doubling timeout" (`run.go:531`). `WriteTimeout` is the
  only assignment of the timeout and only doubles it: later jobs, and later runs, have
  the doubled one, and are not tried again when it expires. `TimeoutBounded` says how
  far it can grow.
- "At least some images could not be copied successfully" (`run.go:122`) is what `Run`
  says of every failure counted, which may be one to resolve or to delete:
  `CopyPromise` allows an error without a failed copy, after `FailElsewhere`.

Three things the passing runs say that a reader of the code may not expect. The
workers of the copy stage may all wait to send a job back to each other (`Ends`
names the state, `Stuck`). The check of `SetTags` against a richer entry is not
atomic with the replacement: `RichStays` holds but for an entry that gets a digest
in between, by whatever step of another goroutine (`overtaken`): then the poorer
object replaces the richer, and a later worker asks the registry again. And the map
of clients is not safe once the first client is in it: `SettledForGood` needs the
clients of all sources' registries to be settled before it says that the process
is not ended by a race, and the source whose registry is new may come late.

## The proofs

`InterleaveBufferProofs` proves, for all sets of jobs, images, intervals and
capacities (`InterleaveAssumption`):

- `TypeCorrect`, `NothingLost`, `TagsAreSpaced`, `FlushNeverBlocks`,
  `BlocksOnlyOnTooMany`: the invariants the runs check;
- `NoReplacement`: the image of every buffered job is in the filter
  (`BufferedInFilter`), so no `Tick` ever returns another job than its own;
- `NeverBlocksWithinLimit`: with at most `BufferSize + 1` jobs in all, no `Tick`
  blocks, whatever their images;
- `EndsEmpty` and `FlushBufferShrinks`: a stage that has ended has sent all it has
  received, and each call of `FlushBuffer` by itself is on fewer jobs;
- `StageImplementsRelay`: the refinement of `JobRelay`.

The inductive invariant `IInv` adds two parts. `FilterTracksOutput` relates the
filter to the output: the entry of an image is at least `Interval` epochs after
the position at which the buffer last returned a job of that image; without it
nothing connects the test `imgEpoch <= i.epoch` with the distance of two tags
(`Spacing`). `Shape` says which variables are in use in which phase. The lemma
`KeepGrowsBuffer` uses `BufferedInFilter` to show that the scan of `Tick` finds
nothing, which removes the replacement branch from all later steps.
`ReceivedCovers` counts: the jobs received are at least those buffered and one
for each image in the filter. `FilterCounted` says that a buffer whose filter
has an image has returned a job, so of the jobs a round of the flush starts with
(`Round`) the next round has fewer. The
refinement has one step per action: `TickPass` is a `PassOn` or, in the flush, a
`Release`; `TickKeep` is a `Keep` or, in the flush, no step.

`CopyStageProofs` proves, for all finite sets of workers and jobs and any bound
on cancellations (`CopyAssumption`):

- `CopyTypeCorrect`, `JobsAreKept`, `FailuresAreReal`, `DoublingStops`: the
  safety properties of the run `copy`;
- `CopyKeepsPromise`: the refinement of `CopyPromise`;
- `OnlyRequeuesGetStuck`: once the other stages have ended, workers, forwarders
  and `Run` wait for each other in no state but `Stuck`, in which every worker
  sends a job back and the interleave stage still has one;
- `RestBetweenCancels`: every step takes a retry after a timeout (`RetriesLeft`),
  or leaves these as they are and takes from a natural number, `StepsLeft`, or is a
  cancellation by memlim. So between two cancellations there are finitely many
  steps. memlim has no bound on how often it cancels; a run that goes on for ever
  is one in which it cancels again and again, and nothing else can be the cause.

Its inductive invariant has three more parts. `JobShape` says at which places a
worker has a job. `DoublingsLeft` bounds
`timeout`, and what each doubler has read, by the workers that can still write:
a worker that has read the default leaves the set of doublers with its write, so
the sum of `timeout` and the doublers never exceeds the number of workers; the
bound on `timeout` alone is not inductive. `ClosingOrder` says that the channel
is closed after the last job, a worker's forwarder ends after the worker, and
the relay after all forwarders; with `JobShape` it gives that `Return` finds
every job settled, which is the one hard step of the refinement, and that
nobody waits for a forwarder that does not come. `StepsLeft` weighs the place of each
worker and forwarder; the sum over workers is the cardinality of a set of units
(`WorkersLeft`), because a fold is out of the provers' reach. A timeout costs one of
the workers that may still find the default (`MayDouble`), a cancellation one of
none of these: it may set `StepsLeft` back, and only it may. The two theorems,
with the finitely many cancellations of an instance, are `Ends` up to its last
step, from a measure to a liveness formula. `CopyAssumption` wants at least one worker:
`--parallel 0` starts none, and then `Run` returns with nothing copied.

`MemLimProofs` proves, for all requests and sizes, workers, limits, word sizes
and capacities (`MemLimAssumption`):

- `MemLimTypeCorrect` and `SheddingSparesTheQueue`: whatever overlaps;
- `QueueIsExact`, `TrackIsExact`, `AdmissionKeepsLimit`: while no updates overlap;
- `OversizedNeverProceeds`: while no updates overlap, a request of at least the
  limit never gets beyond its wait: an image that large holds up its worker, and
  the run, for ever. With an overlap `memtrack` may wrap, and it is admitted.

Its inductive invariant has four more parts. `InBounds` and `SlotsWritten` say
that the indices and lengths that someone has loaded are within the written part
of the array, which holds whatever overlaps. `ActiveAdmitted` says that the
lists of activated goroutines, also those loaded and not stored yet, hold
admitted requests. `Alone` says that, without an overlap, whoever updates the
queue does it alone and with its present length, and the manager holds a
waiting request; without it nothing connects the length a goroutine has loaded
with the queue. The lemma `ShiftedRemoves` says what the shift does to the
elements of the queue. `TrackInv` adds the memory: `Outstanding`, the memory
admitted, is the cardinality of a set of units, one for each unit of each
request, so that the lemma `UnitsAdd` can add a request to it. `TrackAlone` says that whoever
updates `memtrack` has its present value, and that the request the manager has
picked still fits: hints that come after `avail` was computed only lower `memtrack`.

`HousekeepingProofs` proves, for all tags, workers and buffers
(`HousekeepingAssumption`), `HousekeepingTypeCorrect` and `WantedTagsStay`; and
what `Converges` rests on: `EndsConverged` (when all stages have ended the
destination is as it should be), `NobodyWaitsForEver` (before that some goroutine
can go, although one goroutine fills two bounded buffers in turn) and
`StagesRunOut` (every step lowers the number of jobs and tags still to be
handled). The assumption includes at least one deleter (`ConfigNumWorkers` is
eight per CPU): without one the stage never ends. The
invariant behind it, `WantedComes`, says that before the listing has ended every
job is still to come, and that a wanted tag is in `delTagsMap` only while its job
is in the hands of `transform`, of `splitJobCh`, or in the buffer: the closing of
an empty buffer (`SplitShape`) then leaves none. For `EndsConverged`, `ConvergeInv`
adds where each tag that should go, or come, still is.

`TagPolicyProofs` proves, for every list of entries, names, times and policies
(`TagPolicyAssumption`), `TagPolicyTypeCorrect`, `FillStaysInList`,
`YoungestAreKept` and `PolicyIsHeld`. `RecentPart` says that the first loop
selects a prefix of the sorted list; `FillPart` that the second passes over that
prefix, whose names are all on the blacklist, and from then on selects every
entry it comes to, so that its index is the length of the selection. `LoopsRunOut` gives
a natural number that every step lowers, also the one of the second loop that
passes an entry it does not select.

`MirrorRunProofs` proves, for any destinations, tree of event channels and work
(`RunAssumption`, which says that every channel leads to `Run`),
its `TypeCorrect`, `StatusIsExact` and `ResultIsExact`. `RunInv` adds
that an event under way is in one place and has been taken (`InOnePlace`), which
makes `Seen` grow by one event with `Process`; that a forwarder that has ended
holds nothing and that what is merged into its channel is closed (`OverClosed`);
and that items at dropped destinations are absent (`Placed`). When `Run` returns,
`OverClosed` goes up the tree from `Run` to the workers, by the induction that
`RunAssumption` states as a condition on sets of channels: no event is under way
and no item open.

It proves also what is behind the end of a run. `NobodyWaitsForEver`: unless the
run has ended, has panicked, or has only hung items left and what needs them,
somebody can go, a possible item, a forwarder or `Run`. So an event is never kept
because some other item hangs. A channel that cannot
close has another unclosed one merged into it, and the lemma `TreeHasLeaves`
shows by counting that a finite tree has no such set of channels.
`RunTakesFinitelyManySteps`: each step takes something from the finite set `Left`
(destinations to check, open items, channels that an event has `Above` it,
forwarders, phases) and adds nothing. For these two `RunAssumption` says that the
channels are finitely many, each being made by a call in the code, and that an
item needs only what earlier stages send: a set of items that has every item
whose needs it has is all of `Work`. Items that need each other in a circle would
be workers that receive from each other, and the stages form a line.

`ResolvePipelineProofs` proves, for any chains, sources and listings
(`ResolveAssumption`), its `TypeCorrect`, `DigestIsKnown`, `MapSettles`,
`ChainsMakeOneClientEach` and `RichEntriesStay`. `Shape` says for each goroutine what it has at which
place: in particular that an object whose size is being set, or that is sent by
the last goroutine, has a digest, and that whoever is past `FromImageRef`, or is
not the first of its chain, finds its source's registry in the map. `MadeBy` counts
the clients of a registry by the chains that made them (`Makers`): while the map has
none these are the chains about to insert, so a chain makes no second one. A client
of `Preflight` is there from the start, and its registry gets no other. `RichInv` says that a cache has no object
of a listing still to come, and that whoever is between the look of `SetTags` and
its replacement (`Looked`) brings a digest, or faces an entry without, or is in `overtaken`. The proof needed a case
that TLC meets only with three sources: the entry that one `SetTags` has looked at may
be replaced by that of another, whose object got its digest meanwhile. `Overtakes`
therefore asks what a step does to the entry, and not which action it is.

Of the end of the stage it proves `NobodyWaitsForEver` (until the channel to the
filter is closed some goroutine can go: `ChainCanGo` follows a chain from its last
goroutine, which waits for the one before it, up to `prepare`) and
`StageTakesFinitelyManySteps`. A list is as long as the registry makes it, so no
number of steps is left: the measure is a row of four finite sets, `Outside` (the
sources still to send, the expiries, the ends) and the `Units` of each goroutine of
the chains, by stage. A step takes from one of them and adds nothing to those
before it. A goroutine that has not its list yet still has every image and tag
before it. This is why `ResolveAssumption` says that a registry holds finitely many
images and tags. `Turns` adds to `Shape` that who sends has something to send and
that `SetTags` has one object at a time.

`ResolveRefinementProofs` proves `ResolveKeepsPromise`. `Ledger` is the heart: each
tag of a source that has been sent is out, or missing, or hangs on exactly one
goroutine (`Load`: what it works on or still has to send). A step hands a load
over, splits it, or settles it. `Order` says that the end comes down a chain;
with the ledger, `Close` finds every tag settled.

Only model-checked: liveness (`DeliveredUnlessBlocked`, `Ends`, `Served`,
`Converges`, `Finishes`), which is out of the prover's reach. So is ENABLED:
`SomeoneCanGo` of the proofs of `CopyStage`, `Housekeeping`, `MirrorRun` and
`ResolvePipeline` lists the guards of the actions instead. TLC finds it equal to the
ENABLED of the actions in every reachable state, on the instances of the runs
(`CopyStage`: once the other stages have ended and unless the process has panicked;
`ResolvePipeline`: without the expiry).

## Plan

In this order, the most important behaviour first:

1. `InterleaveBuffer`, `JobRelay`, `InterleaveBufferProofs` - done.
2. `CopyStage`, `CopyPromise`, `CopyStageProofs` - done.
3. `MemLim`, `MemLimProofs` - done.
4. `Housekeeping`, `HousekeepingProofs` - done.
5. `TagPolicy`, `TagPolicyProofs` - done.
6. `RegistryCache`: `SetTags` against concurrent `SetTagDetails`, and the map of
   clients that all stages read and write without a lock - done.
7. `MirrorRun`, `MirrorRunProofs`: preflight checks, events, status counters and
   summary, and the result of a run - done.
8. `ResolvePipeline`, `ResolvePromise` and their proofs: workers whose timeout
   starts when they are created, and the merging of their channels - done.
9. An abstract specification of a mirror run (tags come and go at the
   destination until it holds what the policy selects), implemented by
   `Housekeeping`; a lock on memlim's queue as a variant for which `raced` is
   proved to stay false - left.
10. The safety half of the liveness properties as theorems (nobody waits for
   ever, and steps run out), for `InterleaveBuffer`, `CopyStage`,
   `Housekeeping`, `MirrorRun`, `ResolvePipeline` and `TagPolicy` - done; not for
   `MemLim`, whose timer ticks for ever.

## Not modelled

The HTTP requests of the registry clients and the conversion of their answers
(a request is a choice of the environment; one answer panics, which is left out:
`DockerHubRegistry.ResolveImages` logs a repository's name that does not parse,
`dockerhub.go:69`, and then dereferences the nil reference at `:78`), the flags,
the configuration file,
the operator (its `Reconcile` is empty), API types, logging and context helpers:
no state of the run, or sequential set-up code. `eventSink`, `mergeStringChs`,
`SetTotal` and `LimitMemoryDynamic` are not called. The Go runtime's scheduling
and memory statistics are choices of the environment.
