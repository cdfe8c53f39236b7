---------------------------- MODULE Housekeeping ----------------------------
(***************************************************************************)
(* Housekeeping (run.go, Runner.housekeeping and deleteTag) beside the     *)
(* copy stage.  splitJobCh hands every job to both, through two buffers;   *)
(* housekeeping lists the destination while tags are copied to it, then    *)
(* drops the tags that jobs want, and has workers delete the rest.         *)
(*                                                                         *)
(* A job is the tag at the destination that it wants.  The filter sends    *)
(* its first job after all sources are resolved, so the initial states say *)
(* which desired tags were resolved.                                       *)
(***************************************************************************)
EXTENDS Naturals, Sequences, FiniteSets, Functions

CONSTANTS
  Tags,       \* tags at the destination
  Desired,    \* those the mirror configuration asks for
  Schema1,    \* those whose manifest is of the unsupported schema 1
  Deleters,   \* the workers of deleteTag
  BufferSize, \* ConfigBufferSize
  NoTag

ASSUME HousekeepingAssumption ==
  /\ IsFiniteSet(Tags) /\ NoTag \notin Tags
  /\ Desired \subseteq Tags /\ Schema1 \subseteq Tags
  /\ IsFiniteSet(Deleters) /\ Deleters # {}
  /\ BufferSize \in Nat \ {0}

VARIABLES
  jobs,     \* the desired tags that the sources have resolved
  pending,  \* jobs that transform has not sent yet
  split,    \* splitJobCh: the send it is at, and its job
  toCopy,   \* out1
  toKeep,   \* out2
  copying,  \* jobs in the interleave and copy stages
  present,  \* tags at the destination
  unlisted, \* tags the listing of the destination has not come to
  stage,    \* the loop that housekeeping is in
  delTags,  \* delTagsMap
  deleting, \* the tag of each worker of deleteTag
  failed    \* tags that an event of a failure has been emitted for

vars == <<jobs, pending, split, toCopy, toKeep, copying, present, unlisted,
          stage, delTags, deleting, failed>>

copyVars == <<copying, present, failed>>
listVars == <<unlisted, stage, delTags, deleting>>

TypeOK ==
  /\ jobs \subseteq Desired /\ pending \subseteq jobs
  /\ split \in [pc : {"receive", "first", "second", "closed"}, job : jobs \cup {NoTag}]
  /\ toCopy \in Seq(jobs) /\ Len(toCopy) <= BufferSize
  /\ toKeep \in Seq(jobs) /\ Len(toKeep) <= BufferSize
  /\ copying \subseteq jobs
  /\ present \subseteq Tags /\ unlisted \subseteq Tags
  /\ stage \in {"load", "keep", "delete", "closed"}
  /\ delTags \subseteq Tags
  /\ deleting \in [Deleters -> Tags \cup {NoTag}]
  /\ failed \subseteq Tags

Receiving == [pc |-> "receive", job |-> NoTag]

Init ==
  /\ \E resolved \in SUBSET (Desired \ Schema1), there \in SUBSET Tags :
       /\ jobs = resolved /\ pending = resolved
       /\ present = there
  /\ split = Receiving
  /\ toCopy = <<>> /\ toKeep = <<>>
  /\ copying = {}
  /\ unlisted = Tags
  /\ stage = "load"
  /\ delTags = {}
  /\ deleting = [d \in Deleters |-> NoTag]
  /\ failed = {}

-----------------------------------------------------------------------------
(* splitJobCh *)

Splits(from, to) ==
  /\ split.pc = from
  /\ split' = to
  /\ UNCHANGED <<jobs, copyVars, listVars>>

SplitReceive ==
  /\ \E t \in pending :
       /\ Splits("receive", [pc |-> "first", job |-> t])
       /\ pending' = pending \ {t}
  /\ UNCHANGED <<toCopy, toKeep>>

\* Mutant of HasRoom: one job more than the buffer holds.
HasRoomForOneMore(buffer) == Len(buffer) <= BufferSize

\* A send waits while its buffer is full.
HasRoom(buffer) == Len(buffer) < BufferSize

SendToCopy ==
  /\ HasRoom(toCopy)
  /\ Splits("first", [split EXCEPT !.pc = "second"])
  /\ toCopy' = Append(toCopy, split.job)
  /\ UNCHANGED <<pending, toKeep>>

SendToKeep ==
  /\ HasRoom(toKeep)
  /\ Splits("second", Receiving)
  /\ toKeep' = Append(toKeep, split.job)
  /\ UNCHANGED <<pending, toCopy>>

SplitCloses ==
  /\ pending = {}
  /\ Splits("receive", [split EXCEPT !.pc = "closed"])
  /\ UNCHANGED <<pending, toCopy, toKeep>>

-----------------------------------------------------------------------------
(* The interleave and copy stages *)

TakeJob ==
  /\ toCopy # <<>>
  /\ copying' = copying \cup {Head(toCopy)}
  /\ toCopy' = Tail(toCopy)
  /\ UNCHANGED <<jobs, pending, split, toKeep, present, failed, listVars>>

\* The tag is copied or already there, or the copy fails.
CopyEnds(t) ==
  /\ t \in copying
  /\ copying' = copying \ {t}
  /\ \/ present' = present \cup {t} /\ UNCHANGED failed
     \/ failed' = failed \cup {t} /\ UNCHANGED present
  /\ UNCHANGED <<jobs, pending, split, toCopy, toKeep, listVars>>

-----------------------------------------------------------------------------
(* housekeeping and deleteTag *)

\* The destination's resolve comes to t and finds it or not.  Its details are
\* resolved, except for schema 1, which is skipped without an event.
ListTag(t) ==
  /\ t \in unlisted
  /\ unlisted' = unlisted \ {t}
  /\ delTags' = IF t \in present \ Schema1 THEN delTags \cup {t} ELSE delTags
  /\ UNCHANGED <<jobs, pending, split, toCopy, toKeep, copyVars, stage, deleting>>

\* The tag, its image or its directory cannot be resolved.
ListFails(t) ==
  /\ t \in unlisted
  /\ unlisted' = unlisted \ {t}
  /\ failed' = failed \cup {t}
  /\ UNCHANGED <<jobs, pending, split, toCopy, toKeep, copying, present, stage, delTags, deleting>>

Enters(from, to) ==
  /\ stage = from
  /\ stage' = to
  /\ UNCHANGED <<jobs, pending, split, toCopy, toKeep, copyVars, unlisted, delTags, deleting>>

LoadEnds == unlisted = {} /\ Enters("load", "keep")

\* delete(delTagsMap, tag.dst.String())
KeepTag ==
  /\ stage = "keep"
  /\ toKeep # <<>>
  /\ delTags' = delTags \ {Head(toKeep)}
  /\ toKeep' = Tail(toKeep)
  /\ UNCHANGED <<jobs, pending, split, toCopy, copyVars, unlisted, stage, deleting>>

\* Mutant of KeepEnds: the channel is drained, but may not be closed.
KeepEndsDrained == toKeep = <<>> /\ Enters("keep", "delete")

\* out2 is closed and drained.
KeepEnds == split.pc = "closed" /\ toKeep = <<>> /\ Enters("keep", "delete")

\* deltags has no buffer: an idle worker receives the tag.
SendDelete(d) ==
  /\ stage = "delete"
  /\ deleting[d] = NoTag
  /\ \E t \in delTags :
       /\ deleting' = [deleting EXCEPT ![d] = t]
       /\ delTags' = delTags \ {t}
  /\ UNCHANGED <<jobs, pending, split, toCopy, toKeep, copyVars, unlisted, stage>>

\* Mutant of DeleteEnds: the end of the map is not awaited.
DeleteEndsEarly == Enters("delete", "closed")

DeleteEnds == delTags = {} /\ Enters("delete", "closed")

\* crane.Delete removes the tag or fails.
DeleteTag(d) ==
  /\ deleting[d] # NoTag
  /\ deleting' = [deleting EXCEPT ![d] = NoTag]
  /\ \/ present' = present \ {deleting[d]} /\ UNCHANGED failed
     \/ failed' = failed \cup {deleting[d]} /\ UNCHANGED present
  /\ UNCHANGED <<jobs, pending, split, toCopy, toKeep, copying, unlisted, stage, delTags>>

-----------------------------------------------------------------------------
(* The specification *)

\* Every stage has ended.
Ended ==
  /\ split.pc = "closed" /\ toCopy = <<>> /\ copying = {}
  /\ stage = "closed" /\ \A d \in Deleters : deleting[d] = NoTag

Splitter == SplitReceive \/ SendToCopy \/ SendToKeep \/ SplitCloses
Copier == TakeJob \/ \E t \in jobs : CopyEnds(t)
Keeper ==
  \/ \E t \in Tags : ListTag(t) \/ ListFails(t)
  \/ LoadEnds \/ KeepTag \/ KeepEnds \/ DeleteEnds
  \/ \E d \in Deleters : SendDelete(d) \/ DeleteTag(d)

Next == Splitter \/ Copier \/ Keeper \/ (Ended /\ UNCHANGED vars)

\* Some goroutine that can run runs; requests to registries end.
Spec == Init /\ [][Next]_vars /\ WF_vars(Next)

-----------------------------------------------------------------------------
(* Properties *)

\* run.go:331 "Remove all tags that we want to keep": whatever of the listing,
\* the copies, the jobs and the deletions comes first, a tag that a job wants
\* never disappears from the destination.
WantedStays == [][\A t \in jobs : t \in present => t \in present']_vars

\* The destination has the tags that the jobs want and no other.
Converged == \A t \in Tags \ (failed \cup Schema1) : t \in present <=> t \in jobs

\* run.go:301 "only the desired (specified) image tags are present": although
\* the buffers fill up while the destination is listed, the run gets there,
\* except for failures it reports and for schema 1.
Converges == <>[]Converged

\* run.go:331 "Remove all tags that we want to keep": a desired tag is never
\* deleted.  The code keeps the tags that have jobs instead, and a source that
\* cannot be resolved yields none.
DesiredStays == [][\A t \in Desired : t \in present => t \in present']_vars
=============================================================================
