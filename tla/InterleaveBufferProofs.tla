----------------------- MODULE InterleaveBufferProofs -----------------------
(***************************************************************************)
(* Theorems about the interleave stage, for every set of jobs, every       *)
(* interval and every buffer capacity: no job is lost or doubled, tags of  *)
(* an image are spaced, when the stage blocks, that its flush ends, and    *)
(* that it implements JobRelay.                                            *)
(***************************************************************************)
EXTENDS InterleaveBuffer, SequenceTheorems, FiniteSetTheorems, TLAPS

-----------------------------------------------------------------------------
(* Sequences without repetition *)

\* Append adds one member to the range, and keeps a sequence free of
\* repetitions if the member is new.
LEMMA AppendRange ==
  ASSUME NEW S, NEW s \in Seq(S), NEW e \in S
  PROVE  /\ Range(Append(s, e)) = Range(s) \cup {e}
         /\ IsInjective(s) /\ e \notin Range(s) => IsInjective(Append(s, e))
<1> DEFINE t == Append(s, e)
<1>1. /\ t \in Seq(S)
      /\ Len(t) = Len(s) + 1
      /\ \A i \in 1..Len(s) : t[i] = s[i]
      /\ t[Len(s) + 1] = e
  BY AppendProperties
<1>2. DOMAIN t = 1..(Len(s) + 1) /\ DOMAIN s = 1..Len(s) /\ Len(s) \in Nat
  BY <1>1, LenProperties
<1> HIDE DEF t
<1>3. Range(t) = Range(s) \cup {e}
  BY <1>1, <1>2 DEF Range
<1>4. ASSUME IsInjective(s), e \notin Range(s)
      PROVE  IsInjective(t)
  BY <1>1, <1>2, <1>4 DEF Range, IsInjective
<1>5. QED
  BY <1>3, <1>4 DEF t

\* Tail takes the head, and nothing else, out of a sequence without
\* repetitions.
LEMMA TailRange ==
  ASSUME NEW S, NEW s \in Seq(S), s # <<>>, IsInjective(s)
  PROVE  /\ Head(s) \in Range(s)
         /\ Range(Tail(s)) = Range(s) \ {Head(s)}
         /\ IsInjective(Tail(s))
<1> DEFINE t == Tail(s)
<1>1. /\ t \in Seq(S)
      /\ Len(t) = Len(s) - 1
      /\ \A i \in 1..Len(t) : t[i] = s[i + 1]
  BY HeadTailProperties
<1>2. /\ DOMAIN t = 1..(Len(s) - 1)
      /\ DOMAIN s = 1..Len(s)
      /\ Len(s) \in Nat \ {0}
  BY <1>1, LenProperties, EmptySeq
<1>3. Head(s) = s[1]
  OBVIOUS
<1> HIDE DEF t
<1>4. Head(s) \in Range(s)
  BY <1>2, <1>3 DEF Range
<1>5. IsInjective(t)
  BY <1>1, <1>2 DEF IsInjective
<1>6. Range(t) \subseteq Range(s) \ {Head(s)}
  BY <1>1, <1>2, <1>3 DEF IsInjective, Range
<1>7. Range(s) \ {Head(s)} \subseteq Range(t)
  <2>1. SUFFICES ASSUME NEW i \in 2..Len(s)
                 PROVE  s[i] \in Range(t)
    BY <1>2, <1>3 DEF Range
  <2>2. i - 1 \in 1..Len(t) /\ t[i - 1] = s[i]
    BY <1>1, <1>2
  <2>3. QED
    BY <2>2, <1>1, <1>2 DEF Range
<1>8. QED
  BY <1>4, <1>5, <1>6, <1>7 DEF t

\* Appending a buffer of at most one job sends that job, if there is one.
LEMMA ShortConcat ==
  ASSUME NEW S, NEW s \in Seq(S), NEW t \in Seq(S), Len(t) <= 1
  PROVE  \/ t = <<>> /\ s \o t = s
         \/ /\ Len(t) = 1 /\ t[1] \in S
            /\ s \o t = Append(s, t[1])
            /\ Range(t) = {t[1]}
<1>1. Len(t) \in Nat /\ DOMAIN t = 1..Len(t)
  BY LenProperties
<1>2. CASE Len(t) = 0
  <2>1. t = <<>>
    BY <1>2, EmptySeq
  <2>2. s \o <<>> = s
    BY ConcatEmptySeq
  <2>3. QED
    BY <2>1, <2>2
<1>3. CASE Len(t) = 1
  <2>1. t[1] \in S
    BY <1>3, ElementOfSeq
  <2>2. t = <<t[1]>>
    <3>1. <<t[1]>> \in Seq(S) /\ Len(<<t[1]>>) = 1 /\ <<t[1]>>[1] = t[1]
      BY <2>1
    <3>2. QED
      BY <1>3, <3>1, SeqEqual
  <2>3. Append(s, t[1]) = s \o <<t[1]>>
    BY <2>1, AppendIsConcat
  <2>4. Range(t) = {t[1]}
    BY <1>1, <1>3 DEF Range
  <2>5. s \o t = Append(s, t[1])
    BY <2>2, <2>3
  <2>6. QED
    BY <1>3, <2>1, <2>4, <2>5
<1>4. QED
  BY <1>1, <1>2, <1>3

-----------------------------------------------------------------------------
(* The inductive invariant *)

\* Which of the variables are in use in which phase.
Shape ==
  /\ phase \in {"ticking", "blocked"} => drain = <<>>
  /\ phase = "done" => drain = <<>> /\ buf = <<>>
  /\ phase # "blocked" => hand = {}
  /\ Len(buf) <= BufferSize

\* The filter remembers where each image was last sent by this buffer.  The
\* position of out[m] among the buffer's own jobs is m + epoch - Len(out).
FilterTracksOutput ==
  phase # "done" =>
    /\ epoch <= Len(out)
    /\ \A m \in 1..Len(out) :
         Len(out) < m + epoch =>
           /\ ImageOf[out[m]] \in DOMAIN filter
           /\ m + epoch + Interval <= filter[ImageOf[out[m]]] + Len(out) + 1

\* A buffered job waits for an image that has an entry in the filter, and
\* entries are never removed.
BufferedInFilter ==
  phase # "done" => \A x \in Range(buf) : ImageOf[x] \in DOMAIN filter

IInv ==
  /\ TypeOK
  /\ Shape
  /\ EveryJobOnce
  /\ BufferedInFilter
  /\ FlushHasRoom
  /\ FilterTracksOutput
  /\ Spacing

\* The scan of Tick finds no replacement, so a Tick that keeps its job only
\* grows the buffer.
LEMMA KeepGrowsBuffer ==
  ASSUME TypeOK, BufferedInFilter, phase # "done",
         NEW j \in Jobs, TickKeep(j)
  PROVE  /\ ~Fresh(j)
         /\ Len(buf) < BufferSize
         /\ buf' = Append(buf, j)
         /\ UNCHANGED <<filter, epoch, out>>
<1>1. ImageOf[j] \in DOMAIN filter
  BY DEF TickKeep, Fresh
<1>2. /\ Len(Append(buf, j)) = Len(buf) + 1
      /\ \A i \in 1..Len(buf) : Append(buf, j)[i] = buf[i]
      /\ Append(buf, j)[Len(buf) + 1] = j
      /\ Len(buf) \in Nat /\ DOMAIN buf = 1..Len(buf)
  BY AppendProperties, LenProperties DEF TypeOK
<1>3. \A k \in 1..Len(Append(buf, j)) :
        ImageOf[Append(buf, j)[k]] \in DOMAIN filter
  BY <1>1, <1>2 DEF BufferedInFilter, Range
<1>4. Unfiltered(Append(buf, j)) = {}
  BY <1>3 DEF Unfiltered
<1>5. QED
  BY <1>4 DEF TickKeep

\* A new buffer satisfies what a Tick needs.
LEMMA PassKeepsTracking ==
  ASSUME TypeOK, FilterTracksOutput, Spacing, BufferedInFilter,
         phase # "done", phase' # "done",
         NEW j \in Jobs, TickPass(j)
  PROVE  /\ DOMAIN filter' \subseteq Images
         /\ filter' \in [DOMAIN filter' -> Nat]
         /\ epoch' \in Nat
         /\ out' \in Seq(Jobs)
         /\ BufferedInFilter'
         /\ FilterTracksOutput'
         /\ Spacing'
<1> USE InterleaveAssumption DEF TypeOK
<1>1. /\ out' = Append(out, j)
      /\ out' \in Seq(Jobs)
      /\ Len(out') = Len(out) + 1
      /\ \A m \in 1..Len(out) : out'[m] = out[m]
      /\ out'[Len(out) + 1] = j
      /\ Len(out) \in Nat
  BY AppendProperties, LenProperties DEF TickPass, Emit
<1>2. \A m \in 1..Len(out) : out[m] \in Jobs /\ ImageOf[out[m]] \in Images
  BY ElementOfSeq
<1>3. /\ DOMAIN filter' = DOMAIN filter \cup {ImageOf[j]}
      /\ filter'[ImageOf[j]] = epoch + Interval
      /\ \A i \in DOMAIN filter : i # ImageOf[j] => filter'[i] = filter[i]
      /\ epoch' = epoch + 1
      /\ buf' = buf
  BY DEF TickPass, Emit, Remember
<1>4. DOMAIN filter' \subseteq Images
  BY <1>3
<1>5. filter' \in [DOMAIN filter' -> Nat]
  BY DEF TickPass, Emit, Remember
<1>6. ImageOf[j] \in DOMAIN filter => filter[ImageOf[j]] <= epoch
  BY DEF TickPass, Fresh
<1>7. BufferedInFilter'
  BY <1>3 DEF BufferedInFilter
<1>8. FilterTracksOutput'
  <2>1. epoch' <= Len(out')
    BY <1>1, <1>3 DEF FilterTracksOutput
  <2>2. ASSUME NEW m \in 1..Len(out'), Len(out') < m + epoch'
        PROVE  /\ ImageOf[out'[m]] \in DOMAIN filter'
               /\ m + epoch' + Interval <= filter'[ImageOf[out'[m]]] + Len(out') + 1
    <3>1. CASE m = Len(out) + 1
      BY <3>1, <1>1, <1>3
    <3>2. CASE m \in 1..Len(out)
      <4>1. /\ ImageOf[out[m]] \in DOMAIN filter
            /\ m + epoch + Interval <= filter[ImageOf[out[m]]] + Len(out) + 1
        BY <3>2, <2>2, <1>1, <1>3 DEF FilterTracksOutput
      <4>2. /\ filter[ImageOf[out[m]]] \in Nat
            /\ out'[m] = out[m] /\ m \in Nat
            /\ Len(out') = Len(out) + 1 /\ epoch' = epoch + 1
        BY <4>1, <3>2, <1>1, <1>3
      <4>3. ImageOf[out'[m]] \in DOMAIN filter'
        BY <4>1, <4>2, <1>3
      <4>4. CASE ImageOf[out[m]] # ImageOf[j]
        <5>1. filter'[ImageOf[out'[m]]] = filter[ImageOf[out[m]]]
          BY <4>1, <4>2, <4>4, <1>3
        <5>2. m + (epoch + 1) + Interval
                <= filter[ImageOf[out[m]]] + (Len(out) + 1) + 1
          <6> DEFINE f == filter[ImageOf[out[m]]]
          <6>1. /\ f \in Nat /\ m \in Nat /\ epoch \in Nat
                /\ Interval \in Nat /\ Len(out) \in Nat
                /\ m + epoch + Interval <= f + Len(out) + 1
            BY <4>1, <4>2, <1>1
          <6> HIDE DEF f
          <6>2. m + (epoch + 1) + Interval <= f + (Len(out) + 1) + 1
            BY <6>1
          <6>3. QED
            BY <6>2 DEF f
        <5>3. QED
          BY <4>2, <4>3, <5>1, <5>2
      <4>5. CASE ImageOf[out[m]] = ImageOf[j]
        <5>1. filter'[ImageOf[out'[m]]] = epoch + Interval
          BY <4>2, <4>5, <1>3
        <5>2. m + (epoch + 1) + Interval
                <= (epoch + Interval) + (Len(out) + 1) + 1
          BY <4>2, <3>2, <1>1
        <5>3. QED
          BY <4>2, <4>3, <5>1, <5>2
      <4>6. QED
        BY <4>4, <4>5
    <3>3. QED
      BY <3>1, <3>2, <1>1
  <2>3. QED
    BY <2>1, <2>2 DEF FilterTracksOutput
<1>9. Spacing'
  <2>1. SUFFICES ASSUME NEW m \in 1..Len(out'), NEW n \in 1..Len(out'),
                        Len(out') < m + epoch', m < n,
                        ImageOf[out'[m]] = ImageOf[out'[n]]
                 PROVE  m + Interval <= n
    BY DEF Spacing
  <2>2. m \in 1..Len(out) /\ Len(out) < m + epoch
    BY <2>1, <1>1, <1>3
  <2>3. CASE n = Len(out) + 1
    <3>1. /\ ImageOf[j] \in DOMAIN filter
          /\ m + epoch + Interval <= filter[ImageOf[j]] + Len(out) + 1
      BY <2>1, <2>2, <2>3, <1>1 DEF FilterTracksOutput
    <3>2. filter[ImageOf[j]] <= epoch /\ filter[ImageOf[j]] \in Nat
      BY <3>1, <1>6
    <3>3. QED
      BY <3>1, <3>2, <2>2, <2>3, <1>1
  <2>4. CASE n \in 1..Len(out)
    BY <2>1, <2>2, <2>4, <1>1 DEF Spacing
  <2>5. QED
    BY <2>3, <2>4, <1>1
<1>10. QED
  BY <1>1, <1>3, <1>4, <1>5, <1>7, <1>8, <1>9

LEMMA InitEstablishesIInv == Init => IInv
<1> SUFFICES ASSUME Init PROVE IInv
  OBVIOUS
<1> USE InterleaveAssumption DEF Init
<1>1. Range(<<>>) = {} /\ IsInjective(<<>>)
  BY DEF Range, IsInjective
<1>2. TypeOK
  BY DEF TypeOK, Phases, NoEntries
<1>3. Shape /\ FlushHasRoom /\ FilterTracksOutput /\ Spacing
  BY DEF Shape, FlushHasRoom, FilterTracksOutput, Spacing
<1>4. EveryJobOnce /\ BufferedInFilter
  BY <1>1 DEF EveryJobOnce, BufferedInFilter
<1>5. QED
  BY <1>2, <1>3, <1>4 DEF IInv

\* A Tick during the input phase.
LEMMA TickInputKeepsIInv ==
  ASSUME IInv, NEW j \in Jobs, TickInput(j)
  PROVE  IInv'
<1> USE InterleaveAssumption DEF IInv
<1>1. /\ phase = "ticking" /\ phase' = "ticking"
      /\ j \in offered /\ offered' = offered \ {j}
      /\ hand' = hand /\ drain' = drain
      /\ drain = <<>> /\ hand = {}
  BY DEF TickInput, Receive, Shape
<1>2. j \notin Range(out) /\ j \notin Range(buf) /\ j \notin Range(drain)
  BY <1>1 DEF EveryJobOnce
<1>3. CASE TickPass(j)
  <2>1. buf' = buf /\ out' = Append(out, j)
    BY <1>3 DEF TickPass, Emit
  <2>2. /\ Range(out') = Range(out) \cup {j}
        /\ IsInjective(out')
    BY <2>1, <1>2, AppendRange DEF TypeOK, EveryJobOnce
  <2>3. EveryJobOnce'
    BY <2>1, <2>2, <1>1, <1>2 DEF EveryJobOnce
  <2>4. /\ DOMAIN filter' \subseteq Images
        /\ filter' \in [DOMAIN filter' -> Nat]
        /\ epoch' \in Nat
        /\ out' \in Seq(Jobs)
        /\ BufferedInFilter' /\ FilterTracksOutput' /\ Spacing'
    BY <1>1, <1>3, PassKeepsTracking
  <2>5. TypeOK' /\ Shape' /\ FlushHasRoom'
    BY <2>1, <2>4, <1>1 DEF TypeOK, Shape, FlushHasRoom, Phases
  <2>6. QED
    BY <2>3, <2>4, <2>5
<1>4. CASE TickKeep(j)
  <2>1. /\ ~Fresh(j)
        /\ Len(buf) < BufferSize
        /\ buf' = Append(buf, j)
        /\ UNCHANGED <<filter, epoch, out>>
    BY <1>1, <1>4, KeepGrowsBuffer
  <2>2. /\ buf' \in Seq(Jobs)
        /\ Len(buf') = Len(buf) + 1
        /\ Len(buf) \in Nat
    BY <2>1, AppendProperties, LenProperties DEF TypeOK
  <2>3. /\ Range(buf') = Range(buf) \cup {j}
        /\ IsInjective(buf')
    BY <2>1, <1>2, AppendRange DEF TypeOK, EveryJobOnce
  <2>4. EveryJobOnce'
    BY <2>1, <2>3, <1>1, <1>2 DEF EveryJobOnce
  <2>5. BufferedInFilter'
    BY <2>1, <2>3, <1>1 DEF BufferedInFilter, Fresh
  <2>6. FilterTracksOutput' /\ Spacing'
    BY <2>1, <1>1 DEF FilterTracksOutput, Spacing
  <2>7. TypeOK' /\ Shape' /\ FlushHasRoom'
    BY <2>1, <2>2, <1>1 DEF TypeOK, Shape, FlushHasRoom, Phases
  <2>8. QED
    BY <2>4, <2>5, <2>6, <2>7
<1>5. QED
  BY <1>3, <1>4 DEF TickInput

LEMMA TickBlocksKeepsIInv ==
  ASSUME IInv, NEW j \in Jobs, TickBlocks(j)
  PROVE  IInv'
<1> USE DEF IInv, TickBlocks, Receive
<1>1. TypeOK' /\ Shape' /\ FlushHasRoom'
  BY DEF TypeOK, Shape, FlushHasRoom, Phases
<1>2. EveryJobOnce'
  BY DEF EveryJobOnce, Shape
<1>3. BufferedInFilter' /\ FilterTracksOutput' /\ Spacing'
  BY DEF BufferedInFilter, FilterTracksOutput, Spacing
<1>4. QED
  BY <1>1, <1>2, <1>3

\* Entering FlushBuffer, from the input phase or from FlushBuffer.
LEMMA EnterFlushKeepsIInv ==
  ASSUME IInv, EnterFlush, drain = <<>>, phase \in {"ticking", "flushing"},
         phase' = "flushing", UNCHANGED <<offered, hand, out>>
  PROVE  IInv'
<1> USE InterleaveAssumption DEF IInv, EnterFlush
<1>1. Range(<<>>) = {} /\ IsInjective(<<>>)
  BY DEF Range, IsInjective
<1>2. Len(buf) \in Nat /\ Len(<<>>) = 0 /\ <<>> \in Seq(Jobs) /\ Len(out) \in Nat
  BY LenProperties, EmptySeq DEF TypeOK
<1>3. TypeOK'
  BY <1>2 DEF TypeOK, NoEntries, Phases
<1>4. Shape' /\ FlushHasRoom'
  BY <1>2 DEF Shape, FlushHasRoom
<1>5. EveryJobOnce'
  BY <1>1 DEF EveryJobOnce
<1>6. BufferedInFilter'
  BY <1>1 DEF BufferedInFilter
<1>7. FilterTracksOutput' /\ Spacing'
  BY <1>2 DEF FilterTracksOutput, Spacing
<1>8. QED
  BY <1>3, <1>4, <1>5, <1>6, <1>7

\* A Tick of FlushBuffer's fresh buffer.
LEMMA FlushTickKeepsIInv ==
  ASSUME IInv, FlushTick
  PROVE  IInv'
<1> USE InterleaveAssumption DEF IInv
<1> DEFINE h == Head(drain)
<1>1. /\ phase = "flushing" /\ phase' = "flushing"
      /\ drain # <<>> /\ drain' = Tail(drain)
      /\ offered' = offered /\ hand' = hand /\ hand = {}
      /\ TickPass(h) \/ TickKeep(h)
  BY DEF FlushTick, Shape
<1>2. /\ h \in Jobs
      /\ drain' \in Seq(Jobs)
      /\ Len(drain') = Len(drain) - 1
      /\ Len(drain) \in Nat
  BY <1>1, HeadTailProperties, LenProperties DEF TypeOK
<1>3. /\ h \in Range(drain)
      /\ Range(drain') = Range(drain) \ {h}
      /\ IsInjective(drain')
  BY <1>1, TailRange DEF TypeOK, EveryJobOnce
<1> HIDE DEF h
<1>4. h \notin Range(out) /\ h \notin Range(buf)
  BY <1>3 DEF EveryJobOnce
<1>5. CASE TickPass(h)
  <2>1. buf' = buf /\ out' = Append(out, h)
    BY <1>5 DEF TickPass, Emit
  <2>2. /\ Range(out') = Range(out) \cup {h}
        /\ IsInjective(out')
    BY <2>1, <1>2, <1>4, AppendRange DEF TypeOK, EveryJobOnce
  <2>3. EveryJobOnce'
    BY <2>1, <2>2, <1>1, <1>3, <1>4 DEF EveryJobOnce
  <2>4. /\ DOMAIN filter' \subseteq Images
        /\ filter' \in [DOMAIN filter' -> Nat]
        /\ epoch' \in Nat
        /\ out' \in Seq(Jobs)
        /\ BufferedInFilter' /\ FilterTracksOutput' /\ Spacing'
    BY <1>1, <1>2, <1>5, PassKeepsTracking
  <2>5. Len(buf) \in Nat /\ BufferSize \in Nat
    BY LenProperties DEF TypeOK
  <2>6. FlushHasRoom' /\ Shape'
    BY <2>1, <2>5, <1>1, <1>2 DEF Shape, FlushHasRoom
  <2>7. TypeOK'
    BY <2>1, <2>4, <1>1, <1>2 DEF TypeOK, Phases
  <2>8. QED
    BY <2>3, <2>4, <2>6, <2>7
<1>6. CASE TickKeep(h)
  <2>1. /\ ~Fresh(h)
        /\ Len(buf) < BufferSize
        /\ buf' = Append(buf, h)
        /\ UNCHANGED <<filter, epoch, out>>
    BY <1>1, <1>2, <1>6, KeepGrowsBuffer
  <2>2. /\ buf' \in Seq(Jobs)
        /\ Len(buf') = Len(buf) + 1
        /\ Len(buf) \in Nat
    BY <2>1, <1>2, AppendProperties, LenProperties DEF TypeOK
  <2>3. /\ Range(buf') = Range(buf) \cup {h}
        /\ IsInjective(buf')
    BY <2>1, <1>2, <1>4, AppendRange DEF TypeOK, EveryJobOnce
  <2>4. EveryJobOnce'
    BY <2>1, <2>3, <1>1, <1>3, <1>4 DEF EveryJobOnce
  <2>5. BufferedInFilter'
    BY <2>1, <2>3, <1>1 DEF BufferedInFilter, Fresh
  <2>6. FilterTracksOutput' /\ Spacing'
    BY <2>1, <1>1 DEF FilterTracksOutput, Spacing
  <2>7. FlushHasRoom' /\ Shape'
    BY <2>1, <2>2, <1>1, <1>2 DEF Shape, FlushHasRoom
  <2>8. TypeOK'
    BY <2>1, <2>2, <1>1, <1>2 DEF TypeOK, Phases
  <2>9. QED
    BY <2>4, <2>5, <2>6, <2>7, <2>8
<1>7. QED
  BY <1>1, <1>5, <1>6

\* The end of FlushBuffer: at most one job is left.
LEMMA FlushLastKeepsIInv ==
  ASSUME IInv, FlushLast
  PROVE  IInv'
<1> USE InterleaveAssumption DEF IInv
<1>1. /\ phase = "flushing" /\ phase' = "done"
      /\ drain = <<>> /\ Len(buf) <= 1
      /\ out' = out \o buf /\ buf' = <<>>
      /\ UNCHANGED <<offered, hand, drain, filter, epoch>>
  BY DEF FlushLast
<1>2. Range(<<>>) = {} /\ IsInjective(<<>>) /\ Len(<<>>) = 0 /\ <<>> \in Seq(Jobs)
  BY EmptySeq DEF Range, IsInjective
<1>3. out' \in Seq(Jobs)
  BY <1>1, ConcatProperties DEF TypeOK
<1>4. TypeOK' /\ Shape' /\ FlushHasRoom'
  BY <1>1, <1>2, <1>3 DEF TypeOK, Shape, FlushHasRoom, Phases
<1>5. BufferedInFilter' /\ FilterTracksOutput' /\ Spacing'
  BY <1>1 DEF BufferedInFilter, FilterTracksOutput, Spacing
<1>6. EveryJobOnce'
  <2>1. CASE buf = <<>> /\ out \o buf = out
    BY <2>1, <1>1 DEF EveryJobOnce
  <2>2. CASE /\ Len(buf) = 1 /\ buf[1] \in Jobs
             /\ out \o buf = Append(out, buf[1])
             /\ Range(buf) = {buf[1]}
    <3>1. buf[1] \notin Range(out)
      BY <2>2 DEF EveryJobOnce
    <3>2. /\ Range(out') = Range(out) \cup {buf[1]}
          /\ IsInjective(out')
      BY <3>1, <2>2, <1>1, AppendRange DEF TypeOK, EveryJobOnce
    <3>3. QED
      BY <3>2, <2>2, <1>1, <1>2 DEF EveryJobOnce
  <2>3. QED
    BY <2>1, <2>2, <1>1, ShortConcat DEF TypeOK
<1>7. QED
  BY <1>4, <1>5, <1>6

LEMMA NextKeepsIInv == IInv /\ [Next]_vars => IInv'
<1> SUFFICES ASSUME IInv, [Next]_vars PROVE IInv'
  OBVIOUS
<1>1. ASSUME NEW j \in Jobs, TickInput(j) PROVE IInv'
  BY <1>1, TickInputKeepsIInv
<1>2. ASSUME NEW j \in Jobs, TickBlocks(j) PROVE IInv'
  BY <1>2, TickBlocksKeepsIInv
<1>3. CASE InputClosed
  BY <1>3, EnterFlushKeepsIInv DEF InputClosed, IInv, Shape
<1>4. CASE FlushTick
  BY <1>4, FlushTickKeepsIInv
<1>5. CASE FlushAgain
  BY <1>5, EnterFlushKeepsIInv DEF FlushAgain
<1>6. CASE FlushLast
  BY <1>6, FlushLastKeepsIInv
<1>7. CASE UNCHANGED vars
  BY <1>7 DEF IInv, vars, TypeOK, Shape, EveryJobOnce, BufferedInFilter,
              FlushHasRoom, FilterTracksOutput, Spacing
<1>8. QED
  BY <1>1, <1>2, <1>3, <1>4, <1>5, <1>6, <1>7 DEF Next, Halted

\* The invariant of the interleave stage holds of every behaviour of Spec.
THEOREM InterleaveInvariant == Spec => []IInv
<1>1. Init => IInv
  BY InitEstablishesIInv
<1>2. IInv /\ [Next]_vars => IInv'
  BY NextKeepsIInv
<1>3. QED
  BY <1>1, <1>2, PTL DEF Spec

-----------------------------------------------------------------------------
(* Theorems *)

\* Tick and FlushBuffer keep every variable in its type; in particular the
\* epoch, which Tick first decrements and then increments when it returns
\* nil, never falls below zero.
THEOREM TypeCorrect == Spec => []TypeOK
<1>1. IInv => TypeOK
  BY DEF IInv
<1>2. QED
  BY <1>1, InterleaveInvariant, PTL

\* The stage loses no job and sends none twice, whatever the order of the
\* input and the capacity of the buffer, even if it blocks.
THEOREM NothingLost == Spec => []EveryJobOnce
<1>1. IInv => EveryJobOnce
  BY DEF IInv
<1>2. QED
  BY <1>1, InterleaveInvariant, PTL

\* Tick keeps two jobs of one image at least Interval jobs apart.
THEOREM TagsAreSpaced == Spec => []Spacing
<1>1. IInv => Spacing
  BY DEF IInv
<1>2. QED
  BY <1>1, InterleaveInvariant, PTL

\* interleave_buffer.go:36-37 speaks of a replacement tag; for any input, no
\* buffered job is ever eligible as one, because every image of the buffer keeps
\* its entry: the scan of Tick over its buffer cannot succeed.
THEOREM NoReplacement == Spec => []BufferedInFilter
<1>1. IInv => BufferedInFilter
  BY DEF IInv
<1>2. QED
  BY <1>1, InterleaveInvariant, PTL

\* FlushBuffer never blocks on its own buffer.
THEOREM FlushNeverBlocks == Spec => []FlushHasRoom
<1>1. IInv => FlushHasRoom
  BY DEF IInv
<1>2. QED
  BY <1>1, InterleaveInvariant, PTL

-----------------------------------------------------------------------------
(* When the stage can block *)

\* While the input is open, every job received has put its image into the
\* filter or is in the buffer, or in the hand of the Tick that is blocked.
ReceivedCovers ==
  phase \in {"ticking", "blocked"} =>
    /\ IsFiniteSet(Jobs \ offered)
    /\ IsFiniteSet(DOMAIN filter)
    /\ Cardinality(DOMAIN filter) + Len(buf) <= Cardinality(Jobs \ offered)
    /\ phase = "blocked" =>
         /\ Cardinality(DOMAIN filter) + Len(buf) < Cardinality(Jobs \ offered)
         /\ BufferSize <= Len(buf)
         /\ DOMAIN filter # {}

\* A job the goroutine receives adds one to the jobs it has received.
LEMMA ReceiveCounts ==
  ASSUME IsFiniteSet(Jobs \ offered), NEW j \in Jobs, Receive(j)
  PROVE  /\ IsFiniteSet(Jobs \ offered')
         /\ Cardinality(Jobs \ offered) \in Nat
         /\ Cardinality(Jobs \ offered') = Cardinality(Jobs \ offered) + 1
<1>1. /\ Jobs \ offered' = (Jobs \ offered) \cup {j}
      /\ j \notin Jobs \ offered
  BY DEF Receive
<1> DEFINE received == Jobs \ offered
<1>2. /\ IsFiniteSet(received \cup {j})
      /\ Cardinality(received \cup {j}) =
           IF j \in received THEN Cardinality(received) ELSE Cardinality(received) + 1
      /\ Cardinality(received) \in Nat
  <2>1. IsFiniteSet(received)
    OBVIOUS
  <2> HIDE DEF received
  <2>2. QED
    BY <2>1, FS_AddElement, FS_CardinalityType
<1>3. QED
  BY <1>1, <1>2

\* A Tick that returns its job adds at most one image to the filter.
LEMMA PassCounts ==
  ASSUME IsFiniteSet(DOMAIN filter), NEW j \in Jobs, TickPass(j)
  PROVE  /\ IsFiniteSet(DOMAIN filter')
         /\ Cardinality(DOMAIN filter) \in Nat
         /\ Cardinality(DOMAIN filter') \in Nat
         /\ Cardinality(DOMAIN filter') <= Cardinality(DOMAIN filter) + 1
<1>1. DOMAIN filter' = DOMAIN filter \cup {ImageOf[j]}
  BY DEF TickPass, Emit, Remember
<1> DEFINE known == DOMAIN filter  i == ImageOf[j]
<1>2. /\ IsFiniteSet(known \cup {i})
      /\ Cardinality(known \cup {i}) =
           IF i \in known THEN Cardinality(known) ELSE Cardinality(known) + 1
      /\ Cardinality(known) \in Nat
  <2> HIDE DEF i
  <2>1. IsFiniteSet(known)
    OBVIOUS
  <2> HIDE DEF known
  <2>2. QED
    BY <2>1, FS_AddElement, FS_CardinalityType
<1>3. QED
  BY <1>1, <1>2

LEMMA NextKeepsReceivedCovers ==
  ASSUME IInv, ReceivedCovers, [Next]_vars
  PROVE  ReceivedCovers'
<1> USE InterleaveAssumption
<1>0. Len(buf) \in Nat
  BY LenProperties DEF IInv, TypeOK
<1>1. ASSUME NEW j \in Jobs, TickInput(j)
      PROVE  ReceivedCovers'
  <2>1. phase = "ticking" /\ phase' = "ticking" /\ Receive(j)
    BY <1>1 DEF TickInput, Receive
  <2>2. /\ IsFiniteSet(Jobs \ offered')
        /\ Cardinality(Jobs \ offered) \in Nat
        /\ Cardinality(Jobs \ offered') = Cardinality(Jobs \ offered) + 1
    BY <2>1, ReceiveCounts DEF ReceivedCovers
  <2>3. CASE TickPass(j)
    <3>1. /\ IsFiniteSet(DOMAIN filter')
          /\ Cardinality(DOMAIN filter) \in Nat
          /\ Cardinality(DOMAIN filter') \in Nat
          /\ Cardinality(DOMAIN filter') <= Cardinality(DOMAIN filter) + 1
      BY <2>1, <2>3, PassCounts DEF ReceivedCovers
    <3>2. buf' = buf
      BY <2>3 DEF TickPass
    <3>3. QED
      BY <1>0, <2>1, <2>2, <3>1, <3>2 DEF ReceivedCovers
  <2>4. CASE TickKeep(j)
    <3>1. buf' = Append(buf, j) /\ filter' = filter
      BY <2>1, <2>4, KeepGrowsBuffer DEF IInv
    <3>2. Len(buf') = Len(buf) + 1
      BY <3>1, AppendProperties DEF IInv, TypeOK
    <3>3. Cardinality(DOMAIN filter) \in Nat
      BY <2>1, FS_CardinalityType DEF ReceivedCovers
    <3>4. QED
      BY <1>0, <2>1, <2>2, <3>1, <3>2, <3>3 DEF ReceivedCovers
  <2>5. QED
    BY <1>1, <2>3, <2>4 DEF TickInput
<1>2. ASSUME NEW j \in Jobs, TickBlocks(j)
      PROVE  ReceivedCovers'
  <2>1. /\ phase = "ticking" /\ phase' = "blocked" /\ Receive(j)
        /\ ~Fresh(j) /\ BufferSize <= Len(buf)
        /\ UNCHANGED <<buf, filter>>
    BY <1>0, <1>2 DEF TickBlocks, Receive
  <2>2. /\ IsFiniteSet(Jobs \ offered')
        /\ Cardinality(Jobs \ offered) \in Nat
        /\ Cardinality(Jobs \ offered') = Cardinality(Jobs \ offered) + 1
    BY <2>1, ReceiveCounts DEF ReceivedCovers
  <2>3. Cardinality(DOMAIN filter) \in Nat
    BY <2>1, FS_CardinalityType DEF ReceivedCovers
  <2>4. DOMAIN filter # {}
    BY <2>1 DEF Fresh
  <2>5. QED
    BY <1>0, <2>1, <2>2, <2>3, <2>4 DEF ReceivedCovers
<1>3. CASE InputClosed \/ FlushTick \/ FlushAgain \/ FlushLast
  BY <1>3 DEF InputClosed, FlushTick, FlushAgain, FlushLast, ReceivedCovers
<1>4. CASE UNCHANGED vars
  BY <1>4 DEF vars, ReceivedCovers
<1>5. QED
  BY <1>1, <1>2, <1>3, <1>4 DEF Next, Halted

LEMMA ReceivedCoversAlways == Spec => []ReceivedCovers
<1>1. Init => ReceivedCovers
  <2>1. SUFFICES ASSUME Init PROVE ReceivedCovers
    OBVIOUS
  <2>2. Jobs \ offered = {} /\ DOMAIN filter = {} /\ Len(buf) = 0
    BY <2>1 DEF Init, NoEntries
  <2>3. QED
    BY <2>1, <2>2, FS_EmptySet DEF Init, ReceivedCovers
<1>2. IInv /\ ReceivedCovers /\ [Next]_vars => ReceivedCovers'
  BY NextKeepsReceivedCovers
<1>3. QED
  BY <1>1, <1>2, InterleaveInvariant, PTL DEF Spec

\* A Tick blocks only when the stage has received more than BufferSize jobs
\* on top of one for every image in the filter.
THEOREM BlocksOnlyOnTooMany == Spec => []BlocksOnlyBeyondLimit
<1>1. IInv /\ ReceivedCovers => BlocksOnlyBeyondLimit
  <2>1. SUFFICES ASSUME IInv, ReceivedCovers, phase = "blocked"
                 PROVE  Cardinality(Jobs \ offered)
                          > BufferSize + Cardinality(DOMAIN filter)
    BY DEF BlocksOnlyBeyondLimit
  <2>2. /\ Len(buf) \in Nat
        /\ Cardinality(DOMAIN filter) \in Nat
        /\ Cardinality(Jobs \ offered) \in Nat
    BY <2>1, LenProperties, FS_CardinalityType DEF IInv, TypeOK, ReceivedCovers
  <2>3. QED
    BY <2>1, <2>2, InterleaveAssumption DEF ReceivedCovers
<1>2. QED
  BY <1>1, InterleaveInvariant, ReceivedCoversAlways, PTL

\* A run of at most one job more than the channel holds never blocks: what
\* ConfigGlobalTagLimit would ensure if it were enforced.
THEOREM NeverBlocksWithinLimit ==
  ASSUME IsFiniteSet(Jobs), Cardinality(Jobs) <= BufferSize + 1
  PROVE  Spec => [](phase # "blocked")
<1>1. IInv /\ ReceivedCovers => phase # "blocked"
  <2>1. SUFFICES ASSUME IInv, ReceivedCovers, phase = "blocked"
                 PROVE  FALSE
    OBVIOUS
  <2>2. /\ Len(buf) \in Nat
        /\ Cardinality(DOMAIN filter) \in Nat
        /\ Cardinality(DOMAIN filter) # 0
    BY <2>1, LenProperties, FS_CardinalityType, FS_EmptySet
       DEF IInv, TypeOK, ReceivedCovers
  <2>3. /\ Cardinality(Jobs \ offered) <= Cardinality(Jobs)
        /\ Cardinality(Jobs \ offered) \in Nat
        /\ Cardinality(Jobs) \in Nat
    BY FS_Subset, FS_CardinalityType
  <2>4. QED
    BY <2>1, <2>2, <2>3, InterleaveAssumption DEF ReceivedCovers
<1>2. QED
  BY <1>1, InterleaveInvariant, ReceivedCoversAlways, PTL

\* A stage that has ended has sent all it has received: FlushBuffer, which
\* calls itself until one job is left, leaves none behind.
THEOREM EndsEmpty == Spec => [](phase = "done" => Range(out) = Jobs \ offered)
<1>1. IInv => (phase = "done" => Range(out) = Jobs \ offered)
  <2>1. Range(<<>>) = {}
    BY DEF Range
  <2>2. QED
    BY <2>1 DEF IInv, Shape, EveryJobOnce
<1>2. QED
  BY <1>1, InterleaveInvariant, PTL

-----------------------------------------------------------------------------
(* Why FlushBuffer's recursion ends *)

\* Who has an image in its filter has returned a job.
FilterCounted == DOMAIN filter # {} => epoch > 0

\* The jobs of one call of FlushBuffer: to empty, kept, and returned.
Round == Len(drain) + Len(buf) + epoch

\* A step of FlushBuffer takes a job from the buffer it empties, or calls
\* FlushBuffer for fewer jobs.
FlushShrinks ==
  [][phase = "flushing" /\ phase' = "flushing" =>
       \/ Round' < Round
       \/ Round' = Round /\ Len(drain') < Len(drain)]_vars

LEMMA TickCounts ==
  ASSUME IInv, NEW j \in Jobs, TickPass(j) \/ TickKeep(j), phase # "done"
  PROVE  /\ Len(buf') + epoch' = Len(buf) + epoch + 1
         /\ FilterCounted => FilterCounted'
<1>1. epoch \in Nat /\ Len(buf) \in Nat /\ buf \in Seq(Jobs)
  BY LenProperties DEF IInv, TypeOK
<1>2. CASE TickPass(j)
  BY <1>1, <1>2 DEF TickPass, Emit, FilterCounted
<1>3. CASE TickKeep(j)
  <2>1. buf' = Append(buf, j) /\ UNCHANGED <<filter, epoch>>
    BY <1>3, KeepGrowsBuffer DEF IInv
  <2>2. Len(buf') = Len(buf) + 1
    BY <1>1, <2>1, AppendProperties
  <2> QED BY <1>1, <2>1, <2>2 DEF FilterCounted
<1> QED BY <1>2, <1>3

LEMMA FilterCountedAlways == Spec => []FilterCounted
<1>1. Init => FilterCounted
  BY DEF Init, FilterCounted, NoEntries
<1>2. ASSUME IInv, FilterCounted, [Next]_vars
      PROVE  FilterCounted'
  <2>1. ASSUME NEW j \in Jobs, TickInput(j)
        PROVE  FilterCounted'
    BY <1>2, <2>1, TickCounts DEF TickInput, Receive
  <2>2. CASE FlushTick
    <3>1. Head(drain) \in Jobs /\ phase # "done"
      BY <1>2, <2>2, HeadTailProperties DEF FlushTick, IInv, TypeOK
    <3> QED BY <1>2, <2>2, <3>1, TickCounts DEF FlushTick
  <2>3. CASE InputClosed \/ FlushAgain
    BY <2>3 DEF InputClosed, FlushAgain, EnterFlush, FilterCounted, NoEntries
  <2>4. ASSUME UNCHANGED <<filter, epoch>>
        PROVE  FilterCounted'
    BY <1>2, <2>4 DEF FilterCounted
  <2> QED BY <1>2, <2>1, <2>2, <2>3, <2>4 DEF Next, TickBlocks, FlushLast, Halted, vars
<1>3. QED
  BY <1>1, <1>2, InterleaveInvariant, PTL DEF Spec

\* FlushBuffer calls itself on fewer jobs than it was called on, whatever the
\* images: the first job that comes to a fresh buffer passes it.  With
\* FlushNeverBlocks this is why the stage ends when its input does.
THEOREM FlushBufferShrinks == Spec => FlushShrinks
<1> DEFINE Step == phase = "flushing" /\ phase' = "flushing" =>
                     \/ Round' < Round
                     \/ Round' = Round /\ Len(drain') < Len(drain)
<1>1. ASSUME IInv, FilterCounted, [Next]_vars
      PROVE  [Step]_vars
  <2>1. epoch \in Nat /\ Len(buf) \in Nat /\ Len(drain) \in Nat
    BY <1>1, LenProperties DEF IInv, TypeOK
  <2>2. CASE FlushTick
    <3>1. Head(drain) \in Jobs /\ Len(drain') = Len(drain) - 1
      BY <1>1, <2>2, HeadTailProperties DEF FlushTick, IInv, TypeOK
    <3>2. Len(buf') + epoch' = Len(buf) + epoch + 1
      BY <1>1, <2>2, <3>1, TickCounts DEF FlushTick
    <3>3. Len(buf') \in Nat /\ epoch' \in Nat
      <4>1. IInv'
        BY <1>1, NextKeepsIInv
      <4> QED BY <4>1, LenProperties DEF IInv, TypeOK
    <3> QED BY <2>1, <3>1, <3>2, <3>3 DEF Round
  <2>3. CASE FlushAgain
    <3>1. epoch > 0
      <4>1. buf[1] \in Range(buf) /\ phase # "done"
        BY <2>1, <2>3 DEF FlushAgain, Range
      <4> QED BY <1>1, <4>1 DEF IInv, BufferedInFilter, FilterTracksOutput, FilterCounted
    <3>2. Len(drain) = 0 /\ Len(drain') = Len(buf) /\ Len(buf') = 0 /\ epoch' = 0
      BY <2>3 DEF FlushAgain, EnterFlush
    <3> QED BY <2>1, <3>1, <3>2 DEF Round
  <2>4. ASSUME ~(phase = "flushing" /\ phase' = "flushing") \/ UNCHANGED vars
        PROVE  [Step]_vars
    BY <2>4
  <2> QED BY <1>1, <2>2, <2>3, <2>4
          DEF Next, TickInput, TickBlocks, Receive, InputClosed, FlushLast, Halted
<1>2. QED
  BY <1>1, InterleaveInvariant, FilterCountedAlways, PTL DEF Spec, FlushShrinks

-----------------------------------------------------------------------------
(* Implementation *)

\* The first state of the stage is one of the relay.
LEMMA RelayInitial == Init => Relay!RelayInit
<1>1. Range(<<>>) = {}
  BY DEF Range
<1>2. QED
  BY <1>1 DEF Init, Relay!RelayInit

\* A Tick that passes its job on is a PassOn of the relay while the input is
\* open and a Release in FlushBuffer; a Tick that keeps it is a Keep, or no
\* step when the job comes from the buffer FlushBuffer empties.
LEMMA RelayStep ==
  ASSUME IInv, [Next]_vars
  PROVE  [Relay!RelayNext]_(Relay!relayVars)
<1> USE DEF IInv, Relay!RelayNext, Relay!relayVars
<1>0. Range(<<>>) = {}
  BY DEF Range
<1>1. ASSUME NEW j \in Jobs, TickInput(j)
      PROVE  Relay!PassOn(j) \/ Relay!Keep(j)
  <2>1. /\ phase = "ticking" /\ phase' = "ticking"
        /\ j \in offered /\ offered' = offered \ {j}
        /\ hand = {} /\ hand' = {} /\ drain' = drain
    BY <1>1 DEF TickInput, Receive, Shape
  <2>2. CASE TickPass(j)
    <3>1. buf' = buf /\ Range(out') = Range(out) \cup {j}
      BY <2>2, AppendRange DEF TickPass, Emit, TypeOK
    <3>2. Relay!PassOn(j)
      BY <2>1, <3>1 DEF Relay!PassOn
    <3>3. QED
      BY <3>2
  <2>3. CASE TickKeep(j)
    <3>0. out' = out /\ buf' = Append(buf, j)
      BY <2>1, <2>3, KeepGrowsBuffer
    <3>1. out' = out /\ Range(buf') = Range(buf) \cup {j}
      BY <3>0, AppendRange DEF TypeOK
    <3>2. Relay!Keep(j)
      BY <2>1, <3>1 DEF Relay!Keep
    <3>3. QED
      BY <3>2
  <2>4. QED
    BY <1>1, <2>2, <2>3 DEF TickInput
<1>2. ASSUME NEW j \in Jobs, TickBlocks(j)
      PROVE  UNCHANGED Relay!relayVars
  <2>1. /\ phase = "ticking" /\ phase' = "blocked"
        /\ j \in offered /\ offered' = offered \ {j}
        /\ hand = {} /\ hand' = {j}
        /\ UNCHANGED <<drain, buf, out>>
    BY <1>2 DEF TickBlocks, Receive, Shape
  <2>2. offered' \cup hand' = offered \cup hand
    BY <2>1
  <2>3. QED
    BY <2>1, <2>2
<1>3. CASE InputClosed
  <2>1. /\ phase = "ticking" /\ phase' = "flushing"
        /\ drain = <<>> /\ drain' = buf /\ buf' = <<>>
        /\ UNCHANGED <<offered, hand, out>>
    BY <1>3 DEF InputClosed, EnterFlush, Shape
  <2>2. Range(drain') \cup Range(buf') = Range(drain) \cup Range(buf)
    BY <2>1, <1>0
  <2>3. Relay!Close
    BY <2>1, <2>2 DEF Relay!Close
  <2>4. QED
    BY <2>3
<1>4. CASE FlushTick
  <2> DEFINE h == Head(drain)
  <2>1. /\ phase = "flushing" /\ phase' = "flushing"
        /\ UNCHANGED <<offered, hand>>
        /\ TickPass(h) \/ TickKeep(h)
    BY <1>4 DEF FlushTick
  <2>2. /\ h \in Jobs
        /\ h \in Range(drain)
        /\ Range(drain') = Range(drain) \ {h}
        /\ h \notin Range(buf)
    BY <1>4, HeadTailProperties, TailRange DEF FlushTick, TypeOK, EveryJobOnce
  <2> HIDE DEF h
  <2>3. CASE TickPass(h)
    <3>1. buf' = buf /\ Range(out') = Range(out) \cup {h}
      BY <2>2, <2>3, AppendRange DEF TickPass, Emit, TypeOK
    <3>2. Relay!Release(h)
      BY <2>1, <2>2, <3>1 DEF Relay!Release
    <3>3. QED
      BY <2>2, <3>2
  <2>4. CASE TickKeep(h)
    <3>0. out' = out /\ buf' = Append(buf, h)
      BY <2>1, <2>2, <2>4, KeepGrowsBuffer
    <3>1. out' = out /\ Range(buf') = Range(buf) \cup {h}
      BY <2>2, <3>0, AppendRange DEF TypeOK
    <3>2. Range(drain') \cup Range(buf') = Range(drain) \cup Range(buf)
      BY <2>2, <3>1
    <3>3. QED
      BY <2>1, <3>1, <3>2
  <2>5. QED
    BY <2>1, <2>3, <2>4
<1>5. CASE FlushAgain
  <2>1. Range(drain') \cup Range(buf') = Range(drain) \cup Range(buf)
    BY <1>0, <1>5 DEF FlushAgain, EnterFlush
  <2>2. QED
    BY <1>5, <2>1 DEF FlushAgain
<1>6. CASE FlushLast
  <2>1. /\ phase = "flushing" /\ phase' = "done"
        /\ drain = <<>> /\ drain' = <<>> /\ buf' = <<>>
        /\ out' = out \o buf
        /\ UNCHANGED <<offered, hand>>
    BY <1>6 DEF FlushLast
  <2>2. CASE buf = <<>> /\ out \o buf = out
    BY <2>1, <2>2
  <2>3. CASE /\ buf[1] \in Jobs
             /\ out \o buf = Append(out, buf[1])
             /\ Range(buf) = {buf[1]}
    <3>1. Range(out') = Range(out) \cup {buf[1]}
      BY <2>1, <2>3, AppendRange DEF TypeOK
    <3>2. Relay!Release(buf[1])
      BY <1>0, <2>1, <2>3, <3>1 DEF Relay!Release
    <3>3. QED
      BY <2>3, <3>2
  <2>4. QED
    BY <1>6, <2>2, <2>3, ShortConcat DEF FlushLast, TypeOK
<1>7. CASE UNCHANGED vars
  BY <1>7 DEF vars
<1>8. QED
  BY <1>1, <1>2, <1>3, <1>4, <1>5, <1>6, <1>7 DEF Next, Halted

\* The interleave stage implements the relay: nothing it has kept is sent
\* before its input is closed, and only what it has kept afterwards.
THEOREM StageImplementsRelay == Spec => ImplementsRelay
<1>1. Init => Relay!RelayInit
  BY RelayInitial
<1>2. IInv /\ [Next]_vars => [Relay!RelayNext]_(Relay!relayVars)
  BY RelayStep
<1>3. QED
  BY <1>1, <1>2, InterleaveInvariant, PTL
     DEF Spec, ImplementsRelay, Relay!RelaySpec
=============================================================================
