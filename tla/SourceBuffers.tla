--------------------------- MODULE SourceBuffers ----------------------------
(* A page that feeds a media element through a MediaSource (src/src/mse.rs,   *)
(* and the media objects of web_runtime.rs).  An append parses a segment,     *)
(* drops the samples outside the window, replaces what a new sample overlaps, *)
(* and rolls back when a budget is exceeded; play() and load() give the       *)
(* element a copy of the source.                                              *)
EXTENDS Integers, Sequences, SequencesExt, FiniteSets, FiniteSetsExt

CONSTANTS
  Segments,     \* what a page appends: <<>> for bytes that do not parse
  Offsets,      \* the timestamp offsets a page sets
  Ranges,       \* the ranges a page removes
  Durations,    \* the durations a page sets
  Positions,    \* the positions a page seeks to
  MaxTime,      \* MAX_MEDIA_TIME_US
  MaxBuffers,   \* MAX_SOURCE_BUFFERS
  MaxSamples,   \* MAX_SAMPLES_PER_BUFFER
  MaxBytes,     \* MAX_BYTES_PER_BUFFER
  MaxTotal,     \* MAX_TOTAL_MEDIA_BYTES
  SizeLimit,    \* 2^64, where a count of bytes wraps
  Future, Enough, \* of the media element
  LastCall      \* bound on the calls of a behaviour

Sample == [track : Nat, at : Int, length : Nat \ {0}, bytes : Nat]

SourceAssumption ==
  /\ \A s \in Segments : s \in Seq(Sample)
  /\ Offsets \subseteq Int
  /\ {MaxTime, MaxBuffers, MaxSamples, MaxBytes, MaxTotal, LastCall} \subseteq Nat
  /\ SizeLimit \in Nat /\ SizeLimit > MaxTotal

VARIABLES
  source,    \* the MediaSource: [ended, duration, buffers]
  element,   \* the HtmlMediaElement
  attached,  \* media_attachments: whether srcObject is the source
  copy,      \* the MediaSource inside the element, as <<source>>, or NoSource
  outcome,   \* of the last call: "ok" or "refused"
  calls

vars == <<source, element, attached, copy, outcome, calls>>

Element == INSTANCE MediaElement

NoSource == <<>>
NoDuration == Element!NoDuration
Open == ~source.ended
Opened == [ended |-> FALSE, duration |-> NoDuration, buffers |-> <<>>]
NewBuffer == [ready |-> FALSE, samples |-> <<>>, queued |-> 0, offset |-> 0]

End(s) == s.at + s.length
Bytes(samples) == FoldSeq(LAMBDA s, n : n + s.bytes, 0, samples)
Truncated(samples, n) == SubSeq(samples, 1, IF n < Len(samples) THEN n ELSE Len(samples))

\* The elements of a sequence that are in S, in their order.
Filtered(seq, S) ==
  LET kept[i \in 0 .. Len(seq)] ==
        IF i = 0 THEN <<>>
        ELSE IF seq[i] \in S THEN Append(kept[i - 1], seq[i]) ELSE kept[i - 1]
  IN  kept[Len(seq)]

Init ==
  /\ source = Opened
  /\ element = Element!Reset
  /\ attached = FALSE /\ copy = NoSource
  /\ outcome = "ok" /\ calls = 0

-----------------------------------------------------------------------------
(* The ranges of a source.                                                   *)

Earlier(a, b) == a.from < b.from

\* buffered: what the samples of a buffer cover, adjoining ranges as one.
Joined(ranges) ==
  FoldLeft(LAMBDA done, r :
             IF done # <<>> /\ r.from <= Last(done).to
               THEN Front(done) \o <<[Last(done) EXCEPT !.to = IF @ < r.to THEN r.to ELSE @]>>
               ELSE Append(done, r),
           <<>>, ranges)

Covered(buffer) ==
  Joined(SetToSortSeq({[from |-> s.at, to |-> End(s)] : s \in Range(buffer.samples)},
                      LAMBDA a, b : a.from < b.from \/ (a.from = b.from /\ a.to < b.to)))

\* MediaSource::buffered, which the element looks at.
Buffered(src) ==
  SortSeq(FlattenSeq([i \in DOMAIN src.buffers |-> Covered(src.buffers[i])]), Earlier)

SourceDuration(src) ==
  IF src.duration # NoDuration THEN src.duration
  ELSE Max({NoDuration} \cup {r.to : r \in Range(Buffered(src))})

-----------------------------------------------------------------------------
(* Appending.                                                                *)

\* Mutant: only what the new sample covers whole is replaced.
ReplacesCovered(new, old) ==
  old.track = new.track /\ old.at >= new.at /\ End(old) <= End(new)

Replaces(new, old) ==
  old.track = new.track /\ ~(End(old) <= new.at \/ old.at >= End(new))

\* One sample of append_buffer_inner.
Taken(buffer, s) ==
  IF s.at < 0 \/ s.at >= MaxTime \/ End(s) > MaxTime THEN [buffer EXCEPT !.dropped = @ + 1]
  ELSE IF buffer.queued + s.bytes > MaxBytes \/ Len(buffer.samples) >= MaxSamples
    THEN [buffer EXCEPT !.failed = TRUE]
  ELSE LET kept == Filtered(buffer.samples, {old \in Range(buffer.samples) : ~Replaces(s, old)})
       IN  [buffer EXCEPT
              !.samples = Append(kept, s),
              !.queued = Max({0, @ - (Bytes(buffer.samples) - Bytes(kept))}) + s.bytes]

\* The samples of a segment in order, up to the one that exceeds a budget.
Appended(buffer, segment) ==
  LET moved(s) == [s EXCEPT !.at = @ + buffer.offset]
      after[k \in 0 .. Len(segment)] ==
        IF k = 0 THEN [samples |-> buffer.samples, queued |-> buffer.queued,
                       failed |-> FALSE, dropped |-> 0]
        ELSE IF after[k - 1].failed THEN after[k - 1]
        ELSE Taken(after[k - 1], moved(segment[k]))
  IN  after[Len(segment)]

Before(a, b) == a.at < b.at \/ (a.at = b.at /\ a.track < b.track)

\* sort_by, which leaves what is equal in its order: each sample goes in
\* front of those it is before.
Inserted(samples, s) ==
  LET later == {x \in Range(samples) : Before(s, x)}
  IN  Append(Filtered(samples, Range(samples) \ later), s) \o Filtered(samples, later)

Sorted(samples) ==
  LET done[k \in 0 .. Len(samples)] ==
        IF k = 0 THEN <<>> ELSE Inserted(done[k - 1], samples[k])
  IN  done[Len(samples)]

\* The rollback: the list is cut to its old length, the count is the old one.
RolledBack(buffer, samples) ==
  [buffer EXCEPT !.samples = Truncated(samples, Len(buffer.samples))]

QueuedBytes(buffers) == FoldSeq(LAMBDA b, n : n + b.queued, 0, buffers) % SizeLimit

SetBuffer(i, buffer) == source' = [source EXCEPT !.buffers[i] = buffer]

\* MediaSource::append_buffer over SourceBuffer::append_buffer.
AppendBuffer(i, segment) ==
  LET buffer == source.buffers[i]
      result == Appended(buffer, segment)
      sorted == Sorted(result.samples)
      grown == [buffer EXCEPT !.samples = sorted, !.queued = result.queued]
      total == QueuedBytes([source.buffers EXCEPT ![i] = grown])
  IN  IF ~Open \/ ~buffer.ready \/ segment = <<>>
        THEN outcome' = "refused" /\ UNCHANGED source
      ELSE IF result.failed
        THEN outcome' = "refused" /\ SetBuffer(i, RolledBack(buffer, result.samples))
      ELSE IF total > MaxTotal
        THEN outcome' = "refused" /\ SetBuffer(i, RolledBack(buffer, sorted))
      ELSE outcome' = "ok" /\ SetBuffer(i, grown)

\* The first segment says which tracks follow, and is no media segment later.
AppendInit(i) ==
  IF Open /\ ~source.buffers[i].ready
    THEN outcome' = "ok" /\ SetBuffer(i, [source.buffers[i] EXCEPT !.ready = TRUE])
    ELSE outcome' = "refused" /\ UNCHANGED source

-----------------------------------------------------------------------------
(* The other calls on the source.                                            *)

Ok == outcome' = "ok"
Refused == outcome' = "refused" /\ UNCHANGED source

AddSourceBuffer ==
  IF Open /\ Len(source.buffers) < MaxBuffers
    THEN Ok /\ source' = [source EXCEPT !.buffers = Append(@, NewBuffer)]
    ELSE Refused

Without(buffer, range) ==
  LET stays == {s \in Range(buffer.samples) : End(s) <= range.from \/ s.at >= range.to}
      kept == Filtered(buffer.samples, stays)
  IN  [buffer EXCEPT !.samples = kept,
                     !.queued = @ - (Bytes(buffer.samples) - Bytes(kept))]

\* `queued_bytes -= removed_bytes` wraps in a release.
Wrapped(buffer) == [buffer EXCEPT !.queued = @ % SizeLimit]

RemoveRange(i, range) == Ok /\ SetBuffer(i, Wrapped(Without(source.buffers[i], range)))

SetOffset(i, offset) == Ok /\ SetBuffer(i, [source.buffers[i] EXCEPT !.offset = offset])

SetDuration(duration) ==
  IF Open
    THEN /\ Ok
         /\ source' = [source EXCEPT
              !.duration = duration,
              !.buffers = [i \in DOMAIN @ |->
                             Wrapped(Without(@[i], [from |-> duration, to |-> MaxTime]))]]
    ELSE Refused

EndOfStream ==
  IF Open /\ \E i \in DOMAIN source.buffers : source.buffers[i].samples # <<>>
    THEN Ok /\ source' = [source EXCEPT !.ended = TRUE]
    ELSE Refused

OnSource ==
  /\ \/ AddSourceBuffer
     \/ \E i \in DOMAIN source.buffers :
          \/ AppendInit(i)
          \/ \E segment \in Segments : AppendBuffer(i, segment)
          \/ \E range \in Ranges : RemoveRange(i, range)
          \/ \E offset \in Offsets : SetOffset(i, offset)
     \/ \E duration \in Durations : SetDuration(duration)
     \/ EndOfStream
  /\ UNCHANGED <<element, attached, copy>>

-----------------------------------------------------------------------------
(* The calls on the element.                                                 *)

SetSrcObject == Ok /\ attached' = TRUE /\ UNCHANGED <<element, copy>>

\* Another address drops the attachment and pauses; the element keeps its source.
SetSrc == Ok /\ attached' = FALSE /\ element' = Element!Paused(element) /\ UNCHANGED copy

Looked(e, src) == Element!Synchronized(e, Buffered(src), SourceDuration(src))

\* What play() and load() do first: an element without a source takes a copy.
Attaches == attached /\ copy = NoSource
WithSource(e) == IF Attaches THEN Looked(Element!Reset, source) ELSE e

Load ==
  /\ Ok
  /\ copy' = IF Attaches THEN <<source>> ELSE copy
  /\ element' = IF copy' = NoSource THEN element ELSE Looked(WithSource(element), copy'[1])
  /\ UNCHANGED attached

Play ==
  LET e == WithSource(element)
  IN  /\ copy' = IF Attaches THEN <<source>> ELSE copy
      /\ IF Element!CanPlay(e)
           THEN Ok /\ element' = Element!Played(e)
           ELSE outcome' = "refused" /\ element' = e
      /\ UNCHANGED attached

Pause == Ok /\ element' = Element!Paused(element) /\ UNCHANGED <<attached, copy>>

Seek(position) ==
  /\ IF Element!CanSeek(element)
       THEN Ok /\ element' = LET e == Element!Sought(element, position)
                             IN  IF copy = NoSource THEN e ELSE Looked(e, copy[1])
       ELSE outcome' = "refused" /\ UNCHANGED element
  /\ UNCHANGED <<attached, copy>>

OnElement ==
  /\ SetSrcObject \/ SetSrc \/ Load \/ Play \/ Pause \/ \E p \in Positions : Seek(p)
  /\ UNCHANGED source

Next == calls < LastCall /\ calls' = calls + 1 /\ (OnSource \/ OnElement)

Spec == Init /\ [][Next]_vars
-----------------------------------------------------------------------------

\* Two samples of one track never cover the same time, whatever was appended
\* over what, at which offset, removed, refused half-way or rolled back.
SamplesDisjoint ==
  \A i \in DOMAIN source.buffers :
    LET samples == source.buffers[i].samples
    IN  \A j, k \in DOMAIN samples :
          j # k /\ samples[j].track = samples[k].track =>
            End(samples[j]) <= samples[k].at \/ End(samples[k]) <= samples[j].at

\* A refused append leaves the buffer as it was: `append_buffer_inner` keeps a
\* prefix for its "crash-safe rollback", and its caller takes it as atomic.
RefusedChangesNothing == [][outcome' = "refused" => source' = source]_vars
=============================================================================
