---------------------------- MODULE MediaElement ----------------------------
(* The state machine of an HTML media element (src/src/html_media.rs), as     *)
(* functions of a record: how much it can play, where it is, and what the     *)
(* controls do.  The buffered ranges are passed in, since they come from a    *)
(* MediaSource or from a stream that was decoded as a whole.  Volume, mute,   *)
(* the network state and the queue of events decide nothing here, no caller   *)
(* sets loop or autoplay, and the rate is 1.                                  *)
EXTENDS Naturals, Sequences

CONSTANTS
  Future,  \* how much must be buffered ahead for HaveFutureData; 250 ms
  Enough   \* and for HaveEnoughData; 5 s

NoDuration == 0

HaveNothing == 0
HaveMetadata == 1
HaveCurrentData == 2
HaveFutureData == 3
HaveEnoughData == 4

\* HtmlMediaElement::new and reset_resource.
Reset == [ready |-> HaveNothing, paused |-> TRUE, ended |-> FALSE, time |-> 0,
          duration |-> NoDuration]

\* buffered_ahead_us: what is left of the first range that holds the position.
Ahead(ranges, time) ==
  LET holding == {i \in DOMAIN ranges : ranges[i].from <= time /\ time < ranges[i].to}
  IN  IF holding = {} THEN 0
      ELSE ranges[CHOOSE i \in holding : \A j \in holding : i <= j].to - time

\* synchronize_source_state, for an element with a MediaSource.
Synchronized(e, ranges, duration) ==
  LET ahead == Ahead(ranges, e.time)
  IN  [e EXCEPT
         !.duration = duration,
         !.ready = CASE ahead >= Enough -> HaveEnoughData
                     [] ahead > Future /\ ahead < Enough -> HaveFutureData
                     [] ahead > 0 /\ ahead <= Future -> HaveCurrentData
                     [] ahead = 0 /\ duration # NoDuration -> HaveMetadata
                     [] OTHER -> HaveNothing]

\* attach_decoded_stream.
Decoded(duration) == [Reset EXCEPT !.duration = duration, !.ready = HaveEnoughData]

CanPlay(e) == e.ready >= HaveCurrentData

Played(e) ==
  [e EXCEPT !.paused = FALSE, !.ended = FALSE, !.time = IF e.ended THEN 0 ELSE e.time]

Paused(e) == [e EXCEPT !.paused = TRUE]

\* seek, before the readiness is looked at again.
CanSeek(e) == e.duration # NoDuration
Sought(e, target) ==
  [e EXCEPT !.time = IF target < e.duration THEN target ELSE e.duration, !.ended = FALSE]

\* tick, after the readiness was looked at.
Ticked(e, ranges, elapsed) ==
  IF e.paused \/ elapsed = 0 THEN e
  ELSE IF Ahead(ranges, e.time) = 0
    THEN [e EXCEPT !.ready = IF e.duration = NoDuration THEN HaveNothing ELSE HaveMetadata]
  ELSE IF e.duration # NoDuration /\ e.time + elapsed >= e.duration
    THEN [e EXCEPT !.time = e.duration, !.ended = TRUE, !.paused = TRUE]
  ELSE [e EXCEPT !.time = e.time + elapsed]
=============================================================================
