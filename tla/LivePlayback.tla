---------------------------- MODULE LivePlayback ----------------------------
(* The live player (YouTubePlayback messages in src/src/ui.rs,                *)
(* LiveYouTubeController in youtube.rs): a media element, the pipeline that   *)
(* hands out the decoded pictures and sound by a clock of its own             *)
(* (MediaOutputPipeline in media_runtime.rs, AudioClock and                   *)
(* BoundedFrameQueue in media_core.rs) and the audio device                   *)
(* (WindowsWasapiSink in audio_output.rs).  The element counts microseconds,  *)
(* the pipeline frames of sound, and each conversion between the two, and     *)
(* between microseconds and the seconds of a seek, cuts off what is left.     *)
EXTENDS Naturals, Sequences, FiniteSets, FiniteSetsExt

CONSTANTS
  Pictures,   \* the timestamps of the decoded video frames
  Sounds,     \* the timestamps of the decoded audio frames
  Duration,
  Period,     \* of the timer; 33 ms
  Second,     \* the units of time in a second; 1 000 000
  Rate,       \* the frames of sound in a second; 44 100 or 48 000, say
  Tolerance,  \* sync_tolerance_us; 40 ms
  Steps,      \* what the seek buttons add or take away; 10 s
  SinkLimit,  \* frames of sound the sink keeps for the device; two seconds
  Future, Enough  \* of the media element

PlaybackAssumption ==
  /\ Pictures \subseteq 0..(Duration - 1) /\ Sounds \subseteq 0..(Duration - 1)
  /\ {Duration, Period, Second, Rate} \subseteq Nat \ {0}
  /\ Tolerance \in Nat /\ SinkLimit \in Nat
  /\ Steps \subseteq Nat

VARIABLES
  media,    \* the media element
  clock,    \* [anchor, frames]: the AudioClock, the frames played since a position
  running,  \* whether it runs
  video,    \* the timestamps queued for display
  audio,    \* and for the device
  shown,    \* the timestamp of current_video, or NoPicture
  sink,     \* [paused, pending]: the sink's queue for the device
  active,   \* whether the player's tab is the active one
  reached,  \* whether the element has come to the end since the last seek
  rewound,  \* the position of the last seek
  ticks     \* history variable, not in the code: the ticks played since that seek

pipeline == <<clock, running, video, audio, shown>>
history == <<reached, rewound, ticks>>
vars == <<media, pipeline, sink, active, history>>

Element == INSTANCE MediaElement

\* AudioClock::position_us.
Position(c) == c.anchor + (c.frames * Second) \div Rate

\* The frames that a tick adds.
FramesPerTick == (Period * Rate) \div Second

\* A position that went through seconds in floating point may lose its last
\* microsecond.
Truncated(time) == {t \in {time, time - 1} : t \in Nat}

NoPicture == Duration
Whole == <<[from |-> 0, to |-> Duration]>>

TypeOK ==
  /\ media.time \in 0..Duration /\ media.ready \in 0..4
  /\ {media.paused, media.ended, running, active, reached, sink.paused} \subseteq BOOLEAN
  /\ video \subseteq Pictures /\ audio \subseteq Sounds /\ sink.pending \subseteq Sounds
  /\ shown \in Pictures \cup {NoPicture}
  /\ rewound \in 0..Duration /\ clock.anchor \in 0..Duration /\ clock.frames \in Nat

\* The pipeline as from_asset makes it.
NewPipeline(position) ==
  /\ clock' = [anchor |-> position, frames |-> 0] /\ shown' = NoPicture
  /\ video' = {t \in Pictures : t >= position}
  /\ audio' = {t \in Sounds : t >= position}

\* YouTubePlaybackPrepared.
Init ==
  /\ media = Element!Decoded(Duration)
  /\ clock = [anchor |-> 0, frames |-> 0]
  /\ running = FALSE /\ video = Pictures /\ audio = Sounds /\ shown = NoPicture
  /\ sink = [paused |-> FALSE, pending |-> {}]
  /\ active = TRUE /\ reached = FALSE /\ rewound = 0 /\ ticks = 0

-----------------------------------------------------------------------------
(* The audio device.                                                         *)

\* The device takes what is pending, unless the sink is paused (pump).
Pump ==
  /\ ~sink.paused /\ sink.pending # {}
  /\ sink' = [sink EXCEPT !.pending = @ \ {Min(@)}]
  /\ UNCHANGED <<media, pipeline, active, history>>

\* enqueue: the frames that a tick drains are refused from the first that does not fit.
Enqueued(frames) ==
  LET room == SinkLimit - Cardinality(sink.pending)
  IN  [sink EXCEPT !.pending = @ \cup {t \in frames : Cardinality({u \in frames : u <= t}) <= room}]

Flushed == [paused |-> TRUE, pending |-> {}]

-----------------------------------------------------------------------------
(* The controller.                                                           *)

\* MediaOutputPipeline::tick: the clock, all sound that is due, and at most
\* one picture, after those that came too late.
PipelineTick ==
  LET later == IF running THEN [clock EXCEPT !.frames = @ + FramesPerTick] ELSE clock
      now == Position(later)
      due == {t \in audio : t <= now + Tolerance}
      kept == {t \in video : t + Tolerance >= now}
      next == {t \in kept : t <= now + Tolerance}
  IN  /\ clock' = later
      /\ audio' = audio \ due
      /\ video' = IF next = {} THEN kept ELSE kept \ {Min(next)}
      /\ shown' = IF next = {} THEN shown ELSE Min(next)
      /\ sink' = Enqueued(due)

\* Bound: the clock runs on for ever once the element has stopped.
ClockBound == Position(clock) <= Duration + Period

Tick ==
  /\ IF active
       THEN /\ ~running \/ ClockBound
            /\ media' = Element!Ticked(media, Whole, Period)
            /\ PipelineTick
            /\ reached' = (reached \/ media'.time = Duration)
            /\ ticks' = IF running THEN ticks + 1 ELSE ticks
       ELSE /\ sink' = [sink EXCEPT !.paused = TRUE]
            /\ UNCHANGED <<media, clock, video, audio, shown, reached, ticks>>
  /\ UNCHANGED <<running, active, rewound>>

\* YouTubeTogglePlayback.
Toggle ==
  /\ IF media.paused
       THEN /\ Element!CanPlay(media)
            /\ media' = Element!Played(media)
            /\ running' = TRUE
            /\ sink' = [sink EXCEPT !.paused = FALSE]
       ELSE /\ media' = Element!Paused(media)
            /\ running' = FALSE
            /\ sink' = [sink EXCEPT !.paused = TRUE]
  /\ UNCHANGED <<clock, video, audio, shown, active, history>>

\* Mutant: the pipeline is sought as it is, without a new one from the asset.
SeekForwardOnly(target) ==
  /\ Element!CanSeek(media)
  /\ \E time \in Truncated(target) : media' = Element!Sought(media, time)
  /\ running' = ~media.paused
  /\ IF target < Position(clock) THEN UNCHANGED <<clock, shown, video, audio>>
                                ELSE NewPipeline(target)
  /\ rewound' = target /\ ticks' = 0 /\ reached' = (media'.time = Duration)

\* seek_to: a new pipeline, which runs if the element was playing.
SeekTo(target) ==
  /\ Element!CanSeek(media)
  /\ \E time \in Truncated(target) : media' = Element!Sought(media, time)
  /\ running' = ~media.paused
  /\ NewPipeline(target)
  /\ rewound' = target /\ ticks' = 0 /\ reached' = (media'.time = Duration)

\* YouTubeSeekBy and YouTubeRecover: where the user wants to be.
Targets == {media.time} \cup {Min({media.time + s, Duration}) : s \in Steps}
                        \cup {IF s < media.time THEN media.time - s ELSE 0 : s \in Steps}

Seek ==
  /\ \E goal \in Targets : \E target \in Truncated(goal) : SeekTo(target)
  /\ sink' = Flushed
  /\ UNCHANGED active

\* The user turns to another tab, or back.
SwitchTab ==
  /\ active' = ~active
  /\ UNCHANGED <<media, pipeline, sink, history>>

Next == Pump \/ Tick \/ Toggle \/ Seek \/ SwitchTab

Spec == Init /\ [][Next]_vars
-----------------------------------------------------------------------------

\* After any seek back or forth, tab switch or pause, until the element
\* reaches the end, the pictures and the sound run exactly while the controls
\* say so.  They are never ahead of the position that the controls show, but
\* for the microsecond that a seek may lose, and what they lag behind is less
\* than a frame of sound for each tick since the last seek and a microsecond:
\* both clocks count, and only a seek makes them agree again.  All sound up to
\* the clock has been handed on, and no picture from before the seek or from
\* beyond the tolerance is shown.
PicturesFollowControls ==
  LET now == Position(clock)
  IN  ~reached =>
        /\ running = ~media.paused
        /\ now <= media.time + 1
        /\ media.time * Rate < now * Rate + ticks * Second + Rate
        /\ audio = {t \in Sounds : t >= rewound} \/ \A t \in audio : t > now
        /\ shown # NoPicture => shown >= rewound /\ shown <= now + Tolerance
=============================================================================
