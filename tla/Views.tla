-------------------------------- MODULE Views --------------------------------
(* The user interface, the live player, which a message of the user          *)
(* interface starts and which goes on in a tab of its own, and a page that   *)
(* feeds a media element.  They share no state: the player asks only whether *)
(* its tab is the one in front.                                              *)
EXTENDS Navigation

CONSTANTS Pictures, Sounds, Duration, Period, Second, Rate, Tolerance, Steps, SinkLimit,
          Future, Enough

VARIABLES media, clock, running, video, audio, shown, sink, inFront, reached, rewound, ticks

playerVars ==
  <<media, clock, running, video, audio, shown, sink, inFront, reached, rewound, ticks>>

Player == INSTANCE LivePlayback WITH active <- inFront

ASSUME PlaybackAssumption == Player!PlaybackAssumption

\* Stated in LivePlayback.
PicturesFollowControls == Player!PicturesFollowControls

\* Of the page that feeds an element; FeedCalls bounds its calls.
CONSTANTS Segments, Offsets, Ranges, Durations, Positions, MaxTime, MaxBuffers, MaxSamples,
          MaxBytes, MaxTotal, SizeLimit, FeedFuture, FeedEnough, FeedCalls

VARIABLES source, element, attached, copy, outcome, calls

feedVars == <<source, element, attached, copy, outcome, calls>>

Feed == INSTANCE SourceBuffers WITH
  Future <- FeedFuture, Enough <- FeedEnough, LastCall <- FeedCalls

ASSUME SourceAssumption == Feed!SourceAssumption

\* Stated in SourceBuffers.
SamplesDisjoint == Feed!SamplesDisjoint
=============================================================================
