----------------------------- MODULE MCNavigation -----------------------------
(* A user who reads pages: two web pages, one with scripts and images, and a *)
(* YouTube search, in three tabs, so that the memory monitor may discard one. *)
(* Beside it a user who searches: two queries and one web page in two tabs;  *)
(* the live player and a video of a little more than four ticks; a page that *)
(* feeds a media element; and the engines that run what a page brings along: *)
(* the parser and the evaluator of its scripts and the WebAssembly           *)
(* interpreter.  They share no state: `part` says which of them a behaviour  *)
(* is about.                                                                 *)
EXTENDS Views

CONSTANTS page1, query1, query2

VARIABLES part, tm2, loads2, screen2, decoded2, asked2,
          script, read, program, ended, module, instance, callFrames, steps, outcomes

searchVars == <<tm2, loads2, screen2, decoded2, asked2>>
scriptVars == <<script, read, program, ended>>
wasmVars == <<module, instance, callFrames, steps, outcomes>>

Searches == INSTANCE Navigation WITH
  WebPages <- {page1}, SearchPages <- {query1, query2}, Oversize <- {}, Scripted <- {},
  YouTubePages <- {}, Illustrated <- {}, MaxHistory <- 3, MaxTabs <- 2, MaxLoads <- 4,
  tm <- tm2, loads <- loads2, screen <- screen2, decoded <- decoded2, asked <- asked2

At(time, length, bytes) == [track |-> 1, at |-> time, length |-> length, bytes |-> bytes]

PageSegments ==
  {<<>>, <<At(0, 1, 1)>>, <<At(1, 2, 2)>>, <<At(0, 2, 2), At(2, 1, 1)>>,
   <<At(2, 2, 1), At(1, 2, 1)>>, <<At(0, 1, 2), At(1, 1, 2)>>}

PageRanges == {[from |-> 0, to |-> 1], [from |-> 2, to |-> 4]}
PageOffsets == {-1, 1}

Samples == INSTANCE Samples
Parser == INSTANCE ScriptParser WITH MaxParseDepth <- 64, Scripts <- Samples!Scripts
Control == INSTANCE ScriptControl WITH
  MaxSteps <- 80, MaxCallDepth <- 4, MaxIterations <- 2, Programs <- Samples!Programs

Wasm == INSTANCE WasmCode WITH
  ByteBits <- 1, PageSize <- 8, MaxMemory <- 16, MaxSteps <- 150, MaxStack <- 12, MaxCallDepth <- 3,
  MaxCodeDepth <- 8, Sources <- Samples!Modules, source <- module, frames <- callFrames

ASSUME Parser!MaxParseDepthAssumption
ASSUME Control!ControlAssumption /\ Wasm!WasmAssumption

allVars == <<part, vars, searchVars, playerVars, feedVars, scriptVars, wasmVars>>
Reading == part = "pages" /\ UNCHANGED <<part, searchVars, playerVars, feedVars, scriptVars, wasmVars>>
Searching == part = "searches" /\ UNCHANGED <<part, vars, playerVars, feedVars, scriptVars, wasmVars>>
Playing == part = "player" /\ UNCHANGED <<part, vars, searchVars, feedVars, scriptVars, wasmVars>>
Feeding == part = "feed" /\ UNCHANGED <<part, vars, searchVars, playerVars, scriptVars, wasmVars>>
Others == <<vars, searchVars, playerVars, feedVars>>
Parsing == part = "parser" /\ UNCHANGED <<part, Others, program, ended, wasmVars>>
Running == part = "control" /\ UNCHANGED <<part, Others, script, read, wasmVars>>
Computing == part = "wasm" /\ UNCHANGED <<part, Others, scriptVars>>

MCInit == /\ part \in {"pages", "searches", "player", "feed", "parser", "control", "wasm"}
          /\ Init /\ Searches!Init /\ Player!Init /\ Feed!Init
          /\ read = <<>> /\ script \in IF part = "parser" THEN Samples!Scripts ELSE {<<Samples!X>>}
          /\ ended = <<>> /\ program \in IF part = "control" THEN Samples!Programs ELSE {<<Samples!X>>}
          /\ IF part = "wasm" THEN Wasm!Init
             ELSE /\ module = <<>> /\ instance = [ok |-> FALSE]
                  /\ callFrames = <<>> /\ steps = 0 /\ outcomes = <<>>
MCNext == \/ Reading /\ Next
          \/ Searching /\ Searches!Next
          \/ Playing /\ Player!Next
          \/ Feeding /\ Feed!Next
          \/ Parsing /\ Parser!Next
          \/ Running /\ Control!Next
          \/ Computing /\ Wasm!Next
MCSpec == MCInit /\ [][MCNext]_allVars /\ WF_allVars(Searching /\ Searches!Answered)

\* The one about searches, stated in Navigation, and those of the engines.
SearchesResolve == Searches!LoadsResolve
ReadsBack == Parser!ReadsBack
RunsAsSpecified == Control!RunsAsSpecified
RunsTheTrees == Wasm!RunsTheTrees
=============================================================================
