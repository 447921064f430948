----------------------------- MODULE EngineState -----------------------------
(* What the engine of a page keeps between two steps of its scripts: the     *)
(* object heap of the runtime, the promises with their jobs, the document    *)
(* they work on, and the styles of a document.  They share no state.         *)
EXTENDS BoundedHeap

\* Of the promises; JobCalls bounds the calls made and the turns begun.
CONSTANTS Addresses, MaxJobs, MaxReactions, JobCalls

VARIABLES heap, kept, waiters, defined, jobs, reactions, queued, processed, job, at, owed,
          jobCalls, nextPromise

jobVars == <<heap, kept, waiters, defined, jobs, reactions, queued, processed, job, at, owed,
             jobCalls, nextPromise>>

Promises == INSTANCE PromiseJobs WITH
  LastCall <- JobCalls, calls <- jobCalls, nextId <- nextPromise

\* Of the document; DocumentCalls bounds the calls made.
CONSTANTS MaxNodes, MaxDepth, MaxPath, MaxShadows, LastId, DocumentCalls, Markup

VARIABLES nodes, nextId, shadows, dirty, calls, render, layout, lost, torn

documentVars == <<nodes, nextId, shadows, dirty, calls, render, layout, lost, torn>>

Dom == INSTANCE LiveDocument WITH LastCall <- DocumentCalls

\* Of the styles; StyleCalls bounds the calls made.
CONSTANTS Elements, RootElement, Classes, Rules, Written, Inlines, MaxCache, StyleCalls

VARIABLES children, class, inline, data, cache, shown, stale, styleCalls

styleVars == <<children, class, inline, data, cache, shown, stale, styleCalls>>

Styles == INSTANCE StyleCascade WITH
  Nodes <- Elements, Root <- RootElement, LastCall <- StyleCalls,
  dirty <- stale, calls <- styleCalls

ASSUME EngineAssumption == Promises!PromiseJobsAssumption
ASSUME DocumentAssumption == Dom!DocumentAssumption
ASSUME CascadeAssumption == Styles!CascadeAssumption

\* Stated in PromiseJobs.
OwedOnce == Promises!OwedOnce
SettlesOnce == Promises!SettlesOnce

\* Stated in LiveDocument.
TreeSound == Dom!TreeSound
RenderIsCurrent == Dom!RenderIsCurrent
BoundaryHides == Dom!BoundaryHides

\* Stated in StyleCascade.
StylesAreCurrent == Styles!StylesAreCurrent
=============================================================================
