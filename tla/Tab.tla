-------------------------------- MODULE Tab --------------------------------
(***************************************************************************)
(* One browser tab (src/src/tab.rs, struct Tab): the document it shows,    *)
(* its session history, the snapshot kept while it sleeps and the page     *)
(* runtime whose scripts go on running between user turns.  The module has *)
(* no state: every operator maps a tab to the tab the method leaves.       *)
(*                                                                         *)
(* A document is named by the URL it was fetched from.  Root is the empty  *)
(* <root> element, ErrorPage any of the browser's own error documents.     *)
(***************************************************************************)
EXTENDS Naturals, Sequences

CONSTANTS WebPages,     \* http(s) addresses
          SearchPages,  \* ghita://search?q=... addresses, one per query
          NewTabPage,   \* ghita://newtab
          Oversize,     \* pages whose serialised DOM exceeds the snapshot cap
          Scripted,     \* pages whose runtime needs an event pump
          MaxHistory,   \* MAX_HISTORY_ENTRIES
          Root, ErrorPage, None

ASSUME TabAssumption ==
  /\ MaxHistory \in Nat \ {0}
  /\ Oversize \subseteq WebPages
  /\ Scripted \subseteq WebPages

IsInternal(url) == url \in SearchPages \/ url = NewTabPage
Urls == WebPages \cup SearchPages \cup {NewTabPage}
Docs == Urls \cup {Root, ErrorPage}

\* compress_dom: trivial and oversize documents leave no snapshot.
Snapshot(doc) == IF doc \in Oversize \cup {Root} THEN None ELSE doc

HistoryEntry(url, doc) == [url |-> url, dom |-> Snapshot(doc)]

\* entry.get_dom().unwrap_or_else(|| Element::new("root"))
EntryDom(entry) == IF entry.dom = None THEN Root ELSE entry.dom

FreshTab(url, doc) ==
  [url |-> url, dom |-> doc, is_error |-> FALSE,
   history |-> <<HistoryEntry(url, doc)>>, history_pos |-> 1,
   is_sleeping |-> FALSE, is_discarded |-> FALSE,
   compressed_dom |-> None, runtime |-> None]

TabRecords ==
  [url : Urls, dom : Docs, is_error : BOOLEAN,
   history : UNION {[1..n -> [url : Urls, dom : Urls \cup {ErrorPage, None}]] : n \in 1..MaxHistory},
   history_pos : 1..MaxHistory,
   is_sleeping : BOOLEAN, is_discarded : BOOLEAN,
   compressed_dom : Urls \cup {ErrorPage, None}, runtime : WebPages \cup {None}]

-----------------------------------------------------------------------------
(* Session history. *)

\* Mutant: a reload stacks a second copy.
PushHistoryStacks(tab, entry) ==
  LET pushed == Append(SubSeq(tab.history, 1, tab.history_pos), entry)
      bounded == IF Len(pushed) > MaxHistory THEN Tail(pushed) ELSE pushed
  IN  [tab EXCEPT !.history = bounded, !.history_pos = Len(bounded)]

PushHistory(tab, entry) ==
  LET kept == SubSeq(tab.history, 1, tab.history_pos)
      pushed == IF kept[Len(kept)].url = entry.url
                THEN [kept EXCEPT ![Len(kept)] = entry]
                ELSE Append(kept, entry)
      bounded == IF Len(pushed) > MaxHistory THEN Tail(pushed) ELSE pushed
  IN  [tab EXCEPT !.history = bounded, !.history_pos = Len(bounded)]

ShowEntry(tab, pos) ==
  [tab EXCEPT !.history_pos = pos,
              !.url = tab.history[pos].url,
              !.dom = EntryDom(tab.history[pos]),
              !.is_error = FALSE]

\* An error page is not in the history: Back from it shows the entry under
\* the cursor again.
GoBack(tab) ==
  CASE tab.is_error                         -> ShowEntry(tab, tab.history_pos)
    [] ~tab.is_error /\ tab.history_pos > 1 -> ShowEntry(tab, tab.history_pos - 1)
    [] OTHER                                -> tab

GoForward(tab) ==
  IF tab.history_pos < Len(tab.history) THEN ShowEntry(tab, tab.history_pos + 1) ELSE tab

-----------------------------------------------------------------------------
(* What a finished load does to its tab (ui.rs). *)

\* PageLoaded: the new document, awake, with a runtime of its own.
CommitPage(tab, page) ==
  [PushHistory(tab, HistoryEntry(page, page)) EXCEPT
     !.url = page, !.dom = page, !.is_error = FALSE,
     !.is_sleeping = FALSE, !.is_discarded = FALSE,
     !.compressed_dom = IF tab.is_sleeping \/ tab.is_discarded THEN None ELSE @,
     !.runtime = IF page \in Scripted THEN page ELSE None]

\* LoadError: the error document under the address that failed.
CommitError(tab, url) ==
  [tab EXCEPT !.url = url, !.dom = ErrorPage, !.is_error = TRUE]

\* open_internal in the current tab.
CommitInternal(tab, url) ==
  [PushHistory(tab, HistoryEntry(url, url)) EXCEPT
     !.url = url, !.dom = url, !.is_error = FALSE]

\* Browser::load_html: leaves is_error, the runtime and the sleep flags alone.
CommitHtml(tab, url) ==
  [PushHistory(tab, HistoryEntry(url, url)) EXCEPT !.url = url, !.dom = url]

\* pump_runtime and refresh_render: the document becomes the runtime's.
Pump(tab) == [tab EXCEPT !.dom = tab.runtime]

-----------------------------------------------------------------------------
(* Memory saver. *)

CanSleep(tab) ==
  ~tab.is_sleeping /\ ~tab.is_discarded /\ ~tab.is_error /\ tab.url \in WebPages

Sleep(tab) ==
  [tab EXCEPT !.compressed_dom = Snapshot(tab.dom), !.dom = Root,
              !.runtime = None, !.is_sleeping = TRUE]

NeedsReload(tab) == tab.compressed_dom = None

Wake(tab) ==
  [tab EXCEPT !.is_sleeping = FALSE, !.compressed_dom = None,
              !.dom = IF NeedsReload(tab) THEN Root ELSE tab.compressed_dom]

Discard(tab) ==
  [tab EXCEPT !.dom = Root, !.runtime = None, !.compressed_dom = None,
              !.is_sleeping = FALSE, !.is_discarded = TRUE]

Undiscard(tab) == [tab EXCEPT !.is_discarded = FALSE, !.dom = Root]

\* is_memory_relief_protected, the active tab aside.
ReliefProtected(tab) == tab.is_error \/ tab.url \notin WebPages \/ tab.is_discarded
=============================================================================
