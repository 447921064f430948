----------------------------- MODULE Navigation -----------------------------
(***************************************************************************)
(* How the user interface keeps asynchronous work bound to the tab and the *)
(* navigation that asked for it (src/src/ui.rs over src/src/tab.rs).       *)
(*                                                                         *)
(* Every fetch, search and image batch runs as a command off the UI thread *)
(* and comes back as one message carrying the tab and the load sequence    *)
(* number it was started with.  The UI thread handles one message at a     *)
(* time, so each action below is a whole arm of `update`: the user acting, *)
(* a timer firing, or a command's answer arriving, in any order.           *)
(***************************************************************************)
EXTENDS Tab, TabManager, FiniteSets

CONSTANTS YouTubePages,  \* web pages reached through the YouTube adapter
          Illustrated,   \* pages with images to fetch after layout
          MaxTabs,       \* bound: tab ids ever given out
          MaxLoads       \* bound: the user stops acting at this load_seq

ASSUME NavigationAssumption ==
  /\ YouTubePages \subseteq WebPages
  /\ Illustrated \subseteq WebPages \ YouTubePages
  /\ MaxTabs \in Nat \ {0} /\ MaxLoads \in Nat /\ MaxClosed \in Nat \ {0}

VARIABLES
  tm,       \* browser.tabs, the tab manager
  loads,    \* load_seq, pending_loads, pending_image_batches,
            \* load_cancellations, search_state; the commands in flight and
            \* the cancellation tokens that were cancelled
  screen,   \* the display list: document, whether its images are painted,
            \* last_display_url, and whether a rebuild is under 32 ms old
  decoded,  \* pages whose images are in the decoded-image cache
  asked     \* history variable, not in the code: the page the user last
            \* asked each tab for, and whether another took its place unasked

vars == <<tm, loads, screen, decoded, asked>>

active == tm.active_tab_id
activeUrl == ActiveTab(tm).url
Ask(t, url) == Insert(asked, t, [page |-> url, lost |-> FALSE])

\* The browser itself makes url the page of tab t.
Diverted(a, t, url) == Insert(a, t, [page |-> a[t].page, lost |-> a[t].page # url])

-----------------------------------------------------------------------------
(* The load bookkeeping `l` of the application, as each helper leaves it. *)

\* Mutant: the previous token is dropped without being cancelled.
CancelDropsToken(l, t) == [l EXCEPT !.load_cancellations = Forget(@, t)]

Cancel(l, t) ==
  [l EXCEPT !.cancelled = @ \cup {l.load_cancellations[x] : x \in DOMAIN l.load_cancellations \cap {t}},
            !.load_cancellations = Forget(@, t)]

\* invalidate_active_tab_loads
Invalidate(l, t) ==
  [Cancel(l, t) EXCEPT !.load_seq = @ + 1,
                       !.pending_loads = Insert(@, t, l.load_seq + 1),
                       !.pending_image_batches = Forget(@, t)]

\* start_fetch, start_search and begin_youtube_load: a new sequence number
\* and a new token, named by that number.
Start(l, t, kind, target) ==
  LET i == Invalidate(l, t)
      seq == i.load_seq
  IN  [i EXCEPT !.load_cancellations = Insert(@, t, seq),
                !.commands = @ \cup {[kind |-> kind, tab |-> t, seq |-> seq,
                                      target |-> target, token |-> seq]},
                !.search_state = IF kind = "search"
                                 THEN Insert(@, t, [query |-> target, loading |-> TRUE])
                                 ELSE @]

\* schedule_image_loading: the batch borrows the tab's token if it has one;
\* otherwise it gets a token nobody else holds.
ScheduleImages(l, t, scr) ==
  IF scr.complete \/ scr.dom \in decoded THEN l
  ELSE LET seq == l.load_seq + 1
       IN  [l EXCEPT !.load_seq = seq,
                     !.pending_image_batches = Insert(@, t, seq),
                     !.commands = @ \cup
                        {[kind |-> "images", tab |-> t, seq |-> seq, target |-> scr.dom,
                          token |-> IF t \in DOMAIN l.load_cancellations
                                    THEN l.load_cancellations[t] ELSE seq]}]

\* The answer m has arrived and its load is no longer outstanding.
Landed(m) ==
  [loads EXCEPT !.commands = @ \ {m}, !.load_cancellations = Forget(@, m.tab)]

IsNewest(m) == m.tab \in DOMAIN loads.pending_loads /\ loads.pending_loads[m.tab] = m.seq

-----------------------------------------------------------------------------
(* What is painted. *)

Painted(tab, cache) ==
  [dom |-> IF IsInternal(tab.url) THEN Root ELSE tab.dom,
   complete |-> IsInternal(tab.url) \/ tab.dom \notin Illustrated \ cache]

\* rebuild_display_list: within 32 ms of the last rebuild for the same
\* address a non-empty list is kept as it is.
Rebuilt(m, scr, cache) ==
  LET tab == ActiveTab(m)
      new == Painted(tab, cache)
  IN  IF scr.recent /\ scr.last_url = tab.url /\ scr.dom # Root THEN scr
      ELSE [dom |-> new.dom, complete |-> new.complete, last_url |-> tab.url, recent |-> TRUE]

\* is_search_active: a search page whose stored search never completed.
SearchUnfinished(m, l) ==
  /\ ActiveTab(m).url \in SearchPages
  /\ m.active_tab_id \in DOMAIN l.search_state
  /\ l.search_state[m.active_tab_id].loading

\* after_tab_change, from the tab manager m and the bookkeeping l: what it
\* starts in the active tab, once scr is painted, and all it changes.
StartedBy(m, l, scr) ==
  IF SearchUnfinished(m, l) THEN Start(l, m.active_tab_id, "search", ActiveTab(m).url)
  ELSE ScheduleImages(l, m.active_tab_id, scr)

PaintedBy(m, l) == IF SearchUnfinished(m, l) THEN screen ELSE Rebuilt(m, screen, decoded)

AfterTabChange(m, l, a) ==
  /\ tm' = m
  /\ screen' = PaintedBy(m, l)
  /\ loads' = StartedBy(m, l, screen')
  /\ asked' = IF SearchUnfinished(m, l) THEN Diverted(a, m.active_tab_id, ActiveTab(m).url) ELSE a
  /\ decoded' = decoded

-----------------------------------------------------------------------------
(* The user. *)

UserActs == loads.load_seq < MaxLoads

Fetch(url, kind) ==
  /\ loads' = Start(loads, active, kind, url)
  /\ asked' = Ask(active, url)
  /\ UNCHANGED <<tm, screen, decoded>>

Navigate(url) == UserActs /\ url \in WebPages \ YouTubePages /\ Fetch(url, "page")

NavigateYouTube(url) == UserActs /\ url \in YouTubePages /\ Fetch(url, "youtube")

\* open_internal(url, false), followed by start_search on a search page.
OpenInternal(url) ==
  LET m == WithTab(tm, active, CommitInternal(ActiveTab(tm), url))
      l == Invalidate(loads, active)
  IN  /\ UserActs
      /\ tm' = m
      /\ loads' = IF url \in SearchPages THEN Start(l, active, "search", url) ELSE l
      /\ screen' = Rebuilt(m, screen, decoded)
      /\ asked' = Ask(active, url)
      /\ UNCHANGED decoded

\* Mutant: Back and Forward leave the load in flight valid.
TravelKeepsLoads(tab) ==
  /\ UserActs
  /\ AfterTabChange(WithTab(tm, active, tab), loads, Ask(active, tab.url))

Travel(tab) ==
  /\ UserActs
  /\ AfterTabChange(WithTab(tm, active, tab), Invalidate(loads, active), Ask(active, tab.url))

Back == Travel(GoBack(ActiveTab(tm)))
Forward == Travel(GoForward(ActiveTab(tm)))

Reload ==
  /\ UserActs
  /\ IF activeUrl = NewTabPage
     THEN AfterTabChange(tm, loads, asked)
     ELSE Fetch(activeUrl, IF activeUrl \in SearchPages THEN "search" ELSE "page")

NewTab ==
  LET m == AddTab(tm, FreshTab(NewTabPage, NewTabPage))
  IN  /\ UserActs /\ tm.next_id <= MaxTabs
      /\ tm' = m
      /\ screen' = Rebuilt(m, screen, decoded)
      /\ asked' = Ask(tm.next_id, NewTabPage)
      /\ UNCHANGED <<loads, decoded>>

\* ReopenClosedTab: a new tab, then a fetch of the remembered address in it.
ReopenClosedTab ==
  LET m == PopClosed(AddTab(tm, FreshTab(NewTabPage, NewTabPage)))
      url == Last(tm.closed_tabs)
  IN  /\ UserActs /\ tm.next_id <= MaxTabs /\ tm.closed_tabs # <<>>
      /\ tm' = m
      /\ screen' = Rebuilt(m, screen, decoded)
      /\ loads' = Start(loads, tm.next_id, "page", url)
      /\ asked' = Ask(tm.next_id, url)
      /\ UNCHANGED decoded

\* CloseTab and CloseCurrentTab; ensure_tab opens a new tab page after the
\* last one.
CloseTab(id) ==
  LET rest == RemoveTab(tm, id, tm.tabs[id].url \in WebPages)
      m == IF OpenIds(rest) = {} THEN AddTab(rest, FreshTab(NewTabPage, NewTabPage)) ELSE rest
      cut == Cancel(loads, id)
      l == [cut EXCEPT !.pending_loads = Forget(@, id), !.search_state = Forget(@, id)]
  IN  /\ UserActs
      /\ OpenIds(rest) = {} => tm.next_id <= MaxTabs
      /\ AfterTabChange(m, l, IF OpenIds(rest) = {} THEN Forget(Ask(tm.next_id, NewTabPage), id)
                              ELSE Forget(asked, id))

\* NextTab, PrevTab and SelectTabNumber activate a tab as it is.
Switch(m) == UserActs /\ AfterTabChange(m, loads, asked)

NextTab == Switch(Cycled(tm, 1))
PrevTab == Switch(Cycled(tm, Len(tm.tab_order) - 1))
SelectTabNumber(id) == Switch(Activate(tm, id))

\* SelectTab: a click on the strip wakes a sleeping or discarded tab, from its
\* snapshot or by a fetch of its address in the tab that has just become
\* active; the command after_tab_change returns is then thrown away, and the
\* fetch takes the place of a load the user had started in the tab.
Revive(id, tab) ==
  LET m == Activate(WithTab(tm, id, tab), id)
      noted == [StartedBy(m, loads, screen') EXCEPT !.commands = loads.commands]
  IN  /\ tm' = m
      /\ screen' = PaintedBy(m, loads)
      /\ loads' = Start(noted, id, "page", tab.url)
      /\ asked' = Diverted(asked, id, tab.url)
      /\ UNCHANGED decoded

SelectTab(id) ==
  LET tab == tm.tabs[id]
  IN  /\ UserActs
      /\ CASE tab.is_sleeping /\ NeedsReload(tab)  -> Revive(id, Wake(tab))
           [] tab.is_sleeping /\ ~NeedsReload(tab) ->
                Switch(Activate(WithTab(tm, id, Wake(tab)), id))
           [] tab.is_discarded                     -> Revive(id, Undiscard(tab))
           [] OTHER                                -> Switch(Activate(tm, id))

-----------------------------------------------------------------------------
(* Timers. *)

PageRuntimeTick ==
  LET tab == ActiveTab(tm)
      m == WithTab(tm, active, Pump(tab))
  IN  /\ ~tab.is_sleeping /\ ~tab.is_discarded /\ tab.runtime # None
      /\ tm' = m
      /\ screen' = Rebuilt(m, screen, decoded)
      /\ UNCHANGED <<loads, decoded, asked>>

\* Any tab but the active one may be the longest inactive; the image cache
\* drops what was not used for five minutes.
MemorySaverTick ==
  /\ \E id \in OpenIds(tm) \ {active} :
        CanSleep(tm.tabs[id]) /\ tm' = WithTab(tm, id, Sleep(tm.tabs[id]))
  /\ \E kept \in SUBSET decoded : decoded' = kept
  /\ UNCHANGED <<loads, screen, asked>>

\* The tabs once those of S are asleep and those of D discarded.
Relieved(S, D) ==
  [id \in OpenIds(tm) |-> CASE id \in D     -> Discard(tm.tabs[id])
                          [] id \in S \ D -> Sleep(tm.tabs[id])
                          [] OTHER        -> tm.tabs[id]]

\* relieve_memory_pressure: evict images not used for a minute, sleep tabs and,
\* if that was not enough, discard up to three, never leaving fewer than two
\* live tabs.
MemoryPressureTick ==
  LET others == OpenIds(tm) \ {active}
      sleepable == {id \in others : CanSleep(tm.tabs[id])}
      discardable == {id \in others : ~ReliefProtected(tm.tabs[id])}
      live == {id \in OpenIds(tm) : ~tm.tabs[id].is_discarded}
  IN  /\ \E S \in SUBSET sleepable, D \in SUBSET discardable :
           /\ D # {} => S = sleepable /\ Cardinality(D) <= 3 /\ Cardinality(live \ D) >= 2
           /\ tm' = [tm EXCEPT !.tabs = Relieved(S, D)]
      /\ \E kept \in SUBSET decoded : decoded' = kept
      /\ UNCHANGED <<loads, screen, asked>>

\* 32 ms pass without a rebuild.
DebounceElapsed ==
  /\ screen.recent
  /\ screen' = [screen EXCEPT !.recent = FALSE]
  /\ UNCHANGED <<tm, loads, decoded, asked>>

-----------------------------------------------------------------------------
(* Answers.  An answer whose sequence number is not its tab's newest is    *)
(* dropped; CloseTab forgets the number, so a closed tab's answers are too.*)

Lands(m, kind) == m.kind = kind /\ IsNewest(m) /\ m.tab \in OpenIds(tm)

DropStale(m) ==
  /\ m.kind # "images" /\ ~(IsNewest(m) /\ m.tab \in OpenIds(tm))
  /\ loads' = [loads EXCEPT !.commands = @ \ {m}]
  /\ UNCHANGED <<tm, screen, decoded, asked>>

\* PageLoaded paints the new document directly; last_display_url keeps the
\* address of the last rebuild.
PageLoaded(m) ==
  LET tab == CommitPage(tm.tabs[m.tab], m.target)
      new == Painted(tab, decoded)
      scr == [screen EXCEPT !.dom = new.dom, !.complete = new.complete]
  IN  /\ Lands(m, "page")
      /\ tm' = WithTab(tm, m.tab, tab)
      /\ IF m.tab = active
         THEN screen' = scr /\ loads' = ScheduleImages(Landed(m), active, scr)
         ELSE screen' = screen /\ loads' = Landed(m)
      /\ UNCHANGED <<decoded, asked>>

LoadError(m) ==
  LET new == WithTab(tm, m.tab, CommitError(tm.tabs[m.tab], m.target))
  IN  /\ Lands(m, "page")
      /\ tm' = new
      /\ loads' = Landed(m)
      /\ screen' = IF m.tab = active THEN Rebuilt(new, screen, decoded) ELSE screen
      /\ UNCHANGED <<decoded, asked>>

\* Mutant: a settled search keeps its token.
SearchSettledKeepsToken(m) ==
  /\ Lands(m, "search")
  /\ loads' = [loads EXCEPT !.commands = @ \ {m},
                 !.search_state = Insert(@, m.tab, [query |-> m.target, loading |-> FALSE])]
  /\ UNCHANGED <<tm, screen, decoded, asked>>

\* SearchResultsLoaded and SearchError: results or a message, either way done.
SearchSettled(m) ==
  /\ Lands(m, "search")
  /\ loads' = [Landed(m) EXCEPT
                 !.search_state = Insert(@, m.tab, [query |-> m.target, loading |-> FALSE])]
  /\ screen' = IF m.tab = active THEN Rebuilt(tm, screen, decoded) ELSE screen
  /\ UNCHANGED <<tm, decoded, asked>>

\* YouTubeSearchLoaded builds its page through load_html, which writes to the
\* active tab, so the result is used only while the tab is active.
YouTubeSearchLoaded(m) ==
  LET new == WithTab(tm, active, CommitHtml(ActiveTab(tm), m.target))
  IN  /\ Lands(m, "youtube")
      /\ loads' = Landed(m)
      /\ IF m.tab = active
         THEN tm' = new /\ screen' = Rebuilt(new, screen, decoded) /\ asked' = asked
         ELSE UNCHANGED <<tm, screen>> /\ asked' = Diverted(asked, m.tab, tm.tabs[m.tab].url)
      /\ UNCHANGED decoded

\* A failed YouTube search is reported in the status bar only.
YouTubeSearchFailed(m) ==
  /\ Lands(m, "youtube")
  /\ loads' = Landed(m)
  /\ asked' = Diverted(asked, m.tab, tm.tabs[m.tab].url)
  /\ UNCHANGED <<tm, screen, decoded>>

\* ImagesLoaded compares the batch with pending_loads, not with
\* pending_image_batches.  A batch may also come back without pixels.
ImagesLoaded(m) ==
  /\ m.kind = "images"
  /\ loads' = [loads EXCEPT !.commands = @ \ {m}]
  /\ decoded' \in {decoded, decoded \cup {m.target}}
  /\ screen' = IF IsNewest(m) /\ m.tab = active THEN Rebuilt(tm, screen, decoded') ELSE screen
  /\ UNCHANGED <<tm, asked>>

-----------------------------------------------------------------------------
Init ==
  /\ tm = AddTab(EmptyManager, FreshTab(NewTabPage, NewTabPage))
  /\ loads = [load_seq |-> 0, pending_loads |-> <<>>, pending_image_batches |-> <<>>,
              load_cancellations |-> <<>>, search_state |-> <<>>,
              commands |-> {}, cancelled |-> {}]
  /\ screen = [dom |-> Root, complete |-> TRUE, last_url |-> NewTabPage, recent |-> TRUE]
  /\ decoded = {}
  /\ asked = [t \in {1} |-> [page |-> NewTabPage, lost |-> FALSE]]

UserAction ==
  \/ \E url \in WebPages : Navigate(url) \/ NavigateYouTube(url)
  \/ \E url \in SearchPages \cup {NewTabPage} : OpenInternal(url)
  \/ Back \/ Forward \/ Reload
  \/ NewTab \/ ReopenClosedTab
  \/ NextTab \/ PrevTab
  \/ \E id \in OpenIds(tm) : CloseTab(id) \/ SelectTab(id) \/ SelectTabNumber(id)

Timer == PageRuntimeTick \/ MemorySaverTick \/ MemoryPressureTick \/ DebounceElapsed

Answer(m) ==
  \/ DropStale(m)
  \/ PageLoaded(m) \/ LoadError(m)
  \/ SearchSettled(m)
  \/ YouTubeSearchLoaded(m) \/ YouTubeSearchFailed(m)
  \/ ImagesLoaded(m)

Answered == \E m \in loads.commands : Answer(m)

Next == UserAction \/ Timer \/ Answered

Spec == Init /\ [][Next]_vars

\* Every command ends, at the latest at its network timeout, and the runtime
\* delivers its message.
FairSpec == Spec /\ WF_vars(Answered)
-----------------------------------------------------------------------------
(* Properties. *)

Current(t) == {m \in loads.commands : m.kind # "images" /\ m.tab = t /\ IsNewest(m)}

\* Every variable has its type; the strip lists each open tab once and one of
\* them is active (TabManager, ensure_tab).
TypeOK ==
  /\ StripSound(tm) /\ OpenIds(tm) # {}
  /\ \A id \in OpenIds(tm) : tm.tabs[id] \in TabRecords
  /\ loads.load_seq \in Nat
  /\ \A m \in loads.commands : /\ m.kind \in {"page", "search", "youtube", "images"}
                               /\ m.seq \in 1..loads.load_seq /\ m.target \in Urls
  /\ decoded \subseteq Illustrated
  /\ DOMAIN asked = OpenIds(tm)

OnItsWay(t) ==
  \/ tm.tabs[t].url = asked[t].page
  \/ \E m \in Current(t) : m.target = asked[t].page

\* What the user last asked a tab to show is on the tab, or a load for it is
\* running and is still the tab's newest: no late answer replaces a page the
\* user moved on to, and no background event - an image batch scheduled by a
\* tab switch, a tab put to sleep, another tab closed - makes the browser
\* forget a load (load_seq, pending_loads).  Only four things take a load away
\* unasked, and each puts the tab's own address in its place: a click on a
\* sleeping or discarded tab, the restart of an unfinished search, a YouTube
\* search that fails and one whose results come while another tab is active.
AskedPageArrives == \A t \in OpenIds(tm) : ~asked[t].lost => OnItsWay(t)

\* A fetch or search that can no longer be used has been told to stop, so it
\* gives its network permits back (previous.cancel()).
SupersededIsCancelled ==
  \A m \in loads.commands : m.kind # "images" /\ ~IsNewest(m) => m.token \in loads.cancelled

\* The history cursor is on the page the tab shows unless that page is an
\* error page, a reload never stacks a second copy, and the stack is bounded
\* (push_history, go_back, go_forward over any mix of loads and failures).
HistorySound ==
  \A t \in OpenIds(tm) : LET h == tm.tabs[t].history IN
     /\ Len(h) <= MaxHistory /\ tm.tabs[t].history_pos \in DOMAIN h
     /\ ~tm.tabs[t].is_error => h[tm.tabs[t].history_pos].url = tm.tabs[t].url
     /\ \A i \in 1..(Len(h) - 1) : h[i].url # h[i + 1].url

\* Every load a tab waits for is eventually answered, superseded or given up
\* with its tab.
LoadsResolve ==
  \A t \in 1..MaxTabs : t \in DOMAIN loads.load_cancellations
                        ~> t \notin DOMAIN loads.load_cancellations

(* What comments promise and the code does not keep. *)

\* What the user last asked a tab to show is on the tab or on its way there:
\* nothing the browser does by itself takes the load's place (after_tab_change).
NothingIsDiverted == \A t \in OpenIds(tm) : OnItsWay(t)

\* A tab never shows one page's document under another's address.
DocumentMatchesAddress ==
  \A t \in OpenIds(tm) : tm.tabs[t].url \in WebPages =>
     tm.tabs[t].dom \in {tm.tabs[t].url, Root, ErrorPage}

=============================================================================
