-------------------------- MODULE NavigationProofs --------------------------
(***************************************************************************)
(* For every set of pages, any number of tabs and loads and any order in   *)
(* which the commands of the user interface answer.                        *)
(*                                                                         *)
(* The inductive invariant NavInv has three parts.  LoadsSound: a load     *)
(* whose token was not cancelled is its tab's newest and holds its tab's   *)
(* token, so that the next load of the tab finds the token to cancel.      *)
(* Typed: types, sound histories and a sound strip, with ids that are      *)
(* never given out twice.  AskedSound: what a current load fetches is what *)
(* the user asked, and a tab that waits for nothing shows it, unless the   *)
(* browser put another page in its place.  The proof                       *)
(* goes from the helpers on tabs, the strip and the bookkeeping, through   *)
(* the user's actions, the timers and the answers, to every step.          *)
(*                                                                         *)
(* The section on the live player holds for every video, tolerance and     *)
(* step of the seek buttons.                                               *)
(*                                                                         *)
(* The last section is about the page that feeds a media element.  Its     *)
(* invariant SourceSound says of each buffer that its list names no sample *)
(* twice and that no two of a track overlap (Disjoint).  An append keeps   *)
(* this sample by sample, as what the new one overlaps leaves first; the   *)
(* sort only moves what the list has; a rollback cuts the list.            *)
(***************************************************************************)
EXTENDS Views, DataLemmas

(* The fields of the load bookkeeping.                                     *)
Bookkeeping(l) ==
  l = [load_seq |-> l.load_seq, pending_loads |-> l.pending_loads,
       pending_image_batches |-> l.pending_image_batches,
       load_cancellations |-> l.load_cancellations, search_state |-> l.search_state,
       commands |-> l.commands, cancelled |-> l.cancelled]

NewestIn(l, m) == m.tab \in DOMAIN l.pending_loads /\ l.pending_loads[m.tab] = m.seq

HasToken(l, m) ==
  m.tab \in DOMAIN l.load_cancellations /\ l.load_cancellations[m.tab] = m.token

(* Sequence numbers are never given out twice, and a load whose token was  *)
(* not cancelled is its tab's newest and can be cancelled through its tab. *)
LoadsSound(l) ==
  /\ Bookkeeping(l)
  /\ l.load_seq \in Nat
  /\ \A m \in l.commands : m.seq \in 1..l.load_seq
  /\ \A m, n \in l.commands : m.seq = n.seq => m = n
  /\ \A m \in l.commands : m.kind # "images" =>
        m.token \in l.cancelled \/ (NewestIn(l, m) /\ HasToken(l, m))

(* A tab's fields have their types and its history is sound.               *)
Entries == [url : Urls, dom : Urls \cup {ErrorPage, None}]

TabSound(tab) ==
  /\ tab \in TabRecords
  /\ tab.history \in Seq(Entries) /\ Len(tab.history) \in 1..MaxHistory
  /\ tab.history_pos \in 1..Len(tab.history)
  /\ ~tab.is_error => tab.history[tab.history_pos].url = tab.url
  /\ \A i \in 1..(Len(tab.history) - 1) : tab.history[i].url # tab.history[i + 1].url

(* The tab strip, with what it needs to stay sound: ids are never reused.  *)
ManagerSound(m) ==
  /\ m = [tabs |-> m.tabs, tab_order |-> m.tab_order, active_tab_id |-> m.active_tab_id,
          next_id |-> m.next_id, closed_tabs |-> m.closed_tabs]
  /\ m.tab_order \in Seq(Nat) /\ m.next_id \in Nat /\ m.closed_tabs \in Seq(WebPages)
  /\ StripSound(m)
  /\ \A id \in OpenIds(m) : TabSound(m.tabs[id])

(* A command is for what its kind fetches and for a tab that was opened.   *)
CommandSound(m, next) ==
  /\ m.tab \in Nat /\ m.tab < next
  /\ m.kind \in {"page", "search", "youtube", "images"} /\ m.target \in Urls
  /\ m.kind = "search" => m.target \in SearchPages
  /\ m.kind = "youtube" => m.target \in YouTubePages
  /\ m.kind = "images" => m.target \in Illustrated

(* Only a page with images of its own is ever painted without them.        *)
ScreenSound(scr) ==
  /\ scr = [dom |-> scr.dom, complete |-> scr.complete, last_url |-> scr.last_url,
            recent |-> scr.recent]
  /\ scr.complete \/ scr.dom \in Illustrated

Typed ==
  /\ ManagerSound(tm) /\ OpenIds(tm) # {}
  /\ \A m \in loads.commands : CommandSound(m, tm.next_id)
  /\ ScreenSound(screen) /\ decoded \subseteq Illustrated
  /\ DOMAIN asked = OpenIds(tm)

(* The loads in cur are right for a tab that shows url when asked for want: *)
(* a search is for the page the tab shows, and unless another page took the *)
(* place of the one asked, every load is for it or the tab shows it.        *)
Right(cur, url, want) ==
  /\ \A m \in cur : m.kind = "search" => m.target = url
  /\ ~want.lost => /\ \A m \in cur : m.target = want.page
                   /\ cur = {} => url = want.page

AskedSound == \A t \in OpenIds(tm) : Right(Current(t), tm.tabs[t].url, asked[t])

NavInv == LoadsSound(loads) /\ Typed /\ AskedSound
-----------------------------------------------------------------------------
(* The helpers on the bookkeeping, field by field.                         *)
LEMMA CancelFields ==
  ASSUME NEW l, Bookkeeping(l), NEW t
  PROVE  LET c == Cancel(l, t) IN
         /\ Bookkeeping(c)
         /\ c.load_seq = l.load_seq /\ c.pending_loads = l.pending_loads
         /\ c.commands = l.commands
         /\ c.load_cancellations = Forget(l.load_cancellations, t)
         /\ l.cancelled \subseteq c.cancelled
         /\ t \in DOMAIN l.load_cancellations => l.load_cancellations[t] \in c.cancelled
  <1> DEFINE told == {l.load_cancellations[x] : x \in DOMAIN l.load_cancellations \cap {t}}
             rest == Forget(l.load_cancellations, t)
  <1>1. Cancel(l, t) = [l EXCEPT !.cancelled = l.cancelled \cup told,
                                 !.load_cancellations = rest]
    BY DEF Bookkeeping, Cancel
  <1>2. t \in DOMAIN l.load_cancellations => l.load_cancellations[t] \in told
    OBVIOUS
  <1> HIDE DEF told, rest
  <1>3. /\ Bookkeeping(Cancel(l, t))
        /\ Cancel(l, t).load_seq = l.load_seq
        /\ Cancel(l, t).pending_loads = l.pending_loads
        /\ Cancel(l, t).commands = l.commands
        /\ Cancel(l, t).load_cancellations = rest
        /\ Cancel(l, t).cancelled = l.cancelled \cup told
    BY <1>1 DEF Bookkeeping
  <1> QED BY <1>2, <1>3 DEF rest

LEMMA InvalidateFields ==
  ASSUME NEW l, Bookkeeping(l), NEW t
  PROVE  LET i == Invalidate(l, t) IN
         /\ Bookkeeping(i)
         /\ i.load_seq = l.load_seq + 1
         /\ i.pending_loads = Insert(l.pending_loads, t, l.load_seq + 1)
         /\ i.commands = l.commands
         /\ i.load_cancellations = Forget(l.load_cancellations, t)
         /\ l.cancelled \subseteq i.cancelled
         /\ t \in DOMAIN l.load_cancellations => l.load_cancellations[t] \in i.cancelled
  <1> DEFINE c == Cancel(l, t)
  <1>1. /\ Bookkeeping(c)
        /\ c.load_seq = l.load_seq /\ c.pending_loads = l.pending_loads
        /\ c.commands = l.commands
        /\ c.load_cancellations = Forget(l.load_cancellations, t)
        /\ l.cancelled \subseteq c.cancelled
        /\ t \in DOMAIN l.load_cancellations => l.load_cancellations[t] \in c.cancelled
    BY CancelFields
  <1>2. Invalidate(l, t) =
          [c EXCEPT !.load_seq = @ + 1,
                    !.pending_loads = Insert(@, t, l.load_seq + 1),
                    !.pending_image_batches = Forget(@, t)]
    BY DEF Invalidate
  <1> HIDE DEF c
  <1> QED BY <1>1, <1>2 DEF Bookkeeping

LEMMA StartFields ==
  ASSUME NEW l, Bookkeeping(l), NEW t, NEW kind, NEW target
  PROVE  LET s == Start(l, t, kind, target)
             seq == l.load_seq + 1
         IN
         /\ Bookkeeping(s)
         /\ s.load_seq = seq
         /\ s.pending_loads = Insert(l.pending_loads, t, seq)
         /\ s.load_cancellations = Insert(Forget(l.load_cancellations, t), t, seq)
         /\ s.commands = l.commands \cup
              {[kind |-> kind, tab |-> t, seq |-> seq, target |-> target, token |-> seq]}
         /\ l.cancelled \subseteq s.cancelled
         /\ t \in DOMAIN l.load_cancellations => l.load_cancellations[t] \in s.cancelled
  <1> DEFINE i == Invalidate(l, t)
  <1>1. /\ Bookkeeping(i)
        /\ i.load_seq = l.load_seq + 1
        /\ i.pending_loads = Insert(l.pending_loads, t, l.load_seq + 1)
        /\ i.commands = l.commands
        /\ i.load_cancellations = Forget(l.load_cancellations, t)
        /\ l.cancelled \subseteq i.cancelled
        /\ t \in DOMAIN l.load_cancellations => l.load_cancellations[t] \in i.cancelled
    BY InvalidateFields
  <1>2. Start(l, t, kind, target) =
          [i EXCEPT !.load_cancellations = Insert(@, t, i.load_seq),
                    !.commands = @ \cup {[kind |-> kind, tab |-> t, seq |-> i.load_seq,
                                          target |-> target, token |-> i.load_seq]},
                    !.search_state = IF kind = "search"
                                     THEN Insert(@, t, [query |-> target, loading |-> TRUE])
                                     ELSE @]
    BY DEF Start
  <1> HIDE DEF i
  <1> QED BY <1>1, <1>2 DEF Bookkeeping

(* The bookkeeping s of a batch scheduled for the images of scr.            *)
Scheduled(l, t, scr, token, s) ==
  /\ Bookkeeping(s)
  /\ s.load_seq = l.load_seq + 1
  /\ s.pending_loads = l.pending_loads
  /\ s.load_cancellations = l.load_cancellations
  /\ s.cancelled = l.cancelled
  /\ ~scr.complete /\ scr.dom \notin decoded
  /\ s.commands = l.commands \cup
       {[kind |-> "images", tab |-> t, seq |-> l.load_seq + 1, target |-> scr.dom,
         token |-> token]}

LEMMA ScheduleFields ==
  ASSUME NEW l, Bookkeeping(l), NEW t, NEW scr
  PROVE  \/ ScheduleImages(l, t, scr) = l
         \/ \E token : Scheduled(l, t, scr, token, ScheduleImages(l, t, scr))
  <1>1. CASE scr.complete \/ scr.dom \in decoded
    BY <1>1 DEF ScheduleImages
  <1>2. CASE ~(scr.complete \/ scr.dom \in decoded)
    <2> DEFINE token == IF t \in DOMAIN l.load_cancellations
                        THEN l.load_cancellations[t] ELSE l.load_seq + 1
    <2> HIDE DEF token
    <2>1. ScheduleImages(l, t, scr) =
            [l EXCEPT !.load_seq = l.load_seq + 1,
                      !.pending_image_batches = Insert(@, t, l.load_seq + 1),
                      !.commands = @ \cup
                        {[kind |-> "images", tab |-> t, seq |-> l.load_seq + 1,
                          target |-> scr.dom, token |-> token]}]
      BY <1>2 DEF ScheduleImages, token
    <2>2. Scheduled(l, t, scr, token, ScheduleImages(l, t, scr))
      BY <1>2, <2>1 DEF Bookkeeping, Scheduled
    <2> QED BY <2>2
  <1> QED BY <1>1, <1>2
-----------------------------------------------------------------------------
(* Every helper keeps the bookkeeping sound.                               *)
LEMMA CancelSound ==
  ASSUME NEW l, LoadsSound(l), NEW t
  PROVE  /\ LoadsSound(Cancel(l, t))
         /\ \A m \in l.commands : m.kind # "images" /\ m.tab = t =>
               m.token \in Cancel(l, t).cancelled
  <1> DEFINE c == Cancel(l, t)
  <1>1. /\ Bookkeeping(c)
        /\ c.load_seq = l.load_seq /\ c.pending_loads = l.pending_loads
        /\ c.commands = l.commands
        /\ c.load_cancellations = Forget(l.load_cancellations, t)
        /\ l.cancelled \subseteq c.cancelled
        /\ t \in DOMAIN l.load_cancellations => l.load_cancellations[t] \in c.cancelled
    BY CancelFields DEF LoadsSound
  <1> HIDE DEF c
  <1>2. ASSUME NEW m \in l.commands, m.kind # "images"
        PROVE  m.token \in c.cancelled \/ (NewestIn(c, m) /\ HasToken(c, m) /\ m.tab # t)
    BY <1>1, <1>2 DEF LoadsSound, NewestIn, HasToken, Forget
  <1> QED BY <1>1, <1>2 DEF LoadsSound, c

LEMMA InvalidateSound ==
  ASSUME NEW l, LoadsSound(l), NEW t
  PROVE  /\ LoadsSound(Invalidate(l, t))
         /\ \A m \in l.commands : m.tab = t => ~NewestIn(Invalidate(l, t), m)
  <1> DEFINE i == Invalidate(l, t)
  <1>1. /\ Bookkeeping(i)
        /\ i.load_seq = l.load_seq + 1
        /\ i.pending_loads = Insert(l.pending_loads, t, l.load_seq + 1)
        /\ i.commands = l.commands
        /\ i.load_cancellations = Forget(l.load_cancellations, t)
        /\ l.cancelled \subseteq i.cancelled
        /\ t \in DOMAIN l.load_cancellations => l.load_cancellations[t] \in i.cancelled
    BY InvalidateFields DEF LoadsSound
  <1> HIDE DEF i
  <1>2. ASSUME NEW m \in l.commands, m.kind # "images"
        PROVE  m.token \in i.cancelled \/ (NewestIn(i, m) /\ HasToken(i, m))
    BY <1>1, <1>2 DEF LoadsSound, NewestIn, HasToken, Forget, Insert
  <1>3. ASSUME NEW m \in l.commands, m.tab = t
        PROVE  ~NewestIn(i, m)
    BY <1>1, <1>3 DEF LoadsSound, NewestIn, Insert
  <1> QED BY <1>1, <1>2, <1>3 DEF LoadsSound, i

LEMMA StartSound ==
  ASSUME NEW l, LoadsSound(l), NEW t, NEW kind, NEW target
  PROVE  LoadsSound(Start(l, t, kind, target))
  <1> DEFINE s == Start(l, t, kind, target)
             seq == l.load_seq + 1
             new == [kind |-> kind, tab |-> t, seq |-> seq, target |-> target, token |-> seq]
  <1>1. /\ Bookkeeping(s)
        /\ s.load_seq = seq
        /\ s.pending_loads = Insert(l.pending_loads, t, seq)
        /\ s.load_cancellations = Insert(Forget(l.load_cancellations, t), t, seq)
        /\ s.commands = l.commands \cup {new}
        /\ l.cancelled \subseteq s.cancelled
        /\ t \in DOMAIN l.load_cancellations => l.load_cancellations[t] \in s.cancelled
    BY StartFields DEF LoadsSound
  <1>2. new.tab = t /\ new.seq = seq /\ new.token = seq
    OBVIOUS
  <1>3. seq \in Nat \ {0} /\ \A m \in l.commands : m.seq # seq /\ m.seq \in 1..seq
    BY DEF LoadsSound
  <1> HIDE DEF s, new
  <1>4. ASSUME NEW m \in l.commands, m.kind # "images"
        PROVE  m.token \in s.cancelled \/ (NewestIn(s, m) /\ HasToken(s, m))
    BY <1>1, <1>4 DEF LoadsSound, NewestIn, HasToken, Forget, Insert
  <1>5. NewestIn(s, new) /\ HasToken(s, new)
    BY <1>1, <1>2 DEF NewestIn, HasToken, Insert
  <1>6. \A m, n \in s.commands : m.seq = n.seq => m = n
    BY <1>1, <1>2, <1>3 DEF LoadsSound
  <1>7. \A m \in s.commands : m.seq \in 1..s.load_seq
    BY <1>1, <1>2, <1>3
  <1> QED BY <1>1, <1>3, <1>4, <1>5, <1>6, <1>7 DEF LoadsSound, s

LEMMA ScheduleSound ==
  ASSUME NEW l, LoadsSound(l), NEW t, NEW scr
  PROVE  LoadsSound(ScheduleImages(l, t, scr))
  <1> DEFINE s == ScheduleImages(l, t, scr)
             seq == l.load_seq + 1
  <1>1. CASE s = l
    BY <1>1
  <1>2. CASE s # l
    <2>0. PICK token : Scheduled(l, t, scr, token, s)
      BY <1>2, ScheduleFields DEF LoadsSound
    <2> HIDE DEF s
    <2>1. /\ Bookkeeping(s)
          /\ s.load_seq = seq
          /\ s.pending_loads = l.pending_loads
          /\ s.load_cancellations = l.load_cancellations
          /\ s.cancelled = l.cancelled
          /\ s.commands = l.commands \cup
               {[kind |-> "images", tab |-> t, seq |-> seq, target |-> scr.dom,
                 token |-> token]}
      BY <2>0 DEF Scheduled
    <2> DEFINE new == [kind |-> "images", tab |-> t, seq |-> seq, target |-> scr.dom,
                       token |-> token]
    <2>2. new.kind = "images" /\ new.seq = seq /\ s.commands = l.commands \cup {new}
      BY <2>1
    <2>3. seq \in Nat \ {0} /\ \A m \in l.commands : m.seq # seq /\ m.seq \in 1..seq
      BY DEF LoadsSound
    <2> HIDE DEF new
    <2>4. ASSUME NEW m \in l.commands, m.kind # "images"
          PROVE  m.token \in s.cancelled \/ (NewestIn(s, m) /\ HasToken(s, m))
      BY <2>1, <2>4 DEF LoadsSound, NewestIn, HasToken
    <2>5. \A m, n \in s.commands : m.seq = n.seq => m = n
      BY <2>2, <2>3 DEF LoadsSound
    <2>6. \A m \in s.commands : m.seq \in 1..s.load_seq
      BY <2>1, <2>2, <2>3
    <2> QED BY <2>1, <2>2, <2>3, <2>4, <2>5, <2>6 DEF LoadsSound, s
  <1> QED BY <1>1, <1>2

(* An answer leaves with its command and its tab's token.                  *)
LEMMA SettledSound ==
  ASSUME NEW l, LoadsSound(l), NEW m \in l.commands, NEW k, Bookkeeping(k),
         k.load_seq = l.load_seq, k.pending_loads = l.pending_loads,
         k.commands = l.commands \ {m}, k.cancelled = l.cancelled,
         \/ k.load_cancellations = l.load_cancellations
         \/ k.load_cancellations = Forget(l.load_cancellations, m.tab) /\ NewestIn(l, m)
  PROVE  LoadsSound(k)
  <1>1. ASSUME NEW n \in k.commands, n.kind # "images"
        PROVE  n.token \in k.cancelled \/ (NewestIn(k, n) /\ HasToken(k, n))
    <2>1. n \in l.commands /\ n # m
      OBVIOUS
    <2>2. n.token \in l.cancelled \/ (NewestIn(l, n) /\ HasToken(l, n))
      BY <1>1, <2>1 DEF LoadsSound
    <2>3. NewestIn(l, n) /\ NewestIn(l, m) => n.tab # m.tab
      BY <2>1 DEF LoadsSound, NewestIn
    <2> QED BY <2>2, <2>3 DEF NewestIn, HasToken, Forget
  <1>2. \A n \in k.commands : n.seq \in 1..k.load_seq
    BY DEF LoadsSound
  <1>3. \A n, o \in k.commands : n.seq = o.seq => n = o
    BY DEF LoadsSound
  <1> QED BY <1>1, <1>2, <1>3 DEF LoadsSound

LEMMA AfterTabChangeSound ==
  ASSUME NEW m, NEW l, LoadsSound(l), NEW a, AfterTabChange(m, l, a)
  PROVE  LoadsSound(loads')
  <1> DEFINE t == m.active_tab_id
  <1>1. \/ loads' = Start(l, t, "search", ActiveTab(m).url)
        \/ loads' = ScheduleImages(l, t, screen')
    BY DEF AfterTabChange, StartedBy
  <1> QED BY <1>1, StartSound, ScheduleSound

LEMMA CloseSound ==
  ASSUME NEW l, LoadsSound(l), NEW t
  PROVE  LoadsSound([Cancel(l, t) EXCEPT !.pending_loads = Forget(@, t),
                                         !.search_state = Forget(@, t)])
  <1> DEFINE c == Cancel(l, t)
             k == [c EXCEPT !.pending_loads = Forget(@, t), !.search_state = Forget(@, t)]
  <1>1. /\ LoadsSound(c)
        /\ c.commands = l.commands /\ c.load_seq = l.load_seq
        /\ \A m \in c.commands : m.kind # "images" /\ m.tab = t => m.token \in c.cancelled
    <2>0. Bookkeeping(l)
      BY DEF LoadsSound
    <2>1. c.commands = l.commands /\ c.load_seq = l.load_seq
      BY <2>0, CancelFields
    <2>2. LoadsSound(c)
      BY CancelSound
    <2>3. \A m \in l.commands : m.kind # "images" /\ m.tab = t => m.token \in c.cancelled
      BY CancelSound
    <2> QED BY <2>1, <2>2, <2>3
  <1> HIDE DEF c
  <1>2. /\ Bookkeeping(k)
        /\ k.load_seq = c.load_seq /\ k.commands = c.commands /\ k.cancelled = c.cancelled
        /\ k.pending_loads = Forget(c.pending_loads, t)
        /\ k.load_cancellations = c.load_cancellations
    <2> DEFINE pending == Forget(c.pending_loads, t)
               searches == Forget(c.search_state, t)
    <2>1. Bookkeeping(c) /\ k = [c EXCEPT !.pending_loads = pending,
                                          !.search_state = searches]
      BY <1>1 DEF LoadsSound
    <2> HIDE DEF pending, searches, k
    <2>2. /\ Bookkeeping(k)
          /\ k.load_seq = c.load_seq /\ k.commands = c.commands /\ k.cancelled = c.cancelled
          /\ k.pending_loads = pending
          /\ k.load_cancellations = c.load_cancellations
      BY <2>1 DEF Bookkeeping
    <2> QED BY <2>2 DEF pending
  <1> HIDE DEF k
  <1>3. ASSUME NEW m \in k.commands, m.kind # "images"
        PROVE  m.token \in k.cancelled \/ (NewestIn(k, m) /\ HasToken(k, m))
    BY <1>1, <1>2, <1>3 DEF LoadsSound, NewestIn, HasToken, Forget
  <1>4. LoadsSound(k)
    BY <1>1, <1>2, <1>3 DEF LoadsSound
  <1> QED BY <1>4 DEF k, c

(* A command that was thrown away before it ran.                           *)
LEMMA FewerCommands ==
  ASSUME NEW n, LoadsSound(n), NEW rest, rest \subseteq n.commands
  PROVE  LET k == [n EXCEPT !.commands = rest] IN
         LoadsSound(k) /\ k.commands = rest /\ k.pending_loads = n.pending_loads
  <1> DEFINE k == [n EXCEPT !.commands = rest]
  <1>1. /\ Bookkeeping(k) /\ k.commands = rest
        /\ k.load_seq = n.load_seq /\ k.pending_loads = n.pending_loads
        /\ k.cancelled = n.cancelled /\ k.load_cancellations = n.load_cancellations
    BY DEF LoadsSound, Bookkeeping
  <1> HIDE DEF k
  <1>2. LoadsSound(k)
    BY <1>1 DEF LoadsSound, NewestIn, HasToken
  <1> QED BY <1>1, <1>2 DEF k

LEMMA StartedBySound ==
  ASSUME NEW m, NEW l, LoadsSound(l), NEW scr
  PROVE  LoadsSound(StartedBy(m, l, scr)) /\ l.commands \subseteq StartedBy(m, l, scr).commands
  <1> DEFINE t == m.active_tab_id
             search == Start(l, t, "search", ActiveTab(m).url)
             images == ScheduleImages(l, t, scr)
  <1>1. StartedBy(m, l, scr) = search \/ StartedBy(m, l, scr) = images
    BY DEF StartedBy
  <1>2. LoadsSound(search) /\ LoadsSound(images)
    BY StartSound, ScheduleSound
  <1>3. l.commands \subseteq search.commands
    BY StartFields DEF LoadsSound
  <1>4. l.commands \subseteq images.commands
    BY ScheduleFields DEF LoadsSound, Scheduled
  <1> HIDE DEF search, images
  <1> QED BY <1>1, <1>2, <1>3, <1>4

LEMMA LandedFields ==
  ASSUME Bookkeeping(loads), NEW m
  PROVE  LET k == Landed(m) IN
         /\ Bookkeeping(k)
         /\ k.load_seq = loads.load_seq /\ k.pending_loads = loads.pending_loads
         /\ k.commands = loads.commands \ {m} /\ k.cancelled = loads.cancelled
         /\ k.load_cancellations = Forget(loads.load_cancellations, m.tab)
  <1> DEFINE rest == loads.commands \ {m}
             tokens == Forget(loads.load_cancellations, m.tab)
  <1>1. Landed(m) = [loads EXCEPT !.commands = rest, !.load_cancellations = tokens]
    BY DEF Landed
  <1> HIDE DEF rest, tokens
  <1>2. /\ Bookkeeping(Landed(m))
        /\ Landed(m).load_seq = loads.load_seq
        /\ Landed(m).pending_loads = loads.pending_loads
        /\ Landed(m).cancelled = loads.cancelled
        /\ Landed(m).commands = rest
        /\ Landed(m).load_cancellations = tokens
    BY <1>1 DEF Bookkeeping
  <1> QED BY <1>2 DEF rest, tokens

LEMMA LandedSound ==
  ASSUME LoadsSound(loads), NEW m \in loads.commands, IsNewest(m)
  PROVE  LoadsSound(Landed(m))
  <1> DEFINE k == Landed(m)
  <1>1. /\ Bookkeeping(k)
        /\ k.load_seq = loads.load_seq /\ k.pending_loads = loads.pending_loads
        /\ k.commands = loads.commands \ {m} /\ k.cancelled = loads.cancelled
        /\ k.load_cancellations = Forget(loads.load_cancellations, m.tab)
    BY LandedFields DEF LoadsSound
  <1>2. NewestIn(loads, m)
    BY DEF IsNewest, NewestIn
  <1> HIDE DEF k
  <1>3. LoadsSound(k)
    BY <1>1, <1>2, SettledSound
  <1> QED BY <1>3 DEF k
-----------------------------------------------------------------------------
LEMMA LoadsInit == Init => LoadsSound(loads)
  BY DEF Init, LoadsSound, Bookkeeping

LEMMA LoadsUserStep ==
  ASSUME LoadsSound(loads), UserAction
  PROVE  LoadsSound(loads')
  <1> USE DEF Fetch, Travel, Switch
  <1>1. ASSUME NEW url, NEW kind, Fetch(url, kind) PROVE LoadsSound(loads')
    BY <1>1, StartSound
  <1>2. ASSUME NEW m, NEW a, AfterTabChange(m, loads, a) PROVE LoadsSound(loads')
    BY <1>2, AfterTabChangeSound
  <1>3. ASSUME NEW tab, Travel(tab) PROVE LoadsSound(loads')
    <2>1. LoadsSound(Invalidate(loads, active))
      BY InvalidateSound
    <2> QED BY <1>3, <2>1, AfterTabChangeSound
  <1>4. ASSUME NEW m, Switch(m) PROVE LoadsSound(loads')
    BY <1>2, <1>4
  <1>5. ASSUME NEW id, NEW tab, Revive(id, tab) PROVE LoadsSound(loads')
    <2>1. PICK n : /\ LoadsSound(n) /\ loads.commands \subseteq n.commands
                   /\ loads' = Start([n EXCEPT !.commands = loads.commands], id, "page", tab.url)
      BY <1>5, StartedBySound DEF Revive
    <2>2. LoadsSound([n EXCEPT !.commands = loads.commands])
      BY <2>1, FewerCommands
    <2> QED BY <2>1, <2>2, StartSound
  <1>6. ASSUME NEW url, OpenInternal(url) PROVE LoadsSound(loads')
    <2>1. \/ loads' = Start(Invalidate(loads, active), active, "search", url)
          \/ loads' = Invalidate(loads, active)
      BY <1>6 DEF OpenInternal
    <2> QED BY <2>1, InvalidateSound, StartSound
  <1>7. ASSUME NEW id, CloseTab(id) PROVE LoadsSound(loads')
    <2> DEFINE l == [Cancel(loads, id) EXCEPT !.pending_loads = Forget(@, id),
                                              !.search_state = Forget(@, id)]
    <2>1. LoadsSound(l)
      BY CloseSound
    <2> HIDE DEF l
    <2>2. \E m, a : AfterTabChange(m, l, a)
      BY <1>7 DEF CloseTab, l
    <2> QED BY <2>1, <2>2, AfterTabChangeSound
  <1>8. ASSUME NEW id, SelectTab(id) PROVE LoadsSound(loads')
    BY <1>4, <1>5, <1>8 DEF SelectTab
  <1>9. CASE NewTab
    BY <1>9 DEF NewTab
  <1>10. CASE ReopenClosedTab
    BY <1>10, StartSound DEF ReopenClosedTab
  <1>11. CASE Reload
    BY <1>1, <1>2, <1>11 DEF Reload
  <1> HIDE DEF Fetch, Travel, Switch
  <1> QED BY <1>1, <1>3, <1>4, <1>6, <1>7, <1>8, <1>9, <1>10, <1>11
          DEF UserAction, Navigate, NavigateYouTube, Back, Forward, NextTab, PrevTab,
              SelectTabNumber

LEMMA LoadsAnswerStep ==
  ASSUME LoadsSound(loads), NEW m \in loads.commands, Answer(m)
  PROVE  LoadsSound(loads')
  <1>1. LoadsSound([loads EXCEPT !.commands = @ \ {m}])
    <2> DEFINE k == [loads EXCEPT !.commands = @ \ {m}]
    <2>1. /\ Bookkeeping(k)
          /\ k.load_seq = loads.load_seq /\ k.pending_loads = loads.pending_loads
          /\ k.commands = loads.commands \ {m} /\ k.cancelled = loads.cancelled
          /\ k.load_cancellations = loads.load_cancellations
      BY DEF LoadsSound, Bookkeeping
    <2> HIDE DEF k
    <2>2. LoadsSound(k)
      BY <2>1, SettledSound
    <2> QED BY <2>2 DEF k
  <1>2. CASE DropStale(m) \/ ImagesLoaded(m)
    BY <1>1, <1>2 DEF DropStale, ImagesLoaded
  <1>3. CASE PageLoaded(m)
    <2>1. IsNewest(m) /\ \/ loads' = Landed(m)
                         \/ \E scr : loads' = ScheduleImages(Landed(m), active, scr)
      BY <1>3 DEF PageLoaded, Lands
    <2> QED BY <2>1, LandedSound, ScheduleSound
  <1>4. CASE LoadError(m) \/ YouTubeSearchLoaded(m) \/ YouTubeSearchFailed(m)
    BY <1>4, LandedSound DEF LoadError, YouTubeSearchLoaded, YouTubeSearchFailed, Lands
  <1>5. CASE SearchSettled(m)
    <2>1. LoadsSound(Landed(m))
      BY <1>5, LandedSound DEF SearchSettled, Lands
    <2>2. PICK s : loads' = [Landed(m) EXCEPT !.search_state = s]
      BY <1>5 DEF SearchSettled
    <2> DEFINE k == Landed(m)
    <2> HIDE DEF k
    <2>3. LoadsSound(k) /\ loads' = [k EXCEPT !.search_state = s]
      BY <2>1, <2>2 DEF k
    <2>4. /\ Bookkeeping(loads')
          /\ loads'.load_seq = k.load_seq /\ loads'.pending_loads = k.pending_loads
          /\ loads'.commands = k.commands /\ loads'.cancelled = k.cancelled
          /\ loads'.load_cancellations = k.load_cancellations
      BY <2>3 DEF LoadsSound, Bookkeeping
    <2> QED BY <2>3, <2>4 DEF LoadsSound, NewestIn, HasToken
  <1> QED BY <1>2, <1>3, <1>4, <1>5 DEF Answer

LEMMA LoadsStep ==
  ASSUME LoadsSound(loads), [Next]_vars
  PROVE  LoadsSound(loads')
  <1>1. CASE UserAction
    BY <1>1, LoadsUserStep
  <1>2. CASE Answered
    BY <1>2, LoadsAnswerStep DEF Answered
  <1>3. CASE Timer \/ UNCHANGED vars
    BY <1>3 DEF Timer, PageRuntimeTick, MemorySaverTick, MemoryPressureTick,
                DebounceElapsed, vars
  <1> QED BY <1>1, <1>2, <1>3 DEF Next
-----------------------------------------------------------------------------
(* Operators on one tab.                                                   *)
LEMMA HistoryType ==
  ASSUME NEW h
  PROVE  h \in UNION {[1..n -> Entries] : n \in 1..MaxHistory}
         <=> h \in Seq(Entries) /\ Len(h) \in 1..MaxHistory
  <1>0. MaxHistory \in Nat
    BY TabAssumption
  <1>1. ASSUME NEW n \in 1..MaxHistory, h \in [1..n -> Entries]
        PROVE  h \in Seq(Entries) /\ Len(h) \in 1..MaxHistory
    BY <1>0, <1>1
  <1>2. ASSUME h \in Seq(Entries), Len(h) \in 1..MaxHistory
        PROVE  \E n \in 1..MaxHistory : h \in [1..n -> Entries]
    BY <1>2, LenProperties
  <1> QED BY <1>1, <1>2

LEMMA SnapshotType ==
  ASSUME NEW doc \in Docs
  PROVE  Snapshot(doc) \in Urls \cup {ErrorPage, None}
  BY DEF Snapshot, Docs

LEMMA EntryType ==
  ASSUME NEW url \in Urls, NEW doc \in Docs
  PROVE  HistoryEntry(url, doc) \in Entries /\ HistoryEntry(url, doc).url = url
  BY SnapshotType DEF HistoryEntry, Entries

LEMMA Pages == NewTabPage \in Urls /\ WebPages \subseteq Urls /\ SearchPages \subseteq Urls
               /\ Urls \subseteq Docs /\ Root \in Docs /\ ErrorPage \in Docs
               /\ YouTubePages \subseteq WebPages /\ Illustrated \subseteq WebPages
  BY NavigationAssumption DEF Urls, Docs

LEMMA FreshSound == TabSound(FreshTab(NewTabPage, NewTabPage))
  <1> DEFINE tab == FreshTab(NewTabPage, NewTabPage)
             e == HistoryEntry(NewTabPage, NewTabPage)
  <1>1. e \in Entries /\ e.url = NewTabPage
    BY Pages, EntryType
  <1> HIDE DEF e
  <1>2. <<e>> \in Seq(Entries) /\ Len(<<e>>) = 1 /\ <<e>>[1] = e
    BY <1>1
  <1>3. Len(<<e>>) \in 1..MaxHistory /\ 1 \in 1..MaxHistory
    BY <1>2, TabAssumption
  <1>4. <<e>> \in UNION {[1..n -> Entries] : n \in 1..MaxHistory}
    BY <1>2, <1>3, HistoryType
  <1>5. /\ tab = [url |-> NewTabPage, dom |-> NewTabPage, is_error |-> FALSE,
                  history |-> <<e>>, history_pos |-> 1,
                  is_sleeping |-> FALSE, is_discarded |-> FALSE,
                  compressed_dom |-> None, runtime |-> None]
    BY DEF FreshTab, e
  <1>6. tab \in TabRecords
    BY <1>3, <1>4, <1>5, Pages DEF TabRecords, Entries
  <1> QED BY <1>1, <1>2, <1>3, <1>5, <1>6 DEF TabSound

Pushed(tab, entry, h) ==
  /\ PushHistory(tab, entry) = [tab EXCEPT !.history = h, !.history_pos = Len(h)]
  /\ Len(h) \in 1..MaxHistory
  /\ h[Len(h)].url = entry.url
  /\ \A i \in 1..(Len(h) - 1) : h[i].url # h[i + 1].url

(* push_history puts the cursor on the new entry, which is the last one.   *)
LEMMA PushFields ==
  ASSUME NEW tab, TabSound(tab), NEW entry \in Entries
  PROVE  \E h \in Seq(Entries) : Pushed(tab, entry, h)
  <1> DEFINE old == tab.history
             pos == tab.history_pos
             kept == SubSeq(old, 1, pos)
             pushed == IF kept[Len(kept)].url = entry.url
                       THEN [kept EXCEPT ![Len(kept)] = entry]
                       ELSE Append(kept, entry)
             bounded == IF Len(pushed) > MaxHistory THEN Tail(pushed) ELSE pushed
  <1>0. MaxHistory \in Nat \ {0}
    BY TabAssumption
  <1>1. /\ old \in Seq(Entries) /\ Len(old) \in 1..MaxHistory /\ pos \in 1..Len(old)
        /\ \A i \in 1..(Len(old) - 1) : old[i].url # old[i + 1].url
    BY DEF TabSound
  <1>2. PushHistory(tab, entry) =
          [tab EXCEPT !.history = bounded, !.history_pos = Len(bounded)]
    BY DEF PushHistory
  <1> HIDE DEF old, pos
  <1>3. /\ kept \in Seq(Entries) /\ Len(kept) = pos
        /\ \A i \in 1..pos : kept[i] = old[i]
    <2>1. \A i \in 1..pos : old[i] \in Entries
      BY <1>0, <1>1, ElementOfSeq
    <2>2. 1 \in Int /\ pos \in Int
      BY <1>0, <1>1
    <2>3. /\ kept \in Seq(Entries)
          /\ Len(kept) = IF 1 <= pos THEN pos - 1 + 1 ELSE 0
          /\ \A i \in 1..(pos - 1 + 1) : kept[i] = old[1 + i - 1]
      BY <2>1, <2>2, SubSeqProperties
    <2> HIDE DEF kept
    <2> QED BY <1>0, <1>1, <2>3
  <1>4. \A i \in 1..(pos - 1) : kept[i].url # kept[i + 1].url
    <2> SUFFICES ASSUME NEW i \in 1..(pos - 1) PROVE kept[i].url # kept[i + 1].url
      OBVIOUS
    <2>1. kept[i] = old[i] /\ kept[i + 1] = old[i + 1] /\ i \in 1..(Len(old) - 1)
      BY <1>0, <1>1, <1>3
    <2> HIDE DEF kept
    <2> QED BY <1>1, <2>1
  <1> HIDE DEF kept
  <1>5. /\ pushed \in Seq(Entries) /\ Len(pushed) \in 1..(MaxHistory + 1)
        /\ pushed[Len(pushed)].url = entry.url
        /\ \A i \in 1..(Len(pushed) - 1) : pushed[i].url # pushed[i + 1].url
    <2>1. CASE kept[Len(kept)].url = entry.url
      <3> DEFINE p == [kept EXCEPT ![pos] = entry]
      <3>1. pushed = p
        BY <1>3, <2>1
      <3>2. pos \in 1..Len(kept)
        BY <1>0, <1>1, <1>3
      <3>3. /\ p \in Seq(Entries) /\ Len(p) = pos
            /\ \A j \in 1..pos : p[j] = IF j = pos THEN entry ELSE kept[j]
        BY <1>3, <3>2, ExceptSeq
      <3> HIDE DEF p
      <3>4. p[pos].url = entry.url /\ \A j \in 1..pos : p[j].url = kept[j].url
        BY <1>0, <1>1, <1>3, <2>1, <3>3
      <3>5. \A i \in 1..(pos - 1) : p[i].url # p[i + 1].url
        BY <1>0, <1>1, <1>4, <3>4
      <3> HIDE DEF pushed
      <3> QED BY <1>0, <1>1, <3>1, <3>3, <3>4, <3>5
    <2>2. CASE kept[Len(kept)].url # entry.url
      <3> DEFINE p == Append(kept, entry)
      <3>1. pushed = p
        BY <2>2
      <3>2. /\ p \in Seq(Entries) /\ Len(p) = pos + 1
            /\ \A j \in 1..pos : p[j] = kept[j]
            /\ p[pos + 1] = entry
        BY <1>3, AppendProperties
      <3> HIDE DEF p, pushed
      <3>3. \A i \in 1..pos : p[i].url # p[i + 1].url
        BY <1>0, <1>1, <1>3, <1>4, <2>2, <3>2
      <3> QED BY <1>0, <1>1, <3>1, <3>2, <3>3
    <2> QED BY <2>1, <2>2
  <1> HIDE DEF pushed
  <1>6. /\ bounded \in Seq(Entries) /\ Len(bounded) \in 1..MaxHistory
        /\ bounded[Len(bounded)].url = entry.url
        /\ \A i \in 1..(Len(bounded) - 1) : bounded[i].url # bounded[i + 1].url
    <2>1. CASE Len(pushed) > MaxHistory
      <3> DEFINE r == Tail(pushed)
      <3>1. bounded = r /\ pushed # <<>>
        BY <1>0, <1>5, <2>1
      <3>2. /\ r \in Seq(Entries) /\ Len(r) = Len(pushed) - 1
            /\ \A i \in 1..Len(r) : r[i] = pushed[i + 1]
        BY <1>5, <3>1, HeadTailProperties
      <3> HIDE DEF r, bounded
      <3>3. Len(r) \in 1..MaxHistory /\ Len(pushed) = Len(r) + 1
        BY <1>0, <1>5, <2>1, <3>2
      <3>4. r[Len(r)] = pushed[Len(pushed)]
        BY <3>2, <3>3
      <3>5. ASSUME NEW i \in 1..(Len(r) - 1) PROVE r[i].url # r[i + 1].url
        <4>1. r[i] = pushed[i + 1] /\ r[i + 1] = pushed[i + 2]
          BY <1>0, <3>2, <3>3
        <4>2. i + 1 \in 1..(Len(pushed) - 1) /\ (i + 1) + 1 = i + 2
          BY <1>0, <3>3
        <4> QED BY <1>5, <4>1, <4>2
      <3> QED BY <1>5, <3>1, <3>2, <3>3, <3>4, <3>5
    <2>2. CASE ~(Len(pushed) > MaxHistory)
      BY <1>0, <1>5, <2>2
    <2> QED BY <2>1, <2>2
  <1> HIDE DEF bounded
  <1> QED BY <1>2, <1>6 DEF Pushed

(* A tab whose history and address were just pushed.                       *)
LEMMA PushedSound ==
  ASSUME NEW tab, TabSound(tab), NEW entry \in Entries, NEW new \in TabRecords,
         new.history = PushHistory(tab, entry).history,
         new.history_pos = PushHistory(tab, entry).history_pos,
         new.url = entry.url
  PROVE  TabSound(new)
  <1>0. PICK h \in Seq(Entries) : Pushed(tab, entry, h)
    BY PushFields
  <1>1. /\ PushHistory(tab, entry) = [tab EXCEPT !.history = h, !.history_pos = Len(h)]
        /\ Len(h) \in 1..MaxHistory
        /\ h[Len(h)].url = entry.url
        /\ \A i \in 1..(Len(h) - 1) : h[i].url # h[i + 1].url
    BY <1>0 DEF Pushed
  <1>2. new.history = h /\ new.history_pos = Len(h)
    <2>1. PushHistory(tab, entry).history = h /\ PushHistory(tab, entry).history_pos = Len(h)
      BY <1>1 DEF TabSound, TabRecords
    <2> QED BY <2>1
  <1>3. Len(h) \in 1..Len(h)
    BY <1>1, TabAssumption
  <1> QED BY <1>1, <1>2, <1>3 DEF TabSound

LEMMA PushedType ==
  ASSUME NEW tab, TabSound(tab), NEW entry \in Entries
  PROVE  PushHistory(tab, entry) \in TabRecords
  <1>0. PICK h \in Seq(Entries) : Pushed(tab, entry, h)
    BY PushFields
  <1>1. /\ PushHistory(tab, entry) = [tab EXCEPT !.history = h, !.history_pos = Len(h)]
        /\ Len(h) \in 1..MaxHistory
    BY <1>0 DEF Pushed
  <1>2. h \in UNION {[1..n -> Entries] : n \in 1..MaxHistory}
    BY <1>1, HistoryType
  <1>3. tab \in TabRecords
    BY DEF TabSound
  <1> QED BY <1>1, <1>2, <1>3 DEF TabRecords, Entries

LEMMA CommitPageSound ==
  ASSUME NEW tab, TabSound(tab), NEW page \in Urls
  PROVE  TabSound(CommitPage(tab, page)) /\ CommitPage(tab, page).url = page
  <1> DEFINE entry == HistoryEntry(page, page)
             p == PushHistory(tab, entry)
             new == CommitPage(tab, page)
  <1>1. entry \in Entries /\ entry.url = page /\ page \in Docs
    BY EntryType, Pages
  <1> HIDE DEF entry
  <1>2. p \in TabRecords
    BY <1>1, PushedType
  <1>3. new = [p EXCEPT !.url = page, !.dom = page, !.is_error = FALSE,
                        !.is_sleeping = FALSE, !.is_discarded = FALSE,
                        !.compressed_dom = IF tab.is_sleeping \/ tab.is_discarded
                                           THEN None ELSE @,
                        !.runtime = IF page \in Scripted THEN page ELSE None]
    BY DEF CommitPage, entry
  <1>4. page \in Scripted => page \in WebPages
    BY TabAssumption
  <1> HIDE DEF p, new
  <1>5. /\ new \in TabRecords /\ new.url = page
        /\ new.history = p.history /\ new.history_pos = p.history_pos
    BY <1>1, <1>2, <1>3, <1>4 DEF TabRecords
  <1> QED BY <1>1, <1>5, PushedSound DEF p, new

LEMMA CommitInternalSound ==
  ASSUME NEW tab, TabSound(tab), NEW url \in Urls
  PROVE  TabSound(CommitInternal(tab, url)) /\ CommitInternal(tab, url).url = url
  <1> DEFINE entry == HistoryEntry(url, url)
             p == PushHistory(tab, entry)
             new == CommitInternal(tab, url)
  <1>1. entry \in Entries /\ entry.url = url /\ url \in Docs
    BY EntryType, Pages
  <1> HIDE DEF entry
  <1>2. p \in TabRecords
    BY <1>1, PushedType
  <1>3. new = [p EXCEPT !.url = url, !.dom = url, !.is_error = FALSE]
    BY DEF CommitInternal, entry
  <1> HIDE DEF p, new
  <1>4. /\ new \in TabRecords /\ new.url = url
        /\ new.history = p.history /\ new.history_pos = p.history_pos
    BY <1>1, <1>2, <1>3 DEF TabRecords
  <1> QED BY <1>1, <1>4, PushedSound DEF p, new

LEMMA CommitHtmlSound ==
  ASSUME NEW tab, TabSound(tab), NEW url \in Urls
  PROVE  TabSound(CommitHtml(tab, url)) /\ CommitHtml(tab, url).url = url
  <1> DEFINE entry == HistoryEntry(url, url)
             p == PushHistory(tab, entry)
             new == CommitHtml(tab, url)
  <1>1. entry \in Entries /\ entry.url = url /\ url \in Docs
    BY EntryType, Pages
  <1> HIDE DEF entry
  <1>2. p \in TabRecords
    BY <1>1, PushedType
  <1>3. new = [p EXCEPT !.url = url, !.dom = url]
    BY DEF CommitHtml, entry
  <1> HIDE DEF p, new
  <1>4. /\ new \in TabRecords /\ new.url = url
        /\ new.history = p.history /\ new.history_pos = p.history_pos
    BY <1>1, <1>2, <1>3 DEF TabRecords
  <1> QED BY <1>1, <1>4, PushedSound DEF p, new

(* Back and Forward move the cursor along a history they leave as it is.   *)
LEMMA ShowSound ==
  ASSUME NEW tab, TabSound(tab), NEW pos \in 1..Len(tab.history)
  PROVE  TabSound(ShowEntry(tab, pos))
  <1> DEFINE e == tab.history[pos]
             new == ShowEntry(tab, pos)
  <1>1. e \in Entries /\ pos \in 1..MaxHistory /\ tab \in TabRecords
    BY ElementOfSeq, TabAssumption DEF TabSound
  <1>2. e.url \in Urls /\ EntryDom(e) \in Docs
    BY <1>1, Pages DEF Entries, EntryDom, Docs
  <1>3. new = [tab EXCEPT !.history_pos = pos, !.url = e.url, !.dom = EntryDom(e),
                          !.is_error = FALSE]
    BY DEF ShowEntry
  <1> HIDE DEF e, new
  <1>4. /\ new \in TabRecords /\ new.history = tab.history /\ new.history_pos = pos
        /\ new.url = e.url
    BY <1>1, <1>2, <1>3 DEF TabRecords
  <1>5. new.history[new.history_pos].url = new.url
    BY <1>4 DEF e
  <1>6. TabSound(new)
    BY <1>4, <1>5 DEF TabSound
  <1> QED BY <1>6 DEF new

LEMMA TravelSound ==
  ASSUME NEW tab, TabSound(tab)
  PROVE  TabSound(GoBack(tab)) /\ TabSound(GoForward(tab))
  <1>1. /\ Len(tab.history) \in Nat /\ tab.history_pos \in 1..Len(tab.history)
        /\ tab.is_error \in BOOLEAN
    BY LenProperties DEF TabSound, TabRecords
  <1>2. TabSound(GoBack(tab))
    <2>1. CASE tab.is_error
      BY <1>1, <2>1, ShowSound DEF GoBack
    <2>2. CASE ~tab.is_error /\ tab.history_pos > 1
      <3>1. tab.history_pos - 1 \in 1..Len(tab.history)
        BY <1>1, <2>2
      <3> QED BY <2>2, <3>1, ShowSound DEF GoBack
    <2>3. CASE ~tab.is_error /\ ~(tab.history_pos > 1)
      BY <2>3 DEF GoBack
    <2> QED BY <2>1, <2>2, <2>3
  <1>3. TabSound(GoForward(tab))
    <2>1. tab.history_pos < Len(tab.history) => tab.history_pos + 1 \in 1..Len(tab.history)
      BY <1>1
    <2> QED BY <2>1, ShowSound DEF GoForward
  <1> QED BY <1>2, <1>3

(* What leaves the history, the cursor and the address alone.              *)
LEMMA SameHistorySound ==
  ASSUME NEW tab, TabSound(tab), NEW new \in TabRecords,
         new.history = tab.history, new.history_pos = tab.history_pos,
         new.is_error \/ (new.url = tab.url /\ new.is_error = tab.is_error)
  PROVE  TabSound(new)
  BY DEF TabSound

LEMMA CommitErrorSound ==
  ASSUME NEW tab, TabSound(tab), NEW url \in Urls
  PROVE  TabSound(CommitError(tab, url)) /\ CommitError(tab, url).url = url
  <1> DEFINE new == CommitError(tab, url)
  <1>1. new \in TabRecords /\ new.is_error /\ new.url = url
        /\ new.history = tab.history /\ new.history_pos = tab.history_pos
    BY Pages DEF CommitError, TabSound, TabRecords
  <1> HIDE DEF new
  <1>2. TabSound(new)
    BY <1>1, SameHistorySound
  <1> QED BY <1>1, <1>2 DEF new

(* The event pump and the memory saver keep the address and the history.   *)
Restful(tab, new) == TabSound(new) /\ new.url = tab.url

LEMMA RestfulSound ==
  ASSUME NEW tab, TabSound(tab)
  PROVE  /\ tab.runtime # None => Restful(tab, Pump(tab))
         /\ Restful(tab, Sleep(tab)) /\ Restful(tab, Wake(tab))
         /\ Restful(tab, Discard(tab)) /\ Restful(tab, Undiscard(tab))
  <1>0. tab \in TabRecords
    BY DEF TabSound
  <1>1. ASSUME NEW new \in TabRecords, new.history = tab.history,
               new.history_pos = tab.history_pos, new.url = tab.url,
               new.is_error = tab.is_error
        PROVE  Restful(tab, new)
    BY <1>1, SameHistorySound DEF Restful
  <1>2. ASSUME tab.runtime # None PROVE Restful(tab, Pump(tab))
    <2>1. tab.runtime \in Docs
      BY <1>0, <1>2, Pages DEF TabRecords
    <2> DEFINE new == Pump(tab)
    <2>2. new \in TabRecords /\ new.history = tab.history /\ new.url = tab.url
          /\ new.history_pos = tab.history_pos /\ new.is_error = tab.is_error
      BY <1>0, <2>1 DEF Pump, TabRecords
    <2> HIDE DEF new
    <2>3. Restful(tab, new)
      BY <1>1, <2>2
    <2> QED BY <2>3 DEF new
  <1>3. Restful(tab, Sleep(tab))
    <2> DEFINE new == Sleep(tab)
               snap == Snapshot(tab.dom)
    <2>1. snap \in Urls \cup {ErrorPage, None}
      BY <1>0, SnapshotType DEF TabRecords
    <2> HIDE DEF snap
    <2>2. new \in TabRecords /\ new.history = tab.history /\ new.url = tab.url
          /\ new.history_pos = tab.history_pos /\ new.is_error = tab.is_error
      BY <1>0, <2>1, Pages DEF Sleep, TabRecords, snap
    <2> HIDE DEF new
    <2>3. Restful(tab, new)
      BY <1>1, <2>2
    <2> QED BY <2>3 DEF new
  <1>4. Restful(tab, Wake(tab))
    <2> DEFINE new == Wake(tab)
    <2>1. (IF NeedsReload(tab) THEN Root ELSE tab.compressed_dom) \in Docs
      BY <1>0, Pages DEF TabRecords, NeedsReload, Docs
    <2>2. new \in TabRecords /\ new.history = tab.history /\ new.url = tab.url
          /\ new.history_pos = tab.history_pos /\ new.is_error = tab.is_error
      BY <1>0, <2>1 DEF Wake, TabRecords
    <2> HIDE DEF new
    <2>3. Restful(tab, new)
      BY <1>1, <2>2
    <2> QED BY <2>3 DEF new
  <1>5. Restful(tab, Discard(tab))
    <2> DEFINE new == Discard(tab)
    <2>1. new \in TabRecords /\ new.history = tab.history /\ new.url = tab.url
          /\ new.history_pos = tab.history_pos /\ new.is_error = tab.is_error
      BY <1>0, Pages DEF Discard, TabRecords
    <2> HIDE DEF new
    <2>2. Restful(tab, new)
      BY <1>1, <2>1
    <2> QED BY <2>2 DEF new
  <1>6. Restful(tab, Undiscard(tab))
    <2> DEFINE new == Undiscard(tab)
    <2>1. new \in TabRecords /\ new.history = tab.history /\ new.url = tab.url
          /\ new.history_pos = tab.history_pos /\ new.is_error = tab.is_error
      BY <1>0, Pages DEF Undiscard, TabRecords
    <2> HIDE DEF new
    <2>2. Restful(tab, new)
      BY <1>1, <2>1
    <2> QED BY <2>2 DEF new
  <1> QED BY <1>2, <1>3, <1>4, <1>5, <1>6
-----------------------------------------------------------------------------
(* The tab strip.                                                          *)
LEMMA WithTabSound ==
  ASSUME NEW m, ManagerSound(m), NEW id, NEW tab, TabSound(tab)
  PROVE  /\ ManagerSound(WithTab(m, id, tab))
         /\ OpenIds(WithTab(m, id, tab)) = OpenIds(m)
         /\ WithTab(m, id, tab).active_tab_id = m.active_tab_id
         /\ WithTab(m, id, tab).next_id = m.next_id
         /\ \A x \in OpenIds(m) :
              WithTab(m, id, tab).tabs[x] = IF x = id THEN tab ELSE m.tabs[x]
  <1> DEFINE tabs == [m.tabs EXCEPT ![id] = tab]
             n == WithTab(m, id, tab)
  <1>1. DOMAIN tabs = DOMAIN m.tabs /\ \A x \in DOMAIN m.tabs :
           tabs[x] = IF x = id THEN tab ELSE m.tabs[x]
    OBVIOUS
  <1>2. n = [m EXCEPT !.tabs = tabs]
    BY DEF WithTab
  <1> HIDE DEF tabs, n
  <1>3. /\ n = [tabs |-> n.tabs, tab_order |-> n.tab_order, active_tab_id |-> n.active_tab_id,
                next_id |-> n.next_id, closed_tabs |-> n.closed_tabs]
        /\ n.tabs = tabs /\ n.tab_order = m.tab_order /\ n.active_tab_id = m.active_tab_id
        /\ n.next_id = m.next_id /\ n.closed_tabs = m.closed_tabs
    BY <1>2 DEF ManagerSound
  <1>4. OpenIds(n) = OpenIds(m)
    BY <1>1, <1>3 DEF OpenIds
  <1>5. StripSound(n)
    BY <1>3, <1>4 DEF StripSound, ManagerSound
  <1>6. \A x \in OpenIds(n) : TabSound(n.tabs[x])
    BY <1>1, <1>3, <1>4 DEF ManagerSound, OpenIds
  <1>7. ManagerSound(n)
    BY <1>3, <1>5, <1>6 DEF ManagerSound
  <1> QED BY <1>1, <1>3, <1>4, <1>7 DEF n, OpenIds

LEMMA AddTabSound ==
  ASSUME NEW m, ManagerSound(m), NEW tab, TabSound(tab)
  PROVE  /\ ManagerSound(AddTab(m, tab))
         /\ OpenIds(AddTab(m, tab)) = OpenIds(m) \cup {m.next_id}
         /\ AddTab(m, tab).active_tab_id = m.next_id
         /\ AddTab(m, tab).closed_tabs = m.closed_tabs
         /\ AddTab(m, tab).tabs[m.next_id] = tab
         /\ m.next_id \notin OpenIds(m)
         /\ \A x \in OpenIds(m) : AddTab(m, tab).tabs[x] = m.tabs[x]
  <1> DEFINE new == m.next_id
             tabs == Insert(m.tabs, new, tab)
             order == Append(m.tab_order, new)
             n == AddTab(m, tab)
  <1>1. /\ m.tab_order \in Seq(Nat) /\ IsInjective(m.tab_order) /\ new \in Nat
        /\ ToSet(m.tab_order) = OpenIds(m)
        /\ \A x \in OpenIds(m) : x < new
    BY DEF ManagerSound, StripSound
  <1>2. new \notin OpenIds(m)
    BY <1>1
  <1>3. OpenIds(m) \subseteq Nat
    BY <1>1, ElementOfSeq, LenProperties DEF ToSet
  <1>4. order \in Seq(Nat) /\ ToSet(order) = ToSet(m.tab_order) \cup {new} /\ IsInjective(order)
    BY <1>1, <1>2, QueueAppend
  <1>5. /\ DOMAIN tabs = OpenIds(m) \cup {new} /\ tabs[new] = tab
        /\ \A x \in OpenIds(m) : tabs[x] = m.tabs[x]
    BY <1>2 DEF Insert, OpenIds
  <1>6. n = [m EXCEPT !.tabs = tabs, !.tab_order = order, !.active_tab_id = new,
                      !.next_id = @ + 1]
    BY DEF AddTab
  <1> HIDE DEF tabs, order, n
  <1>7. /\ n = [tabs |-> n.tabs, tab_order |-> n.tab_order, active_tab_id |-> n.active_tab_id,
                next_id |-> n.next_id, closed_tabs |-> n.closed_tabs]
        /\ n.tabs = tabs /\ n.tab_order = order /\ n.active_tab_id = new
        /\ n.next_id = new + 1 /\ n.closed_tabs = m.closed_tabs
    BY <1>6 DEF ManagerSound
  <1>8. OpenIds(n) = OpenIds(m) \cup {new}
    BY <1>5, <1>7 DEF OpenIds
  <1>9. StripSound(n)
    <2>1. \A x \in OpenIds(n) : x < new + 1
      BY <1>1, <1>3, <1>8
    <2>2. Len(n.closed_tabs) <= MaxClosed
      BY <1>7 DEF ManagerSound, StripSound
    <2> QED BY <1>1, <1>4, <1>7, <1>8, <2>1, <2>2 DEF StripSound
  <1>10. \A x \in OpenIds(n) : TabSound(n.tabs[x])
    BY <1>5, <1>7, <1>8 DEF ManagerSound
  <1>11. ManagerSound(n)
    BY <1>1, <1>4, <1>7, <1>9, <1>10 DEF ManagerSound
  <1> QED BY <1>2, <1>5, <1>7, <1>8, <1>11 DEF n

LEMMA ActivateSound ==
  ASSUME NEW m, ManagerSound(m), NEW id \in OpenIds(m)
  PROVE  /\ ManagerSound(Activate(m, id))
         /\ OpenIds(Activate(m, id)) = OpenIds(m)
         /\ Activate(m, id).tabs = m.tabs
         /\ Activate(m, id).active_tab_id = id
  <1> DEFINE n == Activate(m, id)
  <1>1. /\ n = [tabs |-> n.tabs, tab_order |-> n.tab_order, active_tab_id |-> n.active_tab_id,
                next_id |-> n.next_id, closed_tabs |-> n.closed_tabs]
        /\ n.tabs = m.tabs /\ n.tab_order = m.tab_order /\ n.active_tab_id = id
        /\ n.next_id = m.next_id /\ n.closed_tabs = m.closed_tabs
    BY DEF ManagerSound, Activate
  <1> HIDE DEF n
  <1>2. OpenIds(n) = OpenIds(m)
    BY <1>1 DEF OpenIds
  <1>3. StripSound(n)
    BY <1>1, <1>2 DEF StripSound, ManagerSound
  <1>4. ManagerSound(n)
    BY <1>1, <1>2, <1>3 DEF ManagerSound
  <1> QED BY <1>1, <1>2, <1>4 DEF n

(* Stepping along the strip stays on it, in either direction.              *)
LEMMA CycledSound ==
  ASSUME NEW m, ManagerSound(m), OpenIds(m) # {}, NEW step \in Nat
  PROVE  /\ ManagerSound(Cycled(m, step))
         /\ OpenIds(Cycled(m, step)) = OpenIds(m)
         /\ Cycled(m, step).tabs = m.tabs
  <1> DEFINE at == IndexOf(m, m.active_tab_id)
             len == Len(m.tab_order)
             next == ((at + step - 1) % len) + 1
  <1>1. m.tab_order \in Seq(Nat) /\ ToSet(m.tab_order) = OpenIds(m)
        /\ m.active_tab_id \in OpenIds(m)
    BY DEF ManagerSound, StripSound
  <1>2. len \in Nat /\ DOMAIN m.tab_order = 1..len
    BY <1>1, LenProperties
  <1>3. at \in 1..len
    BY <1>1, <1>2 DEF IndexOf, ToSet
  <1> HIDE DEF at, len
  <1>4. next \in 1..len
    <2>1. at + step - 1 \in Nat /\ len \in Nat \ {0}
      BY <1>2, <1>3
    <2>2. (at + step - 1) % len \in 0..(len - 1)
      BY <2>1
    <2> QED BY <1>2, <2>2
  <1>5. m.tab_order[next] \in OpenIds(m)
    BY <1>1, <1>2, <1>4 DEF ToSet
  <1>6. Cycled(m, step) = Activate(m, m.tab_order[next])
    BY DEF Cycled, at, len
  <1> HIDE DEF next
  <1> QED BY <1>5, <1>6, ActivateSound

LEMMA ClosedSound ==
  ASSUME NEW s \in Seq(WebPages), Len(s) <= MaxClosed, NEW url \in WebPages
  PROVE  /\ BoundedClosed(Append(s, url)) \in Seq(WebPages)
         /\ Len(BoundedClosed(Append(s, url))) <= MaxClosed
  <1> DEFINE pushed == Append(s, url)
  <1>0. MaxClosed \in Nat
    BY NavigationAssumption
  <1>1. pushed \in Seq(WebPages) /\ pushed # <<>> /\ Len(pushed) = Len(s) + 1
        /\ Len(s) \in Nat
    BY AppendProperties, LenProperties
  <1> HIDE DEF pushed
  <1>2. Tail(pushed) \in Seq(WebPages) /\ Len(Tail(pushed)) = Len(pushed) - 1
    BY <1>1, HeadTailProperties
  <1>3. BoundedClosed(pushed) = IF Len(pushed) > MaxClosed THEN Tail(pushed) ELSE pushed
    BY DEF BoundedClosed
  <1>4. BoundedClosed(pushed) \in Seq(WebPages) /\ Len(BoundedClosed(pushed)) <= MaxClosed
    BY <1>0, <1>1, <1>2, <1>3
  <1> QED BY <1>4 DEF pushed

(* Closing a tab hands its place to a tab that is still open.              *)
LEMMA RemoveTabSound ==
  ASSUME NEW m, ManagerSound(m), NEW id \in OpenIds(m), NEW reopenable,
         reopenable => m.tabs[id].url \in WebPages
  PROVE  /\ ManagerSound(RemoveTab(m, id, reopenable))
         /\ OpenIds(RemoveTab(m, id, reopenable)) = OpenIds(m) \ {id}
         /\ RemoveTab(m, id, reopenable).next_id = m.next_id
         /\ \A x \in OpenIds(m) \ {id} : RemoveTab(m, id, reopenable).tabs[x] = m.tabs[x]
  <1> DEFINE old == IndexOf(m, id)
             order == RemoveAt(m.tab_order, old)
             at == IF old > Len(order) THEN Len(order) ELSE old
             heir == IF order = <<>> THEN 0 ELSE order[at]
             tabs == Forget(m.tabs, id)
             closed == IF reopenable THEN BoundedClosed(Append(m.closed_tabs, m.tabs[id].url))
                       ELSE m.closed_tabs
             n == RemoveTab(m, id, reopenable)
  <1>1. /\ m.tab_order \in Seq(Nat) /\ IsInjective(m.tab_order)
        /\ ToSet(m.tab_order) = OpenIds(m)
        /\ m.active_tab_id \in OpenIds(m)
        /\ \A x \in OpenIds(m) : x < m.next_id
    BY DEF ManagerSound, StripSound
  <1>2. old \in DOMAIN m.tab_order /\ m.tab_order[old] = id
    BY <1>1 DEF IndexOf, ToSet
  <1> HIDE DEF old
  <1>3. order \in Seq(Nat) /\ ToSet(order) = OpenIds(m) \ {id} /\ IsInjective(order)
    BY <1>1, <1>2, QueueRemove
  <1> HIDE DEF order
  <1>4. IF order = <<>> THEN OpenIds(m) \ {id} = {} /\ heir = 0 ELSE heir \in OpenIds(m) \ {id}
    <2>1. Len(order) \in Nat /\ DOMAIN order = 1..Len(order) /\ old \in Nat \ {0}
      BY <1>1, <1>2, <1>3, LenProperties
    <2>2. CASE order = <<>>
      BY <1>3, <2>2 DEF ToSet
    <2>3. CASE order # <<>>
      <3>1. Len(order) > 0
        BY <1>3, <2>1, <2>3, EmptySeq
      <3>2. at \in 1..Len(order)
        BY <2>1, <3>1
      <3> QED BY <1>3, <2>1, <2>3, <3>2 DEF ToSet
    <2> QED BY <2>2, <2>3
  <1>5. DOMAIN tabs = OpenIds(m) \ {id} /\ \A x \in OpenIds(m) \ {id} : tabs[x] = m.tabs[x]
    BY DEF Forget, OpenIds
  <1>6. closed \in Seq(WebPages) /\ Len(closed) <= MaxClosed
    BY ClosedSound DEF ManagerSound, StripSound
  <1>7. n = [m EXCEPT !.tab_order = order,
                      !.active_tab_id = IF @ = id THEN heir ELSE @,
                      !.tabs = tabs, !.closed_tabs = closed]
    BY DEF RemoveTab, old, order
  <1> HIDE DEF heir, tabs, closed, n
  <1>8. /\ n = [tabs |-> n.tabs, tab_order |-> n.tab_order, active_tab_id |-> n.active_tab_id,
                next_id |-> n.next_id, closed_tabs |-> n.closed_tabs]
        /\ n.tabs = tabs /\ n.tab_order = order
        /\ n.active_tab_id = IF m.active_tab_id = id THEN heir ELSE m.active_tab_id
        /\ n.next_id = m.next_id /\ n.closed_tabs = closed
    BY <1>7 DEF ManagerSound
  <1>9. OpenIds(n) = OpenIds(m) \ {id}
    BY <1>5, <1>8 DEF OpenIds
  <1>10. StripSound(n)
    BY <1>1, <1>3, <1>4, <1>6, <1>8, <1>9 DEF StripSound, ToSet
  <1>11. \A x \in OpenIds(n) : TabSound(n.tabs[x])
    BY <1>5, <1>8, <1>9 DEF ManagerSound
  <1>12. ManagerSound(n)
    BY <1>3, <1>6, <1>8, <1>10, <1>11 DEF ManagerSound
  <1> QED BY <1>5, <1>8, <1>9, <1>12 DEF n
-----------------------------------------------------------------------------
(* The loads a tab waits for, as each helper leaves them.                  *)
CurrentIn(l, t) == {m \in l.commands : m.kind # "images" /\ m.tab = t /\ NewestIn(l, m)}

LEMMA InvalidateCurrent ==
  ASSUME NEW l, LoadsSound(l), NEW t
  PROVE  /\ CurrentIn(Invalidate(l, t), t) = {}
         /\ \A x : x # t => CurrentIn(Invalidate(l, t), x) = CurrentIn(l, x)
  <1> DEFINE i == Invalidate(l, t)
  <1>1. /\ i.pending_loads = Insert(l.pending_loads, t, l.load_seq + 1)
        /\ i.commands = l.commands
    BY InvalidateFields DEF LoadsSound
  <1>2. \A m \in l.commands : m.tab = t => ~NewestIn(i, m)
    BY InvalidateSound
  <1> HIDE DEF i
  <1>3. \A m : m.tab # t => (NewestIn(i, m) <=> NewestIn(l, m))
    BY <1>1 DEF NewestIn, Insert
  <1>4. CurrentIn(i, t) = {} /\ \A x : x # t => CurrentIn(i, x) = CurrentIn(l, x)
    BY <1>1, <1>2, <1>3 DEF CurrentIn
  <1> QED BY <1>4 DEF i

LEMMA StartCurrent ==
  ASSUME NEW l, LoadsSound(l), NEW t, NEW kind, kind # "images", NEW target
  PROVE  \E m : /\ CurrentIn(Start(l, t, kind, target), t) = {m}
                /\ m.kind = kind /\ m.target = target
  <1> DEFINE s == Start(l, t, kind, target)
             seq == l.load_seq + 1
             new == [kind |-> kind, tab |-> t, seq |-> seq, target |-> target, token |-> seq]
  <1>1. /\ s.pending_loads = Insert(l.pending_loads, t, seq)
        /\ s.commands = l.commands \cup {new}
    BY StartFields DEF LoadsSound
  <1>2. new.kind = kind /\ new.target = target /\ new.tab = t /\ new.seq = seq
    OBVIOUS
  <1>3. \A m \in l.commands : m.seq # seq
    BY DEF LoadsSound
  <1> HIDE DEF s, new
  <1>4. NewestIn(s, new) /\ \A m \in l.commands : m.tab = t => ~NewestIn(s, m)
    BY <1>1, <1>2, <1>3 DEF NewestIn, Insert
  <1>5. CurrentIn(s, t) = {new}
    BY <1>1, <1>2, <1>4 DEF CurrentIn
  <1> QED BY <1>2, <1>5 DEF s

LEMMA StartElsewhere ==
  ASSUME NEW l, LoadsSound(l), NEW t, NEW kind, NEW target, NEW x, x # t
  PROVE  CurrentIn(Start(l, t, kind, target), x) = CurrentIn(l, x)
  <1> DEFINE s == Start(l, t, kind, target)
             seq == l.load_seq + 1
             new == [kind |-> kind, tab |-> t, seq |-> seq, target |-> target, token |-> seq]
  <1>1. /\ s.pending_loads = Insert(l.pending_loads, t, seq)
        /\ s.commands = l.commands \cup {new}
    BY StartFields DEF LoadsSound
  <1>2. new.tab = t
    OBVIOUS
  <1> HIDE DEF s, new
  <1>3. \A m : m.tab # t => (NewestIn(s, m) <=> NewestIn(l, m))
    BY <1>1 DEF NewestIn, Insert
  <1>4. CurrentIn(s, x) = CurrentIn(l, x)
    BY <1>1, <1>2, <1>3 DEF CurrentIn
  <1> QED BY <1>4 DEF s

LEMMA ScheduleCurrent ==
  ASSUME NEW l, LoadsSound(l), NEW t, NEW scr, NEW x
  PROVE  CurrentIn(ScheduleImages(l, t, scr), x) = CurrentIn(l, x)
  <1> DEFINE s == ScheduleImages(l, t, scr)
  <1>1. CASE s = l
    BY <1>1
  <1>2. CASE s # l
    <2>1. PICK token : Scheduled(l, t, scr, token, s)
      BY <1>2, ScheduleFields DEF LoadsSound
    <2> DEFINE new == [kind |-> "images", tab |-> t, seq |-> l.load_seq + 1,
                       target |-> scr.dom, token |-> token]
    <2> HIDE DEF s
    <2>2. new.kind = "images" /\ s.commands = l.commands \cup {new}
          /\ s.pending_loads = l.pending_loads
      BY <2>1 DEF Scheduled
    <2> HIDE DEF new
    <2>3. CurrentIn(s, x) = CurrentIn(l, x)
      BY <2>2 DEF CurrentIn, NewestIn
    <2> QED BY <2>3 DEF s
  <1> QED BY <1>1, <1>2

LEMMA CloseCurrent ==
  ASSUME NEW l, LoadsSound(l), NEW t, NEW x, x # t
  PROVE  CurrentIn([Cancel(l, t) EXCEPT !.pending_loads = Forget(@, t),
                                        !.search_state = Forget(@, t)], x)
           = CurrentIn(l, x)
  <1> DEFINE c == Cancel(l, t)
             k == [c EXCEPT !.pending_loads = Forget(@, t), !.search_state = Forget(@, t)]
  <1>1. Bookkeeping(c) /\ c.commands = l.commands /\ c.pending_loads = l.pending_loads
    BY CancelFields DEF LoadsSound
  <1> HIDE DEF c
  <1>2. k.commands = c.commands /\ k.pending_loads = Forget(c.pending_loads, t)
    BY <1>1 DEF Bookkeeping
  <1> HIDE DEF k
  <1>3. \A m : m.tab = x => (NewestIn(k, m) <=> NewestIn(l, m))
    BY <1>1, <1>2 DEF NewestIn, Forget
  <1>4. CurrentIn(k, x) = CurrentIn(l, x)
    BY <1>1, <1>2, <1>3 DEF CurrentIn
  <1> QED BY <1>4 DEF k, c

(* What an answer takes with it.                                           *)
LEMMA AnswerCurrent ==
  ASSUME LoadsSound(loads), NEW m \in loads.commands, NEW k,
         k.commands = loads.commands \ {m}, k.pending_loads = loads.pending_loads
  PROVE  /\ \A x : x # m.tab \/ m.kind = "images" \/ ~NewestIn(loads, m)
                     => CurrentIn(k, x) = CurrentIn(loads, x)
         /\ m.kind # "images" /\ NewestIn(loads, m) =>
              m \in CurrentIn(loads, m.tab) /\ CurrentIn(k, m.tab) = {}
  <1>1. \A n : NewestIn(k, n) <=> NewestIn(loads, n)
    BY DEF NewestIn
  <1>2. \A n \in loads.commands : NewestIn(loads, m) /\ NewestIn(loads, n) /\ n.tab = m.tab
                                    => n = m
    BY DEF LoadsSound, NewestIn
  <1> QED BY <1>1, <1>2 DEF CurrentIn
-----------------------------------------------------------------------------
LEMMA CurrentIs == \A t : Current(t) = CurrentIn(loads, t)
  BY DEF Current, CurrentIn, IsNewest, NewestIn

LEMMA AskedIs ==
  AskedSound <=> \A t \in OpenIds(tm) : Right(CurrentIn(loads, t), tm.tabs[t].url, asked[t])
  BY CurrentIs DEF AskedSound

LEMMA StartRight ==
  ASSUME NEW l, LoadsSound(l), NEW t, NEW kind, kind # "images", NEW target, NEW url, NEW want,
         kind = "search" => target = url, ~want.lost => target = want.page
  PROVE  Right(CurrentIn(Start(l, t, kind, target), t), url, want)
  <1>1. PICK m : /\ CurrentIn(Start(l, t, kind, target), t) = {m}
                 /\ m.kind = kind /\ m.target = target
    BY StartCurrent
  <1> QED BY <1>1 DEF Right

CommandsSound(l, next) == \A m \in l.commands : CommandSound(m, next)

LEMMA OpenBorn ==
  ASSUME NEW m, ManagerSound(m), NEW id \in OpenIds(m)
  PROVE  id \in Nat /\ id < m.next_id
  BY ElementOfSeq, LenProperties DEF ManagerSound, StripSound, ToSet

LEMMA StartCommands ==
  ASSUME NEW l, LoadsSound(l), NEW next, CommandsSound(l, next),
         NEW t \in Nat, t < next, NEW kind, NEW target \in Urls,
         \/ kind = "page"
         \/ kind = "search" /\ target \in SearchPages
         \/ kind = "youtube" /\ target \in YouTubePages
  PROVE  CommandsSound(Start(l, t, kind, target), next)
  <1> DEFINE s == Start(l, t, kind, target)
             seq == l.load_seq + 1
             new == [kind |-> kind, tab |-> t, seq |-> seq, target |-> target, token |-> seq]
  <1>1. s.commands = l.commands \cup {new}
    BY StartFields DEF LoadsSound
  <1>2. CommandSound(new, next)
    BY DEF CommandSound
  <1> HIDE DEF s, new
  <1>3. CommandsSound(s, next)
    BY <1>1, <1>2 DEF CommandsSound
  <1> QED BY <1>3 DEF s

LEMMA ScheduleCommands ==
  ASSUME NEW l, LoadsSound(l), NEW next, CommandsSound(l, next), NEW t \in Nat, t < next, NEW scr, ScreenSound(scr)
  PROVE  CommandsSound(ScheduleImages(l, t, scr), next)
  <1> DEFINE s == ScheduleImages(l, t, scr)
  <1>1. CASE s = l
    BY <1>1
  <1>2. CASE s # l
    <2>1. PICK token : Scheduled(l, t, scr, token, s)
      BY <1>2, ScheduleFields DEF LoadsSound
    <2> DEFINE new == [kind |-> "images", tab |-> t, seq |-> l.load_seq + 1,
                       target |-> scr.dom, token |-> token]
    <2> HIDE DEF s
    <2>2. s.commands = l.commands \cup {new} /\ scr.dom \in Illustrated
      BY <2>1 DEF Scheduled, ScreenSound
    <2>3. CommandSound(new, next)
      BY <2>2, Pages DEF CommandSound
    <2> HIDE DEF new
    <2>4. CommandsSound(s, next)
      BY <2>2, <2>3 DEF CommandsSound
    <2> QED BY <2>4 DEF s
  <1> QED BY <1>1, <1>2

LEMMA InvalidateCommands ==
  ASSUME NEW l, LoadsSound(l), NEW next, CommandsSound(l, next), NEW t
  PROVE  CommandsSound(Invalidate(l, t), next)
  <1>1. Invalidate(l, t).commands = l.commands
    BY InvalidateFields DEF LoadsSound
  <1> QED BY <1>1 DEF CommandsSound

LEMMA RebuiltSound ==
  ASSUME NEW m, NEW scr, ScreenSound(scr), NEW cache
  PROVE  ScreenSound(Rebuilt(m, scr, cache))
  <1> DEFINE tab == ActiveTab(m)
             new == Painted(tab, cache)
             painted == [dom |-> new.dom, complete |-> new.complete,
                         last_url |-> tab.url, recent |-> TRUE]
  <1>1. new.complete \/ new.dom \in Illustrated
    BY DEF Painted
  <1>2. Rebuilt(m, scr, cache) = scr \/ Rebuilt(m, scr, cache) = painted
    BY DEF Rebuilt
  <1> HIDE DEF new, tab
  <1>3. ScreenSound(painted)
    BY <1>1 DEF ScreenSound
  <1> QED BY <1>2, <1>3

(* after_tab_change keeps every load but one an unfinished search replaces.*)
LEMMA AfterTabChangeKeeps ==
  ASSUME NEW m, NEW l, LoadsSound(l), CommandsSound(l, m.next_id), ManagerSound(m),
         OpenIds(m) # {}, NEW a, DOMAIN a = OpenIds(m),
         ScreenSound(screen), AfterTabChange(m, l, a)
  PROVE  /\ tm' = m /\ decoded' = decoded
         /\ CommandsSound(loads', m.next_id) /\ ScreenSound(screen')
         /\ DOMAIN asked' = OpenIds(m)
         /\ \A x \in OpenIds(m) : Right(CurrentIn(l, x), m.tabs[x].url, a[x])
                                  => Right(CurrentIn(loads', x), m.tabs[x].url, asked'[x])
  <1> DEFINE t == m.active_tab_id
             url == ActiveTab(m).url
  <1>1. tm' = m /\ decoded' = decoded
    BY DEF AfterTabChange
  <1>0. t \in Nat /\ t < m.next_id /\ t \in OpenIds(m)
    BY OpenBorn DEF ManagerSound, StripSound
  <1>2. CASE SearchUnfinished(m, l)
    <2>1. /\ loads' = Start(l, t, "search", url) /\ screen' = screen
          /\ asked' = Diverted(a, t, url)
      BY <1>2 DEF AfterTabChange, StartedBy, PaintedBy
    <2>2. url \in SearchPages /\ url = m.tabs[t].url
      BY <1>2 DEF SearchUnfinished, ActiveTab
    <2>3. CommandsSound(loads', m.next_id)
      BY <1>0, <2>1, <2>2, StartCommands, Pages
    <2>6. DOMAIN asked' = OpenIds(m) /\ asked'[t] = [page |-> a[t].page, lost |-> a[t].page # url]
      BY <1>0, <2>1 DEF Diverted, Insert
    <2>4. Right(CurrentIn(loads', t), m.tabs[t].url, asked'[t])
      BY <2>1, <2>2, <2>6, StartRight
    <2>5. ASSUME NEW x \in OpenIds(m), x # t
          PROVE  CurrentIn(loads', x) = CurrentIn(l, x) /\ asked'[x] = a[x]
      BY <2>1, <2>5, StartElsewhere DEF Diverted, Insert
    <2> QED BY <1>1, <2>1, <2>3, <2>4, <2>5, <2>6
  <1>3. CASE ~SearchUnfinished(m, l)
    <2>1. /\ loads' = ScheduleImages(l, t, screen') /\ screen' = Rebuilt(m, screen, decoded)
          /\ asked' = a
      BY <1>3 DEF AfterTabChange, StartedBy, PaintedBy
    <2>2. ScreenSound(screen')
      BY <2>1, RebuiltSound
    <2>3. CommandsSound(loads', m.next_id)
      BY <1>0, <2>1, <2>2, ScheduleCommands
    <2>4. \A x : CurrentIn(loads', x) = CurrentIn(l, x)
      BY <2>1, ScheduleCurrent
    <2> QED BY <1>1, <2>1, <2>2, <2>3, <2>4
  <1> QED BY <1>2, <1>3
-----------------------------------------------------------------------------
(* Typed and AskedSound, said of the variables.                            *)
Facts ==
  /\ LoadsSound(loads) /\ CommandsSound(loads, tm.next_id)
  /\ ManagerSound(tm) /\ OpenIds(tm) # {}
  /\ active \in OpenIds(tm) /\ active \in Nat /\ active < tm.next_id
  /\ TabSound(tm.tabs[active]) /\ activeUrl \in Urls
  /\ activeUrl = tm.tabs[active].url /\ ActiveTab(tm) = tm.tabs[active]
  /\ ScreenSound(screen) /\ decoded \subseteq Illustrated
  /\ DOMAIN asked = OpenIds(tm)
  /\ \A t \in OpenIds(tm) : Right(CurrentIn(loads, t), tm.tabs[t].url, asked[t])

Kept ==
  /\ CommandsSound(loads, tm.next_id)
  /\ ManagerSound(tm) /\ OpenIds(tm) # {}
  /\ ScreenSound(screen) /\ decoded \subseteq Illustrated
  /\ DOMAIN asked = OpenIds(tm)
  /\ \A t \in OpenIds(tm) : Right(CurrentIn(loads, t), tm.tabs[t].url, asked[t])

LEMMA KeptIs == Kept <=> Typed /\ AskedSound
  BY AskedIs DEF Kept, Typed, CommandsSound

LEMMA FactsHold == NavInv => Facts
  <1> SUFFICES ASSUME NavInv PROVE Facts
    OBVIOUS
  <1>1. LoadsSound(loads) /\ Kept
    BY KeptIs DEF NavInv
  <1>2. active \in OpenIds(tm)
    BY <1>1 DEF Kept, ManagerSound, StripSound, active
  <1>3. TabSound(tm.tabs[active])
    BY <1>1, <1>2 DEF Kept, ManagerSound
  <1>4. tm.tabs[active].url \in Urls
    BY <1>3 DEF TabSound, TabRecords
  <1>5. active \in Nat /\ active < tm.next_id
    BY <1>1, <1>2, OpenBorn DEF Kept
  <1> QED BY <1>1, <1>2, <1>3, <1>4, <1>5 DEF Facts, Kept, activeUrl, ActiveTab, active
-----------------------------------------------------------------------------
(* What the user does.                                                     *)
LEMMA FetchKeeps ==
  ASSUME Facts, NEW url \in Urls, NEW kind, Fetch(url, kind),
         \/ kind = "page"
         \/ kind = "search" /\ url \in SearchPages /\ url = activeUrl
         \/ kind = "youtube" /\ url \in YouTubePages
  PROVE  Kept'
  <1> DEFINE wish == [page |-> url, lost |-> FALSE]
  <1>1. /\ loads' = Start(loads, active, kind, url) /\ asked' = Insert(asked, active, wish)
        /\ tm' = tm /\ screen' = screen /\ decoded' = decoded
    BY DEF Fetch, Ask
  <1>0. LoadsSound(loads) /\ kind # "images"
    BY DEF Facts
  <1>2. CommandsSound(loads', tm.next_id)
    BY <1>1, StartCommands DEF Facts
  <1>3. DOMAIN asked' = OpenIds(tm)
    BY <1>1 DEF Insert, Facts
  <1>4. ASSUME NEW t \in OpenIds(tm)
        PROVE  Right(CurrentIn(loads', t), tm.tabs[t].url, asked'[t])
    <2>1. CASE t = active
      <3>1. asked'[t] = wish
        BY <1>1, <2>1 DEF Insert
      <3>2. (kind = "search" => url = tm.tabs[t].url) /\ asked'[t].page = url
        BY <2>1, <3>1 DEF Facts
      <3>3. Right(CurrentIn(Start(loads, t, kind, url), t), tm.tabs[t].url, asked'[t])
        BY <1>0, <3>2, StartRight
      <3> QED BY <1>1, <2>1, <3>3
    <2>2. CASE t # active
      <3>1. asked'[t] = asked[t]
        BY <1>1, <1>4, <2>2 DEF Insert, Facts
      <3>2. CurrentIn(loads', t) = CurrentIn(loads, t)
        BY <1>0, <1>1, <2>2, StartElsewhere
      <3> QED BY <1>4, <3>1, <3>2 DEF Facts
    <2> QED BY <2>1, <2>2
  <1> QED BY <1>1, <1>2, <1>3, <1>4 DEF Kept, Facts

(* A tab changes its page on the spot and gives up the load in flight.     *)
LEMMA ShownAtOnce ==
  ASSUME Facts, NEW tab, TabSound(tab), tm' = WithTab(tm, active, tab),
         DOMAIN asked' = OpenIds(tm),
         CommandsSound(loads', tm.next_id), ScreenSound(screen'), decoded' = decoded,
         \A t \in OpenIds(tm) :
            LET now == WithTab(tm, active, tab).tabs[t] IN
            Right(CurrentIn(Invalidate(loads, active), t), now.url, Ask(active, tab.url)[t])
              => Right(CurrentIn(loads', t), now.url, asked'[t])
  PROVE  Kept'
  <1> DEFINE m == WithTab(tm, active, tab)
             a == Ask(active, tab.url)
  <1>1. /\ ManagerSound(m) /\ OpenIds(m) = OpenIds(tm) /\ m.next_id = tm.next_id
        /\ \A x \in OpenIds(tm) : m.tabs[x] = IF x = active THEN tab ELSE tm.tabs[x]
    BY WithTabSound DEF Facts
  <1>2. /\ a[active] = [page |-> tab.url, lost |-> FALSE]
        /\ \A x \in OpenIds(tm) : x # active => a[x] = asked[x]
    BY DEF Ask, Insert, Facts
  <1> HIDE DEF m, a
  <1>3. ASSUME NEW t \in OpenIds(tm)
        PROVE  Right(CurrentIn(loads', t), m.tabs[t].url, asked'[t])
    <2>1. Right(CurrentIn(Invalidate(loads, active), t), m.tabs[t].url, a[t])
      <3>1. CASE t = active
        <4>1. a[t].page = tab.url /\ m.tabs[t] = tab
          BY <1>1, <1>2, <3>1 DEF Facts
        <4>2. CurrentIn(Invalidate(loads, active), t) = {}
          BY <3>1, InvalidateCurrent DEF Facts
        <4> QED BY <4>1, <4>2 DEF Right
      <3>2. CASE t # active
        <4>1. a[t] = asked[t] /\ m.tabs[t] = tm.tabs[t]
          BY <1>1, <1>2, <1>3, <3>2
        <4>2. CurrentIn(Invalidate(loads, active), t) = CurrentIn(loads, t)
          BY <3>2, InvalidateCurrent DEF Facts
        <4> QED BY <1>3, <4>1, <4>2 DEF Facts
      <3> QED BY <3>1, <3>2
    <2> QED BY <1>3, <2>1 DEF m, a
  <1> QED BY <1>1, <1>3 DEF Kept, Facts, m

LEMMA OpenInternalKeeps ==
  ASSUME Facts, NEW url \in SearchPages \cup {NewTabPage}, OpenInternal(url)
  PROVE  Kept'
  <1> DEFINE tab == CommitInternal(ActiveTab(tm), url)
             m == WithTab(tm, active, tab)
             l == Invalidate(loads, active)
  <1>0. url \in Urls
    BY Pages
  <1>1. TabSound(tab) /\ tab.url = url
    BY <1>0, CommitInternalSound DEF Facts
  <1>2. /\ tm' = m /\ decoded' = decoded /\ asked' = Ask(active, tab.url)
        /\ screen' = Rebuilt(m, screen, decoded)
        /\ loads' = IF url \in SearchPages THEN Start(l, active, "search", url) ELSE l
    BY <1>1 DEF OpenInternal
  <1> HIDE DEF tab
  <1>3. LoadsSound(l) /\ CommandsSound(l, tm.next_id) /\ active \in Nat /\ active < tm.next_id
    BY InvalidateSound, InvalidateCommands DEF Facts
  <1> HIDE DEF l
  <1>4. CommandsSound(loads', tm.next_id)
    BY <1>0, <1>2, <1>3, StartCommands
  <1>5. ScreenSound(screen')
    BY <1>2, RebuiltSound DEF Facts
  <1>6. /\ m.tabs[active].url = url /\ DOMAIN asked' = OpenIds(tm)
        /\ asked'[active] = [page |-> url, lost |-> FALSE]
    BY <1>1, <1>2, WithTabSound DEF Facts, Ask, Insert
  <1>7. ASSUME NEW t \in OpenIds(tm), Right(CurrentIn(l, t), m.tabs[t].url, asked'[t])
        PROVE  Right(CurrentIn(loads', t), m.tabs[t].url, asked'[t])
    <2>1. CASE url \notin SearchPages
      BY <1>2, <1>7, <2>1
    <2>2. CASE url \in SearchPages /\ t = active
      BY <1>2, <1>3, <1>6, <2>2, StartRight
    <2>3. CASE url \in SearchPages /\ t # active
      <3>1. CurrentIn(loads', t) = CurrentIn(l, t)
        BY <1>2, <1>3, <2>3, StartElsewhere
      <3> QED BY <1>7, <3>1
    <2> QED BY <2>1, <2>2, <2>3
  <1> QED BY <1>1, <1>2, <1>4, <1>5, <1>6, <1>7, ShownAtOnce DEF l

LEMMA TravelKeeps ==
  ASSUME Facts, NEW tab, TabSound(tab), Travel(tab)
  PROVE  Kept'
  <1> DEFINE m == WithTab(tm, active, tab)
             l == Invalidate(loads, active)
  <1>1. /\ ManagerSound(m) /\ OpenIds(m) # {} /\ m.next_id = tm.next_id
        /\ LoadsSound(l) /\ CommandsSound(l, m.next_id) /\ ScreenSound(screen)
    BY WithTabSound, InvalidateSound, InvalidateCommands DEF Facts
  <1> DEFINE a == Ask(active, tab.url)
  <1>2. AfterTabChange(m, l, a) /\ OpenIds(m) = OpenIds(tm)
    BY WithTabSound DEF Travel, Facts
  <1>4. DOMAIN a = OpenIds(m)
    BY <1>2 DEF Ask, Insert, Facts
  <1> HIDE DEF a, m, l
  <1>3. /\ tm' = m /\ decoded' = decoded
        /\ CommandsSound(loads', m.next_id) /\ ScreenSound(screen')
        /\ DOMAIN asked' = OpenIds(m)
        /\ \A x \in OpenIds(m) : Right(CurrentIn(l, x), m.tabs[x].url, a[x])
                                 => Right(CurrentIn(loads', x), m.tabs[x].url, asked'[x])
    BY <1>1, <1>2, <1>4, AfterTabChangeKeeps
  <1> QED BY <1>1, <1>2, <1>3, ShownAtOnce DEF a, m, l

(* A tab change that leaves every tab's page and load as they are.         *)
LEMMA SwitchKeeps ==
  ASSUME Facts, NEW m, ManagerSound(m), OpenIds(m) = OpenIds(tm),
         m.next_id = tm.next_id,
         \A x \in OpenIds(tm) : m.tabs[x].url = tm.tabs[x].url,
         AfterTabChange(m, loads, asked)
  PROVE  Kept'
  <1>1. /\ tm' = m /\ decoded' = decoded
        /\ CommandsSound(loads', tm.next_id) /\ ScreenSound(screen')
        /\ DOMAIN asked' = OpenIds(m)
        /\ \A x \in OpenIds(m) : Right(CurrentIn(loads, x), m.tabs[x].url, asked[x])
                                 => Right(CurrentIn(loads', x), m.tabs[x].url, asked'[x])
    BY AfterTabChangeKeeps DEF Facts
  <1>2. \A t \in OpenIds(m) : Right(CurrentIn(loads', t), m.tabs[t].url, asked'[t])
    BY <1>1 DEF Facts
  <1> QED BY <1>1, <1>2 DEF Kept, Facts

LEMMA ReloadKeeps ==
  ASSUME Facts, Reload
  PROVE  Kept'
  <1>1. CASE activeUrl = NewTabPage
    <2>1. AfterTabChange(tm, loads, asked)
      BY <1>1 DEF Reload
    <2> QED BY <2>1, SwitchKeeps DEF Facts
  <1>2. CASE activeUrl # NewTabPage
    <2>1. Fetch(activeUrl, IF activeUrl \in SearchPages THEN "search" ELSE "page")
      BY <1>2 DEF Reload
    <2>2. activeUrl \in Urls
      BY DEF Facts
    <2> QED BY <2>1, <2>2, FetchKeeps
  <1> QED BY <1>1, <1>2

(* A new tab at the right end of the strip, asked for url.                 *)
LEMMA FreshKeeps ==
  ASSUME Facts, NEW m, ManagerSound(m), OpenIds(m) = OpenIds(tm) \cup {tm.next_id},
         tm.next_id \notin OpenIds(tm),
         \A x \in OpenIds(tm) : m.tabs[x] = tm.tabs[x],
         tm' = m, NEW url, asked' = Ask(tm.next_id, url),
         CommandsSound(loads', m.next_id), ScreenSound(screen'), decoded' = decoded,
         \A x \in OpenIds(tm) : CurrentIn(loads', x) = CurrentIn(loads, x),
         Right(CurrentIn(loads', tm.next_id), m.tabs[tm.next_id].url,
               [page |-> url, lost |-> FALSE])
  PROVE  Kept'
  <1>1. DOMAIN asked' = OpenIds(m)
    BY DEF Ask, Insert, Facts
  <1>2. ASSUME NEW t \in OpenIds(m)
        PROVE  Right(CurrentIn(loads', t), m.tabs[t].url, asked'[t])
    <2>1. CASE t = tm.next_id
      BY <2>1 DEF Ask, Insert
    <2>2. CASE t # tm.next_id
      <3>1. t \in OpenIds(tm) /\ asked'[t] = asked[t]
        BY <1>2, <2>2 DEF Ask, Insert, Facts
      <3> QED BY <3>1 DEF Facts
    <2> QED BY <2>1, <2>2
  <1> QED BY <1>1, <1>2 DEF Kept, Facts

FreshManager == AddTab(tm, FreshTab(NewTabPage, NewTabPage))

LEMMA FreshManagerSound ==
  ASSUME Facts
  PROVE  /\ ManagerSound(FreshManager) /\ OpenIds(FreshManager) = OpenIds(tm) \cup {tm.next_id}
         /\ tm.next_id \notin OpenIds(tm) /\ tm.next_id \in Nat
         /\ FreshManager.next_id = tm.next_id + 1
         /\ FreshManager.closed_tabs = tm.closed_tabs
         /\ FreshManager.tabs[tm.next_id].url = NewTabPage
         /\ \A x \in OpenIds(tm) : FreshManager.tabs[x] = tm.tabs[x]
  <1> DEFINE tab == FreshTab(NewTabPage, NewTabPage)
  <1>1. tab.url = NewTabPage
    BY DEF FreshTab
  <1>2. TabSound(tab) /\ ManagerSound(tm)
    BY FreshSound DEF Facts
  <1>3. FreshManager.next_id = tm.next_id + 1 /\ tm.next_id \in Nat
    BY <1>2 DEF FreshManager, AddTab, ManagerSound
  <1> HIDE DEF tab
  <1>4. /\ ManagerSound(AddTab(tm, tab))
        /\ OpenIds(AddTab(tm, tab)) = OpenIds(tm) \cup {tm.next_id}
        /\ AddTab(tm, tab).closed_tabs = tm.closed_tabs
        /\ AddTab(tm, tab).tabs[tm.next_id] = tab
        /\ tm.next_id \notin OpenIds(tm)
        /\ \A x \in OpenIds(tm) : AddTab(tm, tab).tabs[x] = tm.tabs[x]
    BY <1>2, AddTabSound
  <1> QED BY <1>1, <1>3, <1>4 DEF FreshManager, tab

(* No load belongs to a tab that does not exist yet.                       *)
LEMMA Unborn ==
  ASSUME Facts
  PROVE  /\ CurrentIn(loads, tm.next_id) = {}
         /\ CommandsSound(loads, tm.next_id + 1)
  BY DEF Facts, CommandsSound, CommandSound, CurrentIn, ManagerSound

LEMMA NewTabKeeps ==
  ASSUME Facts, NewTab
  PROVE  Kept'
  <1>1. /\ tm' = FreshManager /\ asked' = Ask(tm.next_id, NewTabPage) /\ loads' = loads
        /\ screen' = Rebuilt(FreshManager, screen, decoded) /\ decoded' = decoded
    BY DEF NewTab, FreshManager
  <1>2. ScreenSound(screen')
    BY <1>1, RebuiltSound DEF Facts
  <1>3. Right(CurrentIn(loads', tm.next_id), FreshManager.tabs[tm.next_id].url,
              [page |-> NewTabPage, lost |-> FALSE])
    BY <1>1, FreshManagerSound, Unborn DEF Right
  <1>4. CommandsSound(loads', FreshManager.next_id)
    BY <1>1, FreshManagerSound, Unborn
  <1> QED BY <1>1, <1>2, <1>3, <1>4, FreshManagerSound, FreshKeeps

LEMMA PopSound ==
  ASSUME NEW m, ManagerSound(m), m.closed_tabs # <<>>
  PROVE  /\ ManagerSound(PopClosed(m))
         /\ OpenIds(PopClosed(m)) = OpenIds(m)
         /\ PopClosed(m).tabs = m.tabs /\ PopClosed(m).next_id = m.next_id
         /\ Last(m.closed_tabs) \in WebPages
  <1> DEFINE closed == m.closed_tabs
             front == Front(closed)
             n == PopClosed(m)
  <1>1. closed \in Seq(WebPages) /\ Len(closed) \in Nat \ {0} /\ Len(closed) <= MaxClosed
    BY EmptySeq DEF ManagerSound, StripSound
  <1>2. Last(closed) \in WebPages
    BY <1>1, ElementOfSeq DEF Last
  <1>3. front \in Seq(WebPages) /\ Len(front) = Len(closed) - 1
    <2>1. \A i \in 1..(Len(closed) - 1) : closed[i] \in WebPages
      BY <1>1, ElementOfSeq
    <2>2. 1 \in Int /\ Len(closed) - 1 \in Int
      BY <1>1
    <2> HIDE DEF closed
    <2>3. /\ SubSeq(closed, 1, Len(closed) - 1) \in Seq(WebPages)
          /\ Len(SubSeq(closed, 1, Len(closed) - 1))
               = IF 1 <= Len(closed) - 1 THEN Len(closed) - 1 - 1 + 1 ELSE 0
      BY <2>1, <2>2, SubSeqProperties
    <2>4. front = SubSeq(closed, 1, Len(closed) - 1)
      BY DEF Front
    <2> HIDE DEF front
    <2>5. Len(front) = IF 1 <= Len(closed) - 1 THEN Len(closed) - 1 - 1 + 1 ELSE 0
      BY <2>3, <2>4
    <2>6. \A k \in Nat \ {0} : (IF 1 <= k - 1 THEN k - 1 - 1 + 1 ELSE 0) = k - 1
      OBVIOUS
    <2>7. Len(front) = Len(closed) - 1
      BY <1>1, <2>5, <2>6
    <2> QED BY <2>3, <2>4, <2>7
  <1>4. n = [m EXCEPT !.closed_tabs = front]
    BY DEF PopClosed
  <1>5. Len(front) <= MaxClosed
    BY <1>1, <1>3, NavigationAssumption
  <1> HIDE DEF front, n
  <1>6. /\ n = [tabs |-> n.tabs, tab_order |-> n.tab_order, active_tab_id |-> n.active_tab_id,
                next_id |-> n.next_id, closed_tabs |-> n.closed_tabs]
        /\ n.tabs = m.tabs /\ n.tab_order = m.tab_order /\ n.active_tab_id = m.active_tab_id
        /\ n.next_id = m.next_id /\ n.closed_tabs = front
    BY <1>4 DEF ManagerSound
  <1>7. OpenIds(n) = OpenIds(m)
    BY <1>6 DEF OpenIds
  <1>8. StripSound(n)
    BY <1>5, <1>6, <1>7 DEF StripSound, ManagerSound
  <1>9. ManagerSound(n)
    BY <1>3, <1>6, <1>7, <1>8 DEF ManagerSound
  <1> QED BY <1>2, <1>6, <1>7, <1>9 DEF n

LEMMA ReopenKeeps ==
  ASSUME Facts, ReopenClosedTab
  PROVE  Kept'
  <1> DEFINE m == PopClosed(FreshManager)
             url == Last(tm.closed_tabs)
             id == tm.next_id
  <1>1. /\ tm' = m /\ asked' = Ask(id, url) /\ decoded' = decoded
        /\ screen' = Rebuilt(m, screen, decoded)
        /\ loads' = Start(loads, id, "page", url)
        /\ tm.closed_tabs # <<>>
    BY DEF ReopenClosedTab, FreshManager
  <1>2. /\ ManagerSound(m) /\ OpenIds(m) = OpenIds(tm) \cup {id}
        /\ m.tabs = FreshManager.tabs /\ m.next_id = id + 1 /\ url \in WebPages
    BY <1>1, FreshManagerSound, PopSound
  <1>3. \A x \in OpenIds(tm) : m.tabs[x] = tm.tabs[x]
    BY <1>2, FreshManagerSound
  <1> HIDE DEF m, url
  <1>4. ScreenSound(screen')
    BY <1>1, RebuiltSound DEF Facts
  <1>5. LoadsSound(loads) /\ id \in Nat /\ id < id + 1 /\ id \notin OpenIds(tm) /\ url \in Urls
    BY <1>2, FreshManagerSound, Pages DEF Facts
  <1>6. CommandsSound(loads', m.next_id)
    BY <1>1, <1>2, <1>5, Unborn, StartCommands
  <1>7. Right(CurrentIn(loads', id), m.tabs[id].url, [page |-> url, lost |-> FALSE])
    BY <1>1, <1>5, StartRight
  <1>8. \A x \in OpenIds(tm) : CurrentIn(loads', x) = CurrentIn(loads, x)
    BY <1>1, <1>5, StartElsewhere
  <1> QED BY <1>1, <1>2, <1>3, <1>4, <1>5, <1>6, <1>7, <1>8, FreshKeeps

(* Closing a tab takes its load along and leaves the others theirs.        *)
LEMMA CloseKeeps ==
  ASSUME Facts, NEW id \in OpenIds(tm), CloseTab(id)
  PROVE  Kept'
  <1> DEFINE reopenable == tm.tabs[id].url \in WebPages
             rest == RemoveTab(tm, id, reopenable)
             fresh == AddTab(rest, FreshTab(NewTabPage, NewTabPage))
             m == IF OpenIds(rest) = {} THEN fresh ELSE rest
             l == [Cancel(loads, id) EXCEPT !.pending_loads = Forget(@, id),
                                            !.search_state = Forget(@, id)]
             a == IF OpenIds(rest) = {} THEN Forget(Ask(tm.next_id, NewTabPage), id)
                  ELSE Forget(asked, id)
  <1>1. AfterTabChange(m, l, a)
    BY DEF CloseTab
  <1>2. /\ ManagerSound(rest) /\ OpenIds(rest) = OpenIds(tm) \ {id}
        /\ rest.next_id = tm.next_id
        /\ \A x \in OpenIds(tm) \ {id} : rest.tabs[x] = tm.tabs[x]
    BY RemoveTabSound DEF Facts
  <1>3. /\ LoadsSound(l)
        /\ \A x : x # id => CurrentIn(l, x) = CurrentIn(loads, x)
    BY CloseSound, CloseCurrent DEF Facts
  <1>4. l.commands = loads.commands
    <2> DEFINE c == Cancel(loads, id)
               pending == Forget(c.pending_loads, id)
               searches == Forget(c.search_state, id)
    <2>1. Bookkeeping(c) /\ c.commands = loads.commands
      BY CancelFields DEF Facts, LoadsSound
    <2>2. l = [c EXCEPT !.pending_loads = pending, !.search_state = searches]
      BY <2>1 DEF Bookkeeping
    <2> HIDE DEF c, pending, searches
    <2>3. [c EXCEPT !.pending_loads = pending, !.search_state = searches].commands = c.commands
      BY <2>1 DEF Bookkeeping
    <2> QED BY <2>1, <2>2, <2>3
  <1> HIDE DEF l, rest
  <1>5. CASE OpenIds(rest) # {}
    <2>1. m = rest
      BY <1>5
    <2>2. CommandsSound(l, m.next_id)
      BY <1>2, <1>4, <2>1 DEF CommandsSound, Facts
    <2>4. a = Forget(asked, id)
      BY <1>5
    <2>7. DOMAIN a = OpenIds(rest)
      BY <1>2, <2>4 DEF Forget, Facts
    <2> HIDE DEF a
    <2>3. /\ tm' = rest /\ decoded' = decoded
          /\ CommandsSound(loads', rest.next_id) /\ ScreenSound(screen')
          /\ DOMAIN asked' = OpenIds(rest)
          /\ \A x \in OpenIds(rest) : Right(CurrentIn(l, x), rest.tabs[x].url, a[x])
                                      => Right(CurrentIn(loads', x), rest.tabs[x].url, asked'[x])
      <3> HIDE DEF m
      <3> QED BY <1>1, <1>2, <1>3, <1>5, <2>1, <2>2, <2>7, AfterTabChangeKeeps DEF Facts
    <2>5. ASSUME NEW t \in OpenIds(rest)
          PROVE  Right(CurrentIn(loads', t), rest.tabs[t].url, asked'[t])
      <3>1. t \in OpenIds(tm) /\ t # id
        BY <1>2, <2>5
      <3>2. a[t] = asked[t] /\ rest.tabs[t] = tm.tabs[t]
        BY <1>2, <2>4, <3>1 DEF Forget, Facts
      <3>3. Right(CurrentIn(l, t), rest.tabs[t].url, a[t])
        BY <1>3, <3>1, <3>2 DEF Facts
      <3> QED BY <2>3, <2>5, <3>3
    <2> QED BY <1>2, <1>5, <2>3, <2>5 DEF Kept, Facts
  <1>6. CASE OpenIds(rest) = {}
    <2> DEFINE new == tm.next_id
               tab == FreshTab(NewTabPage, NewTabPage)
    <2>1. m = AddTab(rest, tab) /\ a = Forget(Ask(new, NewTabPage), id)
      BY <1>6
    <2>2. tab.url = NewTabPage
      BY DEF FreshTab
    <2>3. TabSound(tab)
      BY FreshSound
    <2> HIDE DEF tab
    <2>4. /\ ManagerSound(m) /\ OpenIds(m) = {new} /\ m.tabs[new] = tab
      BY <1>2, <1>6, <2>1, <2>3, AddTabSound
    <2>5. m.next_id = new + 1 /\ new \in Nat /\ id # new
      <3>1. rest = [tabs |-> rest.tabs, tab_order |-> rest.tab_order,
                    active_tab_id |-> rest.active_tab_id,
                    next_id |-> rest.next_id, closed_tabs |-> rest.closed_tabs]
        BY <1>2 DEF ManagerSound
      <3>2. AddTab(rest, tab).next_id = rest.next_id + 1
        BY <3>1 DEF AddTab
      <3>3. new \in Nat
        BY DEF Facts, ManagerSound
      <3>4. id \in Nat /\ id < new
        BY OpenBorn DEF Facts
      <3> QED BY <1>2, <2>1, <3>2, <3>3, <3>4
    <2>6. CommandsSound(l, m.next_id) /\ CurrentIn(l, new) = {}
      BY <1>3, <1>4, <2>5, Unborn DEF CommandsSound
    <2>9. DOMAIN a = {new} /\ a[new] = [page |-> NewTabPage, lost |-> FALSE]
      <3>1. OpenIds(tm) = {id}
        BY <1>2, <1>6
      <3> QED BY <2>1, <2>5, <3>1 DEF Forget, Ask, Insert, Facts
    <2> HIDE DEF m, a
    <2>7. /\ tm' = m /\ decoded' = decoded
          /\ CommandsSound(loads', m.next_id) /\ ScreenSound(screen')
          /\ DOMAIN asked' = OpenIds(m)
          /\ \A x \in OpenIds(m) : Right(CurrentIn(l, x), m.tabs[x].url, a[x])
                                   => Right(CurrentIn(loads', x), m.tabs[x].url, asked'[x])
      BY <1>1, <1>3, <2>4, <2>6, <2>9, AfterTabChangeKeeps DEF Facts
    <2>8. Right(CurrentIn(loads', new), m.tabs[new].url, asked'[new])
      <3>1. Right(CurrentIn(l, new), m.tabs[new].url, a[new])
        BY <2>2, <2>4, <2>6, <2>9 DEF Right
      <3> QED BY <2>4, <2>7, <3>1
    <2> QED BY <2>4, <2>7, <2>8 DEF Kept, Facts
  <1> QED BY <1>5, <1>6

LEMMA ActivateKeeps ==
  ASSUME Facts, NEW m, ManagerSound(m), OpenIds(m) = OpenIds(tm), m.next_id = tm.next_id,
         \A x \in OpenIds(tm) : m.tabs[x].url = tm.tabs[x].url, Switch(m)
  PROVE  Kept'
  BY SwitchKeeps DEF Switch

LEMMA ActivateFields ==
  ASSUME NEW m, ManagerSound(m), NEW id \in OpenIds(m)
  PROVE  /\ ManagerSound(Activate(m, id)) /\ OpenIds(Activate(m, id)) = OpenIds(m)
         /\ Activate(m, id).tabs = m.tabs /\ Activate(m, id).next_id = m.next_id
  <1>1. Activate(m, id).next_id = m.next_id
    BY DEF ManagerSound, Activate
  <1> QED BY <1>1, ActivateSound

LEMMA CycleKeeps ==
  ASSUME Facts, NEW step \in Nat, Switch(Cycled(tm, step))
  PROVE  Kept'
  <1> DEFINE m == Cycled(tm, step)
  <1>1. ManagerSound(m) /\ OpenIds(m) = OpenIds(tm) /\ m.tabs = tm.tabs
    BY CycledSound DEF Facts
  <1>2. m.next_id = tm.next_id
    BY DEF Cycled, Activate, Facts, ManagerSound
  <1> HIDE DEF m
  <1>3. Kept'
    BY <1>1, <1>2, ActivateKeeps DEF m
  <1> QED BY <1>3

(* A sleeping or discarded tab is shown again by a fetch of its address.   *)
LEMMA ReviveKeeps ==
  ASSUME Facts, NEW id \in OpenIds(tm), NEW tab, Restful(tm.tabs[id], tab), Revive(id, tab)
  PROVE  Kept'
  <1> DEFINE w == WithTab(tm, id, tab)
             m == Activate(w, id)
             noted == StartedBy(m, loads, screen')
             l == [noted EXCEPT !.commands = loads.commands]
             url == tab.url
  <1>1. /\ tm' = m /\ screen' = PaintedBy(m, loads) /\ decoded' = decoded
        /\ loads' = Start(l, id, "page", url) /\ asked' = Diverted(asked, id, url)
    BY DEF Revive
  <1>2. TabSound(tab) /\ url = tm.tabs[id].url
    BY DEF Restful
  <1>3. url \in Urls
    BY <1>2 DEF TabSound, TabRecords
  <1>4. /\ ManagerSound(w) /\ OpenIds(w) = OpenIds(tm) /\ w.next_id = tm.next_id
        /\ \A x \in OpenIds(tm) : w.tabs[x] = IF x = id THEN tab ELSE tm.tabs[x]
    <2>1. ManagerSound(tm)
      BY DEF Facts
    <2> QED BY <1>2, <2>1, WithTabSound
  <1> HIDE DEF w
  <1>5. /\ ManagerSound(m) /\ OpenIds(m) = OpenIds(tm) /\ m.next_id = tm.next_id
        /\ \A x \in OpenIds(tm) : m.tabs[x].url = tm.tabs[x].url
    BY <1>2, <1>4, ActivateFields
  <1>6. id \in Nat /\ id < tm.next_id /\ LoadsSound(loads) /\ CommandsSound(loads, tm.next_id)
    BY OpenBorn DEF Facts
  <1>12. m.active_tab_id = id
    BY <1>4 DEF Activate, ManagerSound
  <1> HIDE DEF m, url
  <1>7. ScreenSound(screen')
    BY <1>1, RebuiltSound DEF Facts, PaintedBy
  <1>8. /\ LoadsSound(l) /\ CommandsSound(l, tm.next_id)
        /\ \A x : x # id => CurrentIn(l, x) = CurrentIn(loads, x)
    <2>1. LoadsSound(noted) /\ loads.commands \subseteq noted.commands
      BY <1>6, StartedBySound
    <2>2. \A x : x # id => CurrentIn(noted, x) = CurrentIn(loads, x)
      BY <1>6, <1>12, StartElsewhere, ScheduleCurrent DEF StartedBy
    <2> HIDE DEF noted
    <2>3. /\ LoadsSound(l) /\ l.commands = loads.commands
          /\ l.pending_loads = noted.pending_loads
      BY <2>1, FewerCommands
    <2> HIDE DEF l
    <2>4. \A x : x # id => CurrentIn(l, x) = CurrentIn(loads, x)
      BY <2>1, <2>2, <2>3 DEF CurrentIn, NewestIn
    <2> QED BY <1>6, <2>3, <2>4 DEF CommandsSound
  <1> HIDE DEF l
  <1>9. CommandsSound(loads', m.next_id)
    BY <1>1, <1>3, <1>5, <1>6, <1>8, StartCommands
  <1>10. ASSUME NEW t \in OpenIds(m)
         PROVE  Right(CurrentIn(loads', t), m.tabs[t].url, asked'[t])
    <2>1. CASE t = id
      <3> DEFINE wish == [page |-> asked[id].page, lost |-> asked[id].page # url]
      <3>0. ~wish.lost => url = wish.page
        OBVIOUS
      <3> HIDE DEF wish
      <3>1. asked'[t] = wish
        BY <1>1, <2>1 DEF Diverted, Insert, wish
      <3>2. ~asked'[t].lost => url = asked'[t].page
        BY <3>0, <3>1
      <3> QED BY <1>1, <1>8, <2>1, <3>2, StartRight
    <2>2. CASE t # id
      <3>1. asked'[t] = asked[t] /\ m.tabs[t].url = tm.tabs[t].url /\ t \in OpenIds(tm)
        BY <1>1, <1>5, <1>10, <2>2 DEF Diverted, Insert, Facts
      <3>2. CurrentIn(loads', t) = CurrentIn(loads, t)
        BY <1>1, <1>8, <2>2, StartElsewhere
      <3> QED BY <3>1, <3>2 DEF Facts
    <2> QED BY <2>1, <2>2
  <1>11. DOMAIN asked' = OpenIds(m)
    BY <1>1, <1>5 DEF Diverted, Insert, Facts
  <1> QED BY <1>1, <1>5, <1>7, <1>9, <1>10, <1>11 DEF Kept, Facts

LEMMA SelectKeeps ==
  ASSUME Facts, NEW id \in OpenIds(tm), SelectTab(id)
  PROVE  Kept'
  <1> DEFINE tab == tm.tabs[id]
  <1>1. TabSound(tab)
    BY DEF Facts, ManagerSound
  <1>2. Restful(tab, Wake(tab)) /\ Restful(tab, Undiscard(tab))
    BY <1>1, RestfulSound
  <1>3. \/ Revive(id, Wake(tab)) \/ Revive(id, Undiscard(tab))
        \/ Switch(Activate(WithTab(tm, id, Wake(tab)), id))
        \/ Switch(Activate(tm, id))
    BY DEF SelectTab
  <1>4. CASE Revive(id, Wake(tab)) \/ Revive(id, Undiscard(tab))
    BY <1>2, <1>4, ReviveKeeps
  <1>5. CASE Switch(Activate(tm, id))
    <2> DEFINE m == Activate(tm, id)
    <2>1. ManagerSound(m) /\ OpenIds(m) = OpenIds(tm) /\ m.tabs = tm.tabs
          /\ m.next_id = tm.next_id
      BY ActivateFields DEF Facts
    <2> HIDE DEF m
    <2> QED BY <1>5, <2>1, ActivateKeeps DEF m
  <1>6. CASE Switch(Activate(WithTab(tm, id, Wake(tab)), id))
    <2> DEFINE w == WithTab(tm, id, Wake(tab))
               m == Activate(w, id)
    <2>1. TabSound(Wake(tab)) /\ Wake(tab).url = tab.url
      BY <1>2 DEF Restful
    <2>2. /\ ManagerSound(w) /\ OpenIds(w) = OpenIds(tm) /\ w.next_id = tm.next_id
          /\ \A x \in OpenIds(tm) : w.tabs[x] = IF x = id THEN Wake(tab) ELSE tm.tabs[x]
      BY <2>1, WithTabSound DEF Facts
    <2> HIDE DEF w
    <2>3. ManagerSound(m) /\ OpenIds(m) = OpenIds(w) /\ m.tabs = w.tabs
          /\ m.next_id = w.next_id
      BY <2>2, ActivateFields
    <2> HIDE DEF m
    <2>4. \A x \in OpenIds(tm) : m.tabs[x].url = tm.tabs[x].url
      BY <2>1, <2>2, <2>3
    <2>5. Switch(m)
      BY <1>6 DEF m, w
    <2> QED BY <2>2, <2>3, <2>4, <2>5, ActivateKeeps
  <1> QED BY <1>3, <1>4, <1>5, <1>6

LEMMA UserKeeps ==
  ASSUME Facts, UserAction
  PROVE  Kept'
  <1>1. ASSUME NEW url \in WebPages, Navigate(url) \/ NavigateYouTube(url) PROVE Kept'
    BY <1>1, FetchKeeps, Pages DEF Navigate, NavigateYouTube
  <1>2. CASE Back \/ Forward
    <2>1. TabSound(GoBack(ActiveTab(tm))) /\ TabSound(GoForward(ActiveTab(tm)))
      BY TravelSound DEF Facts
    <2> QED BY <1>2, <2>1, TravelKeeps DEF Back, Forward
  <1>3. CASE NextTab \/ PrevTab
    <2>1. 1 \in Nat /\ Len(tm.tab_order) - 1 \in Nat
      <3>1. tm.tab_order \in Seq(Nat) /\ ToSet(tm.tab_order) # {}
        BY DEF Facts, ManagerSound, StripSound
      <3>2. tm.tab_order # <<>>
        BY <3>1 DEF ToSet
      <3> QED BY <3>1, <3>2, EmptySeq
    <2> QED BY <1>3, <2>1, CycleKeeps DEF NextTab, PrevTab
  <1>4. ASSUME NEW id \in OpenIds(tm), SelectTabNumber(id) PROVE Kept'
    <2> DEFINE m == Activate(tm, id)
    <2>1. ManagerSound(m) /\ OpenIds(m) = OpenIds(tm) /\ m.tabs = tm.tabs
          /\ m.next_id = tm.next_id
      BY ActivateFields DEF Facts
    <2>2. Switch(m)
      BY <1>4 DEF SelectTabNumber
    <2> HIDE DEF m
    <2> QED BY <2>1, <2>2, ActivateKeeps
  <1>5. ASSUME NEW url \in SearchPages \cup {NewTabPage}, OpenInternal(url) PROVE Kept'
    BY <1>5, OpenInternalKeeps
  <1>6. ASSUME NEW id \in OpenIds(tm), CloseTab(id) \/ SelectTab(id) PROVE Kept'
    BY <1>6, CloseKeeps, SelectKeeps
  <1>7. CASE Reload \/ NewTab \/ ReopenClosedTab
    BY <1>7, ReloadKeeps, NewTabKeeps, ReopenKeeps
  <1> QED BY <1>1, <1>2, <1>3, <1>4, <1>5, <1>6, <1>7 DEF UserAction
-----------------------------------------------------------------------------
(* Timers: no page and no load changes hands.                              *)
LEMMA RestKeeps ==
  ASSUME Facts, ManagerSound(tm'), OpenIds(tm') = OpenIds(tm), tm'.next_id = tm.next_id,
         \A x \in OpenIds(tm) : tm'.tabs[x].url = tm.tabs[x].url,
         loads' = loads, asked' = asked, ScreenSound(screen'), decoded' \subseteq decoded
  PROVE  Kept'
  BY DEF Facts, Kept

LEMMA RestWith ==
  ASSUME Facts, NEW id \in OpenIds(tm), NEW tab, Restful(tm.tabs[id], tab),
         tm' = WithTab(tm, id, tab),
         loads' = loads, asked' = asked, ScreenSound(screen'), decoded' \subseteq decoded
  PROVE  Kept'
  <1> DEFINE w == WithTab(tm, id, tab)
  <1>1. TabSound(tab) /\ tab.url = tm.tabs[id].url
    BY DEF Restful
  <1>0. ManagerSound(tm)
    BY DEF Facts
  <1>2. /\ ManagerSound(w) /\ OpenIds(w) = OpenIds(tm) /\ w.next_id = tm.next_id
        /\ \A x \in OpenIds(tm) : w.tabs[x] = IF x = id THEN tab ELSE tm.tabs[x]
    BY <1>0, <1>1, WithTabSound
  <1> HIDE DEF w
  <1>3. \A x \in OpenIds(tm) : w.tabs[x].url = tm.tabs[x].url
    BY <1>1, <1>2
  <1>4. tm' = w
    BY DEF w
  <1> QED BY <1>2, <1>3, <1>4, RestKeeps

LEMMA PressureKeeps ==
  ASSUME Facts, MemoryPressureTick
  PROVE  Kept'
  <1>1. PICK S, D : tm' = [tm EXCEPT !.tabs = Relieved(S, D)]
    BY DEF MemoryPressureTick
  <1> DEFINE tabs == Relieved(S, D)
  <1>2. \A id \in OpenIds(tm) : Restful(tm.tabs[id], tabs[id])
    <2> SUFFICES ASSUME NEW id \in OpenIds(tm) PROVE Restful(tm.tabs[id], tabs[id])
      OBVIOUS
    <2>1. TabSound(tm.tabs[id])
      BY DEF Facts, ManagerSound
    <2>2. /\ Restful(tm.tabs[id], Discard(tm.tabs[id])) /\ Restful(tm.tabs[id], Sleep(tm.tabs[id]))
          /\ Restful(tm.tabs[id], tm.tabs[id])
      BY <2>1, RestfulSound DEF Restful
    <2>3. \/ tabs[id] = Discard(tm.tabs[id]) \/ tabs[id] = Sleep(tm.tabs[id])
          \/ tabs[id] = tm.tabs[id]
      BY DEF Relieved
    <2> HIDE DEF tabs
    <2> QED BY <2>2, <2>3
  <1>3. DOMAIN tabs = OpenIds(tm) /\ tm' = [tm EXCEPT !.tabs = tabs]
    BY <1>1 DEF Relieved
  <1> HIDE DEF tabs
  <1>4. /\ tm' = [tabs |-> tm'.tabs, tab_order |-> tm'.tab_order,
                  active_tab_id |-> tm'.active_tab_id,
                  next_id |-> tm'.next_id, closed_tabs |-> tm'.closed_tabs]
        /\ tm'.tabs = tabs /\ tm'.tab_order = tm.tab_order
        /\ tm'.active_tab_id = tm.active_tab_id
        /\ tm'.next_id = tm.next_id /\ tm'.closed_tabs = tm.closed_tabs
    BY <1>3 DEF ManagerSound, Facts
  <1>5. OpenIds(tm') = OpenIds(tm)
    BY <1>3, <1>4 DEF OpenIds
  <1>6. StripSound(tm')
    BY <1>4, <1>5 DEF StripSound, ManagerSound, Facts
  <1>7. ManagerSound(tm')
    BY <1>2, <1>4, <1>5, <1>6 DEF ManagerSound, Facts, Restful
  <1>8. \A x \in OpenIds(tm) : tm'.tabs[x].url = tm.tabs[x].url
    BY <1>2, <1>4 DEF Restful
  <1>9. loads' = loads /\ asked' = asked /\ screen' = screen /\ decoded' \subseteq decoded
    BY DEF MemoryPressureTick
  <1> QED BY <1>4, <1>5, <1>7, <1>8, <1>9, RestKeeps DEF Facts

LEMMA TimerKeeps ==
  ASSUME Facts, Timer
  PROVE  Kept'
  <1>1. CASE PageRuntimeTick
    <2> DEFINE tab == tm.tabs[active]
    <2>1. /\ tm' = WithTab(tm, active, Pump(tab)) /\ tab.runtime # None
          /\ screen' = Rebuilt(tm', screen, decoded)
          /\ loads' = loads /\ decoded' = decoded /\ asked' = asked
      BY <1>1 DEF PageRuntimeTick, Facts
    <2>2. Restful(tab, Pump(tab))
      BY <2>1, RestfulSound DEF Facts
    <2>3. ScreenSound(screen')
      BY <2>1, RebuiltSound DEF Facts
    <2> QED BY <2>1, <2>2, <2>3, RestWith DEF Facts
  <1>2. CASE MemorySaverTick
    <2>1. PICK id \in OpenIds(tm) : tm' = WithTab(tm, id, Sleep(tm.tabs[id]))
      BY <1>2 DEF MemorySaverTick
    <2>2. loads' = loads /\ asked' = asked /\ screen' = screen /\ decoded' \subseteq decoded
      BY <1>2 DEF MemorySaverTick
    <2>3. Restful(tm.tabs[id], Sleep(tm.tabs[id]))
      BY RestfulSound DEF Facts, ManagerSound
    <2> QED BY <2>1, <2>2, <2>3, RestWith DEF Facts
  <1>3. CASE MemoryPressureTick
    BY <1>3, PressureKeeps
  <1>4. CASE DebounceElapsed
    <2>1. /\ tm' = tm /\ loads' = loads /\ decoded' = decoded /\ asked' = asked
          /\ screen' = [screen EXCEPT !.recent = FALSE]
      BY <1>4 DEF DebounceElapsed
    <2>2. ScreenSound(screen')
      BY <2>1 DEF ScreenSound, Facts
    <2> QED BY <2>1, <2>2, RestKeeps DEF Facts
  <1> QED BY <1>1, <1>2, <1>3, <1>4 DEF Timer
-----------------------------------------------------------------------------
(* Answers.  k is the bookkeeping once the answer m was taken in, tab what *)
(* it left in its tab.                                                     *)
LEMMA AnsweredKeeps ==
  ASSUME Facts, NEW m \in loads.commands, NEW k,
         k.commands = loads.commands \ {m}, k.pending_loads = loads.pending_loads,
         ManagerSound(tm'), OpenIds(tm') = OpenIds(tm), tm'.next_id = tm.next_id,
         CommandsSound(loads', tm.next_id), ScreenSound(screen'), decoded' \subseteq Illustrated,
         \A x : CurrentIn(loads', x) = CurrentIn(k, x),
         DOMAIN asked' = OpenIds(tm),
         \A x \in OpenIds(tm) : x # m.tab =>
            asked'[x] = asked[x] /\ tm'.tabs[x].url = tm.tabs[x].url,
         m.tab \in OpenIds(tm) =>
            \/ /\ m.kind = "images" \/ ~NewestIn(loads, m)
               /\ asked'[m.tab] = asked[m.tab] /\ tm'.tabs[m.tab].url = tm.tabs[m.tab].url
            \/ /\ m.kind # "images" /\ NewestIn(loads, m)
               /\ ~asked'[m.tab].lost => tm'.tabs[m.tab].url = asked'[m.tab].page
  PROVE  Kept'
  <1>1. LoadsSound(loads)
    BY DEF Facts
  <1>2. ASSUME NEW t \in OpenIds(tm)
        PROVE  Right(CurrentIn(loads', t), tm'.tabs[t].url, asked'[t])
    <2>1. CASE t # m.tab \/ m.kind = "images" \/ ~NewestIn(loads, m)
      <3>1. CurrentIn(k, t) = CurrentIn(loads, t)
        BY <1>1, <2>1, AnswerCurrent
      <3>2. asked'[t] = asked[t] /\ tm'.tabs[t].url = tm.tabs[t].url
        BY <1>2, <2>1
      <3> QED BY <1>2, <3>1, <3>2 DEF Facts
    <2>2. CASE ~(t # m.tab \/ m.kind = "images" \/ ~NewestIn(loads, m))
      <3>1. CurrentIn(k, t) = {}
        BY <1>1, <2>2, AnswerCurrent
      <3>2. ~asked'[t].lost => tm'.tabs[t].url = asked'[t].page
        BY <1>2, <2>2
      <3>3. CurrentIn(loads', t) = {}
        BY <3>1
      <3> QED BY <3>2, <3>3 DEF Right
    <2> QED BY <2>1, <2>2
  <1> QED BY <1>2 DEF Kept, Facts

(* An answer that lands, and what the tab showed when it was asked for.    *)
LEMMA LandsFacts ==
  ASSUME Facts, NEW m \in loads.commands, NEW kind, kind # "images", Lands(m, kind)
  PROVE  /\ m.kind = kind /\ NewestIn(loads, m) /\ m.tab \in OpenIds(tm)
         /\ TabSound(tm.tabs[m.tab]) /\ m.target \in Urls
         /\ kind = "search" => m.target \in SearchPages /\ m.target = tm.tabs[m.tab].url
         /\ kind = "youtube" => m.target \in YouTubePages
         /\ ~asked[m.tab].lost => m.target = asked[m.tab].page
         /\ Landed(m).commands = loads.commands \ {m}
         /\ Landed(m).pending_loads = loads.pending_loads
         /\ Bookkeeping(Landed(m))
         /\ LoadsSound(Landed(m)) /\ CommandsSound(Landed(m), tm.next_id)
  <1>1. LoadsSound(loads) /\ Bookkeeping(loads)
    BY DEF Facts, LoadsSound
  <1>2. m.kind = kind /\ IsNewest(m) /\ NewestIn(loads, m) /\ m.tab \in OpenIds(tm)
    BY DEF Lands, IsNewest, NewestIn
  <1>3. m \in CurrentIn(loads, m.tab)
    BY <1>2 DEF CurrentIn
  <1>4. /\ kind = "search" => m.target = tm.tabs[m.tab].url
        /\ ~asked[m.tab].lost => m.target = asked[m.tab].page
    BY <1>2, <1>3 DEF Facts, Right
  <1>5. /\ Landed(m).commands = loads.commands \ {m}
        /\ Landed(m).pending_loads = loads.pending_loads /\ Bookkeeping(Landed(m))
    BY <1>1, LandedFields
  <1>6. LoadsSound(Landed(m))
    BY <1>1, <1>2, LandedSound
  <1>7. CommandsSound(Landed(m), tm.next_id)
    BY <1>5 DEF Facts, CommandsSound
  <1>8. CommandSound(m, tm.next_id)
    BY DEF Facts, CommandsSound
  <1>9. TabSound(tm.tabs[m.tab])
    BY <1>2 DEF Facts, ManagerSound
  <1> QED BY <1>2, <1>4, <1>5, <1>6, <1>7, <1>8, <1>9 DEF CommandSound

(* A page or an error document appears in its tab under the asked address. *)
LEMMA ArrivedKeeps ==
  ASSUME Facts, NEW m \in loads.commands, NEW kind, kind \in {"page", "youtube"},
         Lands(m, kind), NEW tab, TabSound(tab), tab.url = m.target,
         tm' = WithTab(tm, m.tab, tab), asked' = asked, decoded' = decoded,
         CommandsSound(loads', tm.next_id), ScreenSound(screen'),
         \A x : CurrentIn(loads', x) = CurrentIn(Landed(m), x)
  PROVE  Kept'
  <1> DEFINE w == WithTab(tm, m.tab, tab)
             k == Landed(m)
  <1>1. /\ ManagerSound(w) /\ OpenIds(w) = OpenIds(tm) /\ w.next_id = tm.next_id
        /\ \A x \in OpenIds(tm) : w.tabs[x] = IF x = m.tab THEN tab ELSE tm.tabs[x]
    <2>1. ManagerSound(tm)
      BY DEF Facts
    <2> QED BY <2>1, WithTabSound
  <1> HIDE DEF w
  <1>2. /\ m.kind # "images" /\ NewestIn(loads, m) /\ m.tab \in OpenIds(tm)
        /\ ~asked[m.tab].lost => m.target = asked[m.tab].page
        /\ k.commands = loads.commands \ {m} /\ k.pending_loads = loads.pending_loads
    BY LandsFacts
  <1> HIDE DEF k
  <1>3. tm' = w /\ (~asked[m.tab].lost => w.tabs[m.tab].url = asked[m.tab].page)
        /\ \A x \in OpenIds(tm) : x # m.tab => w.tabs[x] = tm.tabs[x]
    BY <1>1, <1>2 DEF w
  <1>4. DOMAIN asked' = OpenIds(tm) /\ decoded' \subseteq Illustrated
    BY DEF Facts
  <1>5. \A x : CurrentIn(loads', x) = CurrentIn(k, x)
    BY DEF k
  <1> QED BY <1>1, <1>2, <1>3, <1>4, <1>5, AnsweredKeeps

LEMMA RepaintFields ==
  ASSUME NEW s, NEW d, NEW c,
         s = [dom |-> s.dom, complete |-> s.complete, last_url |-> s.last_url,
              recent |-> s.recent]
  PROVE  [s EXCEPT !.dom = d, !.complete = c]
           = [dom |-> d, complete |-> c, last_url |-> s.last_url, recent |-> s.recent]
  <1> DEFINE D == {"dom", "complete", "last_url", "recent"}
             r == [x \in D |-> IF x = "dom" THEN d ELSE IF x = "complete" THEN c ELSE s[x]]
  <1>1. DOMAIN s = D /\ s = [x \in D |-> s[x]]
    OBVIOUS
  <1>2. [s EXCEPT !.dom = d, !.complete = c] = r
    BY <1>1
  <1>3. [dom |-> d, complete |-> c, last_url |-> s.last_url, recent |-> s.recent] = r
    OBVIOUS
  <1> QED BY <1>2, <1>3

LEMMA RepaintSound ==
  ASSUME NEW s, ScreenSound(s), NEW d, NEW c, c \/ d \in Illustrated
  PROVE  ScreenSound([s EXCEPT !.dom = d, !.complete = c])
  <1> DEFINE r == [s EXCEPT !.dom = d, !.complete = c]
  <1>1. r = [dom |-> d, complete |-> c, last_url |-> s.last_url, recent |-> s.recent]
    BY RepaintFields DEF ScreenSound
  <1> HIDE DEF r
  <1>2. ScreenSound(r)
    BY <1>1 DEF ScreenSound
  <1> QED BY <1>2 DEF r

LEMMA PageLoadedKeeps ==
  ASSUME Facts, NEW m \in loads.commands, PageLoaded(m)
  PROVE  Kept'
  <1> DEFINE tab == CommitPage(tm.tabs[m.tab], m.target)
             new == Painted(tab, decoded)
             scr == [screen EXCEPT !.dom = new.dom, !.complete = new.complete]
  <1>1. /\ Lands(m, "page") /\ tm' = WithTab(tm, m.tab, tab)
        /\ decoded' = decoded /\ asked' = asked
        /\ \/ screen' = scr /\ loads' = ScheduleImages(Landed(m), active, scr)
           \/ screen' = screen /\ loads' = Landed(m)
    BY DEF PageLoaded
  <1>2. /\ TabSound(tm.tabs[m.tab]) /\ m.target \in Urls
        /\ LoadsSound(Landed(m)) /\ CommandsSound(Landed(m), tm.next_id)
    BY <1>1, LandsFacts
  <1>3. TabSound(tab) /\ tab.url = m.target
    BY <1>2, CommitPageSound
  <1>4. new.complete \/ new.dom \in Illustrated
    BY DEF Painted
  <1> HIDE DEF tab, new
  <1>5. ScreenSound(screen)
    BY DEF Facts
  <1>6. ScreenSound(scr)
    BY <1>4, <1>5, RepaintSound
  <1> HIDE DEF scr
  <1>7. /\ CommandsSound(loads', tm.next_id)
        /\ \A x : CurrentIn(loads', x) = CurrentIn(Landed(m), x)
    <2>1. active \in Nat /\ active < tm.next_id
      BY DEF Facts
    <2> QED BY <1>1, <1>2, <1>5, <1>6, <2>1, ScheduleCommands, ScheduleCurrent
  <1> QED BY <1>1, <1>3, <1>5, <1>6, <1>7, ArrivedKeeps

LEMMA LoadErrorKeeps ==
  ASSUME Facts, NEW m \in loads.commands, LoadError(m)
  PROVE  Kept'
  <1> DEFINE tab == CommitError(tm.tabs[m.tab], m.target)
             w == WithTab(tm, m.tab, tab)
  <1>1. /\ Lands(m, "page") /\ tm' = w /\ decoded' = decoded /\ asked' = asked
        /\ loads' = Landed(m)
        /\ screen' = Rebuilt(w, screen, decoded) \/ screen' = screen
    BY DEF LoadError
  <1>2. /\ TabSound(tm.tabs[m.tab]) /\ m.target \in Urls
        /\ CommandsSound(Landed(m), tm.next_id)
    BY <1>1, LandsFacts
  <1>3. TabSound(tab) /\ tab.url = m.target
    BY <1>2, CommitErrorSound
  <1>4. ScreenSound(screen')
    BY <1>1, RebuiltSound DEF Facts
  <1> HIDE DEF tab
  <1> QED BY <1>1, <1>2, <1>3, <1>4, ArrivedKeeps

LEMMA SearchSettledKeeps ==
  ASSUME Facts, NEW m \in loads.commands, SearchSettled(m)
  PROVE  Kept'
  <1> DEFINE k == Landed(m)
  <1>1. PICK s : /\ Lands(m, "search") /\ loads' = [k EXCEPT !.search_state = s]
                 /\ tm' = tm /\ decoded' = decoded /\ asked' = asked
                 /\ screen' = Rebuilt(tm, screen, decoded) \/ screen' = screen
    BY DEF SearchSettled
  <1>2. /\ m.kind # "images" /\ NewestIn(loads, m) /\ m.tab \in OpenIds(tm)
        /\ ~asked[m.tab].lost => tm.tabs[m.tab].url = asked[m.tab].page
        /\ k.commands = loads.commands \ {m} /\ k.pending_loads = loads.pending_loads
        /\ Bookkeeping(k) /\ CommandsSound(k, tm.next_id)
    BY <1>1, LandsFacts
  <1>3. ScreenSound(screen')
    BY <1>1, RebuiltSound DEF Facts
  <1> HIDE DEF k
  <1>4. loads'.commands = k.commands /\ loads'.pending_loads = k.pending_loads
    BY <1>1, <1>2 DEF Bookkeeping
  <1>5. /\ CommandsSound(loads', tm.next_id)
        /\ \A x : CurrentIn(loads', x) = CurrentIn(k, x)
    BY <1>2, <1>4 DEF CommandsSound, CurrentIn, NewestIn
  <1>6. /\ ManagerSound(tm') /\ OpenIds(tm') = OpenIds(tm) /\ tm'.next_id = tm.next_id
        /\ DOMAIN asked' = OpenIds(tm) /\ decoded' \subseteq Illustrated
    BY <1>1 DEF Facts
  <1> QED BY <1>1, <1>2, <1>3, <1>5, <1>6, AnsweredKeeps

LEMMA YouTubeKeeps ==
  ASSUME Facts, NEW m \in loads.commands, YouTubeSearchLoaded(m) \/ YouTubeSearchFailed(m)
  PROVE  Kept'
  <1> DEFINE k == Landed(m)
  <1>1. Lands(m, "youtube") /\ loads' = Landed(m) /\ decoded' = decoded
    BY DEF YouTubeSearchLoaded, YouTubeSearchFailed
  <1>2. /\ m.kind # "images" /\ NewestIn(loads, m) /\ m.tab \in OpenIds(tm)
        /\ m.target \in Urls
        /\ k.commands = loads.commands \ {m} /\ k.pending_loads = loads.pending_loads
        /\ CommandsSound(k, tm.next_id)
    BY <1>1, LandsFacts
  <1>3. CASE YouTubeSearchLoaded(m) /\ m.tab = active
    <2> DEFINE tab == CommitHtml(ActiveTab(tm), m.target)
    <2>1. /\ tm' = WithTab(tm, m.tab, tab) /\ asked' = asked
          /\ screen' = Rebuilt(WithTab(tm, m.tab, tab), screen, decoded)
      BY <1>3 DEF YouTubeSearchLoaded
    <2>2. TabSound(tab) /\ tab.url = m.target
      BY <1>2, CommitHtmlSound DEF Facts
    <2>3. ScreenSound(screen')
      BY <2>1, RebuiltSound DEF Facts
    <2> HIDE DEF tab
    <2> QED BY <1>1, <1>2, <2>1, <2>2, <2>3, ArrivedKeeps
  <1>4. CASE ~(YouTubeSearchLoaded(m) /\ m.tab = active)
    <2>1. /\ tm' = tm /\ screen' = screen
          /\ asked' = Diverted(asked, m.tab, tm.tabs[m.tab].url)
      BY <1>4 DEF YouTubeSearchLoaded, YouTubeSearchFailed
    <2>2. /\ DOMAIN asked' = OpenIds(tm)
          /\ \A x \in OpenIds(tm) : x # m.tab => asked'[x] = asked[x]
          /\ ~asked'[m.tab].lost => tm.tabs[m.tab].url = asked'[m.tab].page
      BY <1>2, <2>1 DEF Diverted, Insert, Facts
    <2>3. /\ ManagerSound(tm') /\ OpenIds(tm') = OpenIds(tm) /\ tm'.next_id = tm.next_id
          /\ ScreenSound(screen') /\ decoded' \subseteq Illustrated
      BY <1>1, <2>1 DEF Facts
    <2> HIDE DEF k
    <2>4. loads' = k
      BY <1>1 DEF k
    <2> QED BY <1>2, <2>1, <2>2, <2>3, <2>4, AnsweredKeeps
  <1> QED BY <1>3, <1>4

(* An answer that is dropped, and an image batch.                          *)
LEMMA DroppedKeeps ==
  ASSUME Facts, NEW m \in loads.commands, DropStale(m) \/ ImagesLoaded(m)
  PROVE  Kept'
  <1>1. /\ loads' = [loads EXCEPT !.commands = @ \ {m}] /\ tm' = tm /\ asked' = asked
        /\ m.kind = "images" \/ ~NewestIn(loads, m) \/ m.tab \notin OpenIds(tm)
    BY DEF DropStale, ImagesLoaded, IsNewest, NewestIn
  <1>2. loads'.commands = loads.commands \ {m} /\ loads'.pending_loads = loads.pending_loads
    BY <1>1 DEF Facts, LoadsSound, Bookkeeping
  <1>3. ScreenSound(screen')
    BY RebuiltSound DEF DropStale, ImagesLoaded, Facts
  <1>4. decoded' \subseteq Illustrated
    <2>1. CommandSound(m, tm.next_id) /\ decoded \subseteq Illustrated
      BY DEF Facts, CommandsSound
    <2>2. decoded' = decoded \/ (m.kind = "images" /\ decoded' = decoded \cup {m.target})
      BY DEF DropStale, ImagesLoaded
    <2> QED BY <2>1, <2>2 DEF CommandSound
  <1>5. CommandsSound(loads', tm.next_id)
    BY <1>2 DEF CommandsSound, Facts
  <1>6. ManagerSound(tm') /\ OpenIds(tm') = OpenIds(tm) /\ tm'.next_id = tm.next_id
        /\ DOMAIN asked' = OpenIds(tm)
    BY <1>1 DEF Facts
  <1> QED BY <1>1, <1>2, <1>3, <1>4, <1>5, <1>6, AnsweredKeeps

LEMMA StepKeeps ==
  ASSUME NavInv, [Next]_vars
  PROVE  NavInv'
  <1>1. Facts
    BY FactsHold
  <1>2. Kept'
    <2>1. CASE UserAction
      BY <1>1, <2>1, UserKeeps
    <2>2. CASE Timer
      BY <1>1, <2>2, TimerKeeps
    <2>3. CASE Answered
      <3>1. PICK m \in loads.commands : Answer(m)
        BY <2>3 DEF Answered
      <3> QED BY <1>1, <3>1, DroppedKeeps, PageLoadedKeeps, LoadErrorKeeps,
                 SearchSettledKeeps, YouTubeKeeps DEF Answer
    <2>4. CASE UNCHANGED vars
      BY <1>1, <2>4 DEF vars, Facts, Kept
    <2> QED BY <2>1, <2>2, <2>3, <2>4 DEF Next
  <1>3. LoadsSound(loads')
    BY LoadsStep DEF NavInv
  <1>4. (Kept <=> Typed /\ AskedSound)'
    BY KeptIs, PTL
  <1> QED BY <1>2, <1>3, <1>4 DEF NavInv

LEMMA InitKeeps == Init => NavInv
  <1> SUFFICES ASSUME Init PROVE NavInv
    OBVIOUS
  <1> DEFINE tab == FreshTab(NewTabPage, NewTabPage)
             wish == [page |-> NewTabPage, lost |-> FALSE]
  <1>1. ManagerSound(EmptyManager) /\ EmptyManager.next_id = 1 /\ OpenIds(EmptyManager) = {}
    BY NavigationAssumption
       DEF EmptyManager, ManagerSound, StripSound, OpenIds, ToSet, IsInjective
  <1>2. tab.url = NewTabPage
    BY DEF FreshTab
  <1>3. TabSound(tab)
    BY FreshSound
  <1> HIDE DEF tab
  <1>4. tm = AddTab(EmptyManager, tab)
    BY DEF Init, tab
  <1>5. ManagerSound(tm) /\ OpenIds(tm) = {1} /\ tm.tabs[1] = tab
    BY <1>1, <1>3, <1>4, AddTabSound
  <1>6. loads.commands = {} /\ LoadsSound(loads)
    BY LoadsInit DEF Init
  <1>7. ScreenSound(screen) /\ decoded = {} /\ asked = [t \in {1} |-> wish]
    BY DEF Init, ScreenSound
  <1>8. Kept
    BY <1>2, <1>5, <1>6, <1>7 DEF Kept, CommandsSound, Right, CurrentIn
  <1> QED BY <1>6, <1>8, KeptIs DEF NavInv

LEMMA NavigationInvariant == Spec => []NavInv
  BY InitKeeps, StepKeeps, PTL DEF Spec
-----------------------------------------------------------------------------
(* What the invariant gives.                                               *)

(* A fetch or search that is no longer its tab's newest has had its token  *)
(* cancelled, whatever tabs were opened, closed, woken or navigated since. *)
THEOREM CancellationSafety == Spec => []SupersededIsCancelled
  <1>1. Init => LoadsSound(loads)
    BY LoadsInit
  <1>2. LoadsSound(loads) /\ [Next]_vars => LoadsSound(loads)'
    BY LoadsStep
  <1>3. LoadsSound(loads) => SupersededIsCancelled
    BY DEF LoadsSound, SupersededIsCancelled, IsNewest, NewestIn
  <1> QED BY <1>1, <1>2, <1>3, PTL DEF Spec

(* Every variable has its type, the strip lists each open tab once and one *)
(* of them is active, through any mix of opened, closed and reopened tabs. *)
THEOREM TypeCorrect == Spec => []TypeOK
  <1>1. NavInv => TypeOK
    <2> SUFFICES ASSUME NavInv PROVE TypeOK
      OBVIOUS
    <2>1. ManagerSound(tm) /\ OpenIds(tm) # {}
      BY DEF NavInv, Typed
    <2>2. \A id \in OpenIds(tm) : tm.tabs[id] \in TabRecords
      BY <2>1 DEF ManagerSound, TabSound
    <2>3. StripSound(tm)
      BY <2>1 DEF ManagerSound
    <2>4. \A m \in loads.commands : /\ m.kind \in {"page", "search", "youtube", "images"}
                                    /\ m.seq \in 1..loads.load_seq /\ m.target \in Urls
      BY DEF NavInv, Typed, CommandSound, LoadsSound
    <2>5. loads.load_seq \in Nat /\ decoded \subseteq Illustrated /\ DOMAIN asked = OpenIds(tm)
      BY DEF NavInv, Typed, LoadsSound
    <2> QED BY <2>1, <2>2, <2>3, <2>4, <2>5 DEF TypeOK
  <1> QED BY <1>1, NavigationInvariant, PTL

(* The history cursor is on the shown page unless it is an error page, no  *)
(* entry follows itself, and the stack stays within its bound, whatever    *)
(* mix of loads, failures, Back and Forward went before.                   *)
THEOREM HistorySafety == Spec => []HistorySound
  <1>1. NavInv => HistorySound
    <2> SUFFICES ASSUME NavInv, NEW t \in OpenIds(tm)
                 PROVE  LET h == tm.tabs[t].history IN
                        /\ Len(h) <= MaxHistory /\ tm.tabs[t].history_pos \in DOMAIN h
                        /\ ~tm.tabs[t].is_error => h[tm.tabs[t].history_pos].url = tm.tabs[t].url
                        /\ \A i \in 1..(Len(h) - 1) : h[i].url # h[i + 1].url
      BY DEF HistorySound
    <2>1. TabSound(tm.tabs[t])
      BY DEF NavInv, Typed, ManagerSound
    <2>2. DOMAIN tm.tabs[t].history = 1..Len(tm.tabs[t].history) /\ MaxHistory \in Nat
      BY <2>1, LenProperties, TabAssumption DEF TabSound
    <2>3. /\ Len(tm.tabs[t].history) \in 1..MaxHistory
          /\ tm.tabs[t].history_pos \in 1..Len(tm.tabs[t].history)
          /\ ~tm.tabs[t].is_error =>
               tm.tabs[t].history[tm.tabs[t].history_pos].url = tm.tabs[t].url
          /\ \A i \in 1..(Len(tm.tabs[t].history) - 1) :
               tm.tabs[t].history[i].url # tm.tabs[t].history[i + 1].url
      BY <2>1 DEF TabSound
    <2> QED BY <2>2, <2>3
  <1> QED BY <1>1, NavigationInvariant, PTL

(* Whatever the pages, tabs and searches: what the user asked a tab for is *)
(* on it, or a load for it is the tab's newest, unless the browser itself  *)
(* put the tab's own address in its place (Revive, after_tab_change and    *)
(* the answers of a YouTube search).                                       *)
THEOREM AskedPageSafety == Spec => []AskedPageArrives
  <1>1. NavInv => AskedPageArrives
    <2> SUFFICES ASSUME NavInv, NEW t \in OpenIds(tm), ~asked[t].lost,
                        tm.tabs[t].url # asked[t].page
                 PROVE  \E m \in Current(t) : m.target = asked[t].page
      BY DEF AskedPageArrives, OnItsWay
    <2>1. Right(Current(t), tm.tabs[t].url, asked[t])
      BY DEF NavInv, AskedSound
    <2> QED BY <2>1 DEF Right
  <1> QED BY <1>1, NavigationInvariant, PTL
-----------------------------------------------------------------------------
(* The live player.                                                        *)

(* A media element that an asset was attached to.                          *)
Elements == [ready : 0..4, paused : BOOLEAN, ended : BOOLEAN, time : 0..Duration,
             duration : {Duration}]

Clocks == [anchor : 0..Duration, frames : Nat]

PlayerTypes ==
  /\ media \in Elements
  /\ clock \in Clocks /\ running \in BOOLEAN /\ reached \in BOOLEAN
  /\ video \subseteq Pictures /\ audio \subseteq Sounds
  /\ shown \in Pictures \cup {Duration} /\ rewound \in 0..Duration /\ ticks \in Nat

(* Both clocks have counted the ticks since the last seek, from positions  *)
(* that are a unit apart at most.                                          *)
Counted(start) ==
  /\ clock.anchor = rewound /\ clock.frames = ticks * Player!FramesPerTick
  /\ media.time = start + ticks * Period

InStep == \E start \in Player!Truncated(rewound) : Counted(start)

(* The element is at its end only when it has come there since the last    *)
(* seek, no picture from before that seek is queued, and the pictures      *)
(* follow the controls.                                                    *)
PlayerInv ==
  /\ PlayerTypes
  /\ media.ended => reached
  /\ media.time = Duration => reached
  /\ \A t \in video : t >= rewound
  /\ ~reached => InStep
  /\ PicturesFollowControls

LEMMA PlayerConstants ==
  /\ Duration \in Nat \ {0} /\ Period \in Nat \ {0} /\ Second \in Nat \ {0} /\ Rate \in Nat \ {0}
  /\ Tolerance \in Nat /\ Pictures \subseteq 0..(Duration - 1) /\ Sounds \subseteq 0..(Duration - 1)
  BY PlaybackAssumption DEF Player!PlaybackAssumption

LEMMA Quotient ==
  ASSUME NEW a \in Nat, NEW b \in Nat \ {0}
  PROVE  a \div b \in Nat /\ (a \div b) * b <= a /\ a < (a \div b) * b + b
  OBVIOUS

LEMMA QuotientGrows ==
  ASSUME NEW a \in Nat, NEW c \in Nat, a <= c, NEW b \in Nat \ {0}
  PROVE  a \div b <= c \div b
  <1> DEFINE p == a \div b
             q == c \div b
  <1>1. p \in Nat /\ p * b <= a /\ q \in Nat /\ c < q * b + b
    BY Quotient
  <1> HIDE DEF p, q
  <1>2. SUFFICES ASSUME q + 1 <= p PROVE FALSE
    BY <1>1 DEF p, q
  <1>3. (q + 1) * b <= p * b
    BY <1>1, <1>2
  <1>4. (q + 1) * b = q * b + b
    BY <1>1
  <1> QED BY <1>1, <1>3, <1>4

LEMMA FramesAreNatural == Player!FramesPerTick \in Nat
  <1>1. Period * Rate \in Nat
    BY PlayerConstants
  <1> QED BY <1>1, PlayerConstants, Quotient DEF Player!FramesPerTick

LEMMA PositionIsNatural ==
  ASSUME NEW c \in Clocks
  PROVE  Player!Position(c) \in Nat /\ Player!Position(c) >= c.anchor
  <1>1. c.frames * Second \in Nat /\ c.anchor \in Nat
    BY PlayerConstants DEF Clocks
  <1> DEFINE q == (c.frames * Second) \div Rate
  <1>2. q \in Nat
    BY <1>1, PlayerConstants, Quotient
  <1> HIDE DEF q
  <1>3. c.anchor + q \in Nat /\ c.anchor + q >= c.anchor
    BY <1>1, <1>2
  <1> QED BY <1>3 DEF Player!Position, q

(* Each conversion cuts off less than one unit of its result: with ticks   *)
(* of the period, in frames, and frames, in units of time.                 *)
LEMMA Lag ==
  ASSUME NEW n \in Nat, NEW c \in Clocks, c.frames = n * Player!FramesPerTick,
         NEW start \in Nat, start <= c.anchor, c.anchor <= start + 1
  PROVE  /\ Player!Position(c) <= start + n * Period + 1
         /\ (start + n * Period) * Rate < Player!Position(c) * Rate + n * Second + Rate
  <1> DEFINE F == Player!FramesPerTick
             a == c.frames * Second
             q == a \div Rate
             N == n * Period
             S == n * Second
  <1>1. /\ Period \in Nat \ {0} /\ Second \in Nat \ {0} /\ Rate \in Nat \ {0} /\ F \in Nat
        /\ c.anchor \in Nat /\ c.frames \in Nat /\ Duration \in Nat
    BY PlayerConstants, FramesAreNatural DEF Clocks
  <1>2. /\ F * Second <= Period * Rate
        /\ Period * Rate < F * Second + Second
    <2>1. Period * Rate \in Nat
      BY <1>1
    <2> QED BY <1>1, <2>1, Quotient DEF Player!FramesPerTick
  <1>3. a \in Nat /\ N \in Nat /\ S \in Nat
    BY <1>1
  <1>4. q \in Nat /\ q * Rate <= a /\ a < q * Rate + Rate
    BY <1>1, <1>3, Quotient
  <1>5. a = n * (F * Second)
    BY <1>1
  <1>6. N * Rate = n * (Period * Rate)
    BY <1>1
  <1> DEFINE x == F * Second
             y == Period * Rate
  <1>7. x \in Nat /\ y \in Nat /\ x <= y /\ y <= x + Second
    BY <1>1, <1>2
  <1> HIDE DEF F, x, y
  <1>8. n * x <= n * y /\ n * y <= n * x + S
    <2>1. n * x <= n * y
      BY <1>7
    <2>2. n * y <= n * (x + Second)
      BY <1>1, <1>7
    <2>3. n * (x + Second) = n * x + S
      BY <1>1, <1>7
    <2> QED BY <2>1, <2>2, <2>3
  <1>9. a <= N * Rate /\ N * Rate <= a + S
    BY <1>5, <1>6, <1>8 DEF x, y, F
  <1> HIDE DEF a, N, S, q
  <1>10. q <= N
    <2>1. q * Rate <= N * Rate
      <3>1. q * Rate \in Nat /\ N * Rate \in Nat
        BY <1>1, <1>3, <1>4
      <3> QED BY <1>3, <1>4, <1>9, <3>1
    <2>2. SUFFICES ASSUME N + 1 <= q PROVE FALSE
      BY <1>3, <1>4
    <2>3. (N + 1) * Rate <= q * Rate
      BY <1>1, <1>3, <1>4, <2>2
    <2>4. (N + 1) * Rate = N * Rate + Rate
      BY <1>1, <1>3
    <2> QED BY <1>1, <1>3, <1>4, <2>1, <2>3, <2>4
  <1>11. N * Rate < q * Rate + S + Rate
    <2>1. q * Rate \in Nat /\ N * Rate \in Nat
      BY <1>1, <1>3, <1>4
    <2> QED BY <1>1, <1>3, <1>4, <1>9, <2>1
  <1>12. Player!Position(c) = c.anchor + q
    BY DEF Player!Position, q, a
  <1>13. Player!Position(c) <= start + N + 1
    BY <1>1, <1>3, <1>4, <1>10, <1>12
  <1>14. (start + N) * Rate < (c.anchor + q) * Rate + S + Rate
    <2>1. (start + N) * Rate = start * Rate + N * Rate
          /\ (c.anchor + q) * Rate = c.anchor * Rate + q * Rate
      BY <1>1, <1>3, <1>4
    <2>2. start * Rate <= c.anchor * Rate
      BY <1>1
    <2>3. {start * Rate, N * Rate, c.anchor * Rate, q * Rate} \subseteq Nat
      BY <1>1, <1>3, <1>4
    <2> QED BY <1>1, <1>3, <1>11, <2>1, <2>2, <2>3
  <1> QED BY <1>12, <1>13, <1>14 DEF N, S

(* In step the pictures are neither ahead nor far behind.                  *)
Near == /\ Player!Position(clock) <= media.time + 1
        /\ media.time * Rate < Player!Position(clock) * Rate + ticks * Second + Rate

LEMMA InStepIsNear ==
  ASSUME clock \in Clocks, ticks \in Nat, rewound \in 0..Duration, InStep
  PROVE  Near
  <1>1. PICK start \in Player!Truncated(rewound) : Counted(start)
    BY DEF InStep
  <1>2. start \in Nat /\ start <= rewound /\ rewound <= start + 1
    BY PlayerConstants DEF Player!Truncated
  <1> QED BY <1>1, <1>2, Lag DEF Near, Counted

(* The frame a tick shows is the earliest of those that are due.           *)
LEMMA LeastOfNaturals ==
  ASSUME NEW S, S \subseteq Nat, S # {}
  PROVE  Player!Min(S) \in S /\ \A t \in S : Player!Min(S) <= t
  <1>1. PICK x \in S : \A y \in S : x <= y
    BY Least
  <1> QED BY <1>1 DEF Player!Min

(* A decoded asset is buffered up to its end.                              *)
LEMMA PositionInside ==
  ASSUME NEW time \in 0..Duration
  PROVE  Player!Element!Ahead(Player!Whole, time) = 0 => time = Duration
  <1> SUFFICES ASSUME time < Duration
               PROVE  Player!Element!Ahead(Player!Whole, time) # 0
    BY PlaybackAssumption DEF Player!PlaybackAssumption
  <1> DEFINE holding == {i \in DOMAIN Player!Whole :
                Player!Whole[i].from <= time /\ time < Player!Whole[i].to}
  <1>1. holding = {1}
    BY DEF Player!Whole
  <1>2. (CHOOSE i \in holding : \A j \in holding : i <= j) = 1
    BY <1>1
  <1>3. Player!Whole[1].to - time # 0
    BY PlaybackAssumption DEF Player!Whole, Player!PlaybackAssumption
  <1> QED BY <1>1, <1>2, <1>3 DEF Player!Element!Ahead
(* YouTubePlaybackPrepared.                                                *)
LEMMA PlayerStart == Player!Init => PlayerInv
  <1> SUFFICES ASSUME Player!Init PROVE PlayerInv
    OBVIOUS
  <1>1. media = [ready |-> 4, paused |-> TRUE, ended |-> FALSE, time |-> 0, duration |-> Duration]
    BY DEF Player!Init, Player!Element!Decoded, Player!Element!Reset, Player!Element!HaveNothing,
       Player!Element!HaveEnoughData, Player!Element!NoDuration
  <1>2. /\ Duration \in Nat \ {0} /\ Pictures \subseteq 0..(Duration - 1)
        /\ Sounds \subseteq 0..(Duration - 1)
    BY PlaybackAssumption DEF Player!PlaybackAssumption
  <1>3. /\ clock = [anchor |-> 0, frames |-> 0]
        /\ running = FALSE /\ video = Pictures /\ audio = Sounds
        /\ shown = Duration /\ reached = FALSE /\ rewound = 0 /\ ticks = 0
    BY DEF Player!Init, Player!NoPicture
  <1>4. PlayerTypes
    <2>1. media \in Elements
      BY <1>1, <1>2 DEF Elements
    <2>2. clock \in Clocks /\ shown \in Pictures \cup {Duration} /\ rewound \in 0..Duration
          /\ ticks \in Nat
      BY <1>2, <1>3 DEF Clocks
    <2>3. running \in BOOLEAN /\ reached \in BOOLEAN
      BY <1>3
    <2>4. video \subseteq Pictures /\ audio \subseteq Sounds
      BY <1>3
    <2> QED BY <2>1, <2>2, <2>3, <2>4 DEF PlayerTypes
  <1>6. InStep
    <2>1. 0 \in Player!Truncated(rewound)
      BY <1>3 DEF Player!Truncated
    <2>2. clock.anchor = 0 /\ clock.frames = 0 /\ media.time = 0
      BY <1>1, <1>3
    <2>3. 0 * Player!FramesPerTick = 0 /\ 0 + 0 * Period = 0
      BY FramesAreNatural, PlayerConstants
    <2> QED BY <1>3, <2>1, <2>2, <2>3 DEF InStep, Counted
  <1>7. Near
    BY <1>4, <1>6, InStepIsNear DEF PlayerTypes
  <1>5. PicturesFollowControls
    <2>1. media.paused = TRUE
      BY <1>1
    <2>2. audio = {t \in Sounds : t >= rewound}
      <3>1. \A t \in Sounds : t >= 0
        BY <1>2
      <3>2. Sounds = {t \in Sounds : t >= 0}
        BY <3>1
      <3> QED BY <1>3, <3>2
    <2> QED BY <1>3, <1>7, <2>1, <2>2 DEF Near, PicturesFollowControls,
          Player!PicturesFollowControls, Player!NoPicture
  <1> QED BY <1>1, <1>2, <1>3, <1>4, <1>5, <1>6 DEF PlayerInv

(* What the fields of an element are.                                      *)
LEMMA ElementFields ==
  ASSUME NEW e \in Elements
  PROVE  /\ e.ready \in 0..4 /\ e.paused \in BOOLEAN /\ e.ended \in BOOLEAN
         /\ e.time \in 0..Duration /\ e.duration = Duration
         /\ Duration \in Nat /\ Duration # 0 /\ e.time \in Nat /\ e.time <= Duration
  BY PlaybackAssumption DEF Elements, Player!PlaybackAssumption

LEMMA ElementIs ==
  ASSUME NEW e \in Elements
  PROVE  e = [ready |-> e.ready, paused |-> e.paused, ended |-> e.ended, time |-> e.time,
              duration |-> e.duration]
  BY DEF Elements

(* A tick moves a playing element by a period, until it is at its end: a        *)
(* position before the end is always buffered.                             *)
LEMMA TickedElement ==
  ASSUME NEW e \in Elements, NEW n, n = Player!Element!Ticked(e, Player!Whole, Period)
  PROVE  /\ n \in Elements
         /\ n.ended => e.ended \/ n.time = Duration
         /\ e.time # Duration /\ n.time # Duration =>
               /\ n.paused = e.paused
               /\ n.time = IF e.paused THEN e.time ELSE e.time + Period
         /\ e.time = Duration => n.time = Duration
  <1> DEFINE ahead == Player!Element!Ahead(Player!Whole, e.time)
             starved == [e EXCEPT !.ready = IF e.duration = Player!Element!NoDuration
                           THEN Player!Element!HaveNothing ELSE Player!Element!HaveMetadata]
             end == [e EXCEPT !.time = e.duration, !.ended = TRUE, !.paused = TRUE]
             later == [e EXCEPT !.time = e.time + Period]
  <1>1. ahead = 0 => e.time = Duration
    BY PositionInside, ElementFields
  <1>a. Period \in Nat /\ Period # 0
    BY PlayerConstants
  <1>2. n = IF e.paused \/ Period = 0 THEN e
            ELSE IF ahead = 0 THEN starved
            ELSE IF e.duration # Player!Element!NoDuration /\ e.time + Period >= e.duration
              THEN end
            ELSE later
    BY DEF Player!Element!Ticked
  <1>3. starved = [ready |-> 1, paused |-> e.paused, ended |-> e.ended, time |-> e.time,
                   duration |-> e.duration]
    BY ElementIs, ElementFields DEF Player!Element!NoDuration, Player!Element!HaveMetadata
  <1>4. end \in Elements /\ end.time = Duration
    <2>1. e.duration \in 0..Duration /\ e.duration = Duration
      BY ElementFields
    <2>2. end \in Elements
      BY <2>1 DEF Elements
    <2>3. end.time = e.duration
      BY ElementIs
    <2> QED BY <2>1, <2>2, <2>3
  <1>5. later = [ready |-> e.ready, paused |-> e.paused, ended |-> e.ended,
                 time |-> e.time + Period, duration |-> e.duration]
    BY ElementIs
  <1> HIDE DEF ahead, starved, end, later
  <1>6. starved \in Elements /\ starved.time = e.time /\ starved.ended = e.ended
        /\ starved.paused = e.paused
    BY <1>3, ElementFields DEF Elements
  <1>7. ASSUME e.time + Period < Duration
        PROVE  later \in Elements /\ later.time = e.time + Period /\ later.paused = e.paused
               /\ later.ended = e.ended
    BY <1>a, <1>5, <1>7, ElementFields DEF Elements
  <1>8. n = IF e.paused THEN e ELSE IF ahead = 0 THEN starved
            ELSE IF e.time + Period >= Duration THEN end ELSE later
    BY <1>a, <1>2, ElementFields DEF Player!Element!NoDuration
  <1>9. CASE e.paused
    BY <1>8, <1>9
  <1>10. CASE ~e.paused /\ ahead = 0
    BY <1>1, <1>6, <1>8, <1>10
  <1>11. CASE ~e.paused /\ ahead # 0 /\ e.time + Period >= Duration
    BY <1>4, <1>8, <1>11
  <1>12. CASE ~e.paused /\ ahead # 0 /\ e.time + Period < Duration
    BY <1>a, <1>7, <1>8, <1>12, ElementFields
  <1> QED BY <1>9, <1>10, <1>11, <1>12, <1>a, ElementFields

(* Pausing keeps the position, and so does playing, except from the end.   *)
LEMMA ControlledElement ==
  ASSUME NEW e \in Elements
  PROVE  /\ Player!Element!Paused(e) \in Elements
         /\ Player!Element!Paused(e).paused = TRUE
         /\ Player!Element!Paused(e).ended = e.ended
         /\ Player!Element!Paused(e).time = e.time
         /\ Player!Element!Played(e) \in Elements
         /\ Player!Element!Played(e).paused = FALSE
         /\ Player!Element!Played(e).ended = FALSE
         /\ ~e.ended => Player!Element!Played(e).time = e.time
         /\ Player!Element!Played(e).time \in {0, e.time}
  <1>1. 0 \in 0..Duration
    BY ElementFields
  <1>2. Player!Element!Paused(e) \in Elements
    BY DEF Elements, Player!Element!Paused
  <1>3. Player!Element!Played(e) \in Elements
    BY <1>1 DEF Elements, Player!Element!Played
  <1> QED BY <1>2, <1>3, ElementIs DEF Player!Element!Paused, Player!Element!Played

(* A seek goes to its target and does not pause or resume.                 *)
LEMMA SoughtElement ==
  ASSUME NEW e \in Elements, NEW target \in 0..Duration
  PROVE  /\ Player!Element!Sought(e, target) \in Elements
         /\ Player!Element!Sought(e, target).paused = e.paused
         /\ Player!Element!Sought(e, target).ended = FALSE
         /\ Player!Element!Sought(e, target).time = target
  <1> DEFINE at == IF target < e.duration THEN target ELSE e.duration
  <1>1. at = target /\ at \in 0..Duration
    BY ElementFields
  <1> HIDE DEF at
  <1>2. Player!Element!Sought(e, target) = [e EXCEPT !.time = at, !.ended = FALSE]
    BY DEF Player!Element!Sought, at
  <1>3. [e EXCEPT !.time = at, !.ended = FALSE] \in Elements
    BY <1>1 DEF Elements
  <1> QED BY <1>1, <1>2, <1>3, ElementIs

(* YouTubeTogglePlayback.                                                  *)
LEMMA ToggleKeeps ==
  ASSUME PlayerInv, Player!Toggle
  PROVE  PlayerInv'
  <1>1. /\ media \in Elements
        /\ UNCHANGED <<clock, video, audio, shown, reached, rewound, ticks>>
    BY DEF PlayerInv, PlayerTypes, Player!Toggle, Player!history
  <1>2. /\ media' \in Elements
        /\ running' = ~media'.paused /\ running' \in BOOLEAN
        /\ media'.ended => media.ended
        /\ media'.time = Duration => media.time = Duration
        /\ ~media.ended => media'.time = media.time
    <2>1. CASE media.paused
      <3>1. media' = Player!Element!Played(media) /\ running' = TRUE
        BY <2>1 DEF Player!Toggle
      <3> QED BY <1>1, <3>1, ControlledElement, ElementFields
    <2>2. CASE ~media.paused
      <3>1. media' = Player!Element!Paused(media) /\ running' = FALSE
        BY <2>2 DEF Player!Toggle
      <3> QED BY <1>1, <3>1, ControlledElement, ElementFields
    <2> QED BY <2>1, <2>2
  <1>3. PlayerTypes'
    BY <1>1, <1>2 DEF PlayerInv, PlayerTypes, Elements, Clocks
  <1>4. PicturesFollowControls'
    <2>1. Player!Position(clock)' = Player!Position(clock)
      BY <1>1 DEF Player!Position
    <2> QED BY <1>1, <1>2, <2>1 DEF PlayerInv, PicturesFollowControls,
          Player!PicturesFollowControls, Player!NoPicture
  <1>5. ~reached' => InStep'
    BY <1>1, <1>2 DEF PlayerInv, InStep, Counted, Player!Truncated, Player!FramesPerTick
  <1> QED BY <1>1, <1>2, <1>3, <1>4, <1>5 DEF PlayerInv

(* YouTubeSeekBy and YouTubeRecover: every target is inside the video.     *)
LEMMA SeekKeeps ==
  ASSUME PlayerInv, Player!Seek
  PROVE  PlayerInv'
  <1>1. PICK target : Player!SeekTo(target) /\ target \in 0..Duration
    <2>1. media.time \in 0..Duration /\ Steps \subseteq Nat /\ Duration \in Nat
      BY ElementFields, PlaybackAssumption DEF PlayerInv, PlayerTypes, Player!PlaybackAssumption
    <2>2. ASSUME NEW s \in Steps PROVE Player!Min({media.time + s, Duration}) \in 0..Duration
      <3> DEFINE both == {media.time + s, Duration}
      <3>1. both \subseteq Nat /\ both # {}
        BY <2>1
      <3>2. Player!Min(both) \in both /\ \A t \in both : Player!Min(both) <= t
        <4> HIDE DEF both
        <4> QED BY <3>1, LeastOfNaturals
      <3> QED BY <2>1, <3>1, <3>2
    <2>3. ASSUME NEW s \in Steps
          PROVE  (IF s < media.time THEN media.time - s ELSE 0) \in 0..Duration
      BY <2>1
    <2>4. Player!Targets \subseteq 0..Duration
      BY <2>1, <2>2, <2>3 DEF Player!Targets
    <2>5. ASSUME NEW goal \in 0..Duration PROVE Player!Truncated(goal) \subseteq 0..Duration
      BY <2>1 DEF Player!Truncated
    <2> QED BY <2>4, <2>5 DEF Player!Seek
  <1>2. PICK start \in Player!Truncated(target) : media' = Player!Element!Sought(media, start)
    BY <1>1 DEF Player!SeekTo
  <1>3. start \in 0..Duration /\ start <= target /\ target <= start + 1
    BY <1>1, <1>2, PlayerConstants DEF Player!Truncated
  <1> DEFINE n == Player!Element!Sought(media, start)
  <1>4. /\ n \in Elements /\ n.paused = media.paused /\ n.ended = FALSE /\ n.time = start
        /\ media.paused \in BOOLEAN
    BY <1>3, SoughtElement, ElementFields DEF PlayerInv, PlayerTypes
  <1>5. /\ media' = n /\ running' = ~media.paused /\ rewound' = target /\ ticks' = 0
        /\ reached' = (media'.time = Duration) /\ shown' = Duration
        /\ clock' = [anchor |-> target, frames |-> 0]
        /\ video' = {t \in Pictures : t >= target} /\ audio' = {t \in Sounds : t >= target}
    BY <1>1, <1>2 DEF Player!SeekTo, Player!NewPipeline, Player!NoPicture
  <1> HIDE DEF n
  <1>6. PlayerTypes'
    BY <1>1, <1>4, <1>5 DEF PlayerTypes, Clocks
  <1>7. InStep'
    <2>1. clock'.anchor = target /\ clock'.frames = 0
      BY <1>5
    <2>2. 0 * Player!FramesPerTick = 0 /\ start + 0 * Period = start
      BY <1>3, FramesAreNatural, PlayerConstants
    <2>3. Counted(start)'
      BY <1>4, <1>5, <2>1, <2>2 DEF Counted, Player!FramesPerTick
    <2>4. start \in Player!Truncated(rewound)'
      BY <1>2, <1>5 DEF Player!Truncated
    <2> QED BY <2>3, <2>4 DEF InStep
  <1>8. Near'
    BY <1>6, <1>7, InStepIsNear, PTL DEF PlayerTypes
  <1>9. PicturesFollowControls'
    BY <1>4, <1>5, <1>8 DEF Near, PicturesFollowControls, Player!PicturesFollowControls,
       Player!NoPicture
  <1> QED BY <1>1, <1>4, <1>5, <1>6, <1>7, <1>9 DEF PlayerInv

LEMMA PlayerStutter ==
  ASSUME PlayerInv,
         UNCHANGED <<media, clock, running, video, audio, shown, reached, rewound, ticks>>
  PROVE  PlayerInv'
  <1>1. Player!Position(clock)' = Player!Position(clock)
    BY DEF Player!Position
  <1>2. PicturesFollowControls'
    BY <1>1 DEF PlayerInv, PicturesFollowControls, Player!PicturesFollowControls, Player!NoPicture
  <1>3. ~reached' => InStep'
    BY DEF PlayerInv, InStep, Counted, Player!Truncated, Player!FramesPerTick
  <1> QED BY <1>2, <1>3 DEF PlayerInv, PlayerTypes, Elements, Clocks

(* YouTubePlaybackTick, of a tab in front or behind.                       *)
LEMMA TickKeeps ==
  ASSUME PlayerInv, Player!Tick
  PROVE  PlayerInv'
  <1> DEFINE later == IF running THEN [clock EXCEPT !.frames = @ + Player!FramesPerTick] ELSE clock
             now == Player!Position(later)
             due == {t \in audio : t <= now + Tolerance}
             kept == {t \in video : t + Tolerance >= now}
             next == {t \in kept : t <= now + Tolerance}
  <1>a. /\ clock \in Clocks /\ later \in Clocks /\ later.anchor = clock.anchor
        /\ later.frames = IF running THEN clock.frames + Player!FramesPerTick ELSE clock.frames
    BY FramesAreNatural DEF PlayerInv, PlayerTypes, Clocks
  <1>b. Player!Position(clock) <= now
    <2> HIDE DEF later
    <2>1. clock.frames * Second \in Nat /\ later.frames * Second \in Nat
          /\ clock.anchor \in Nat
      BY <1>a, PlayerConstants DEF Clocks
    <2>2. clock.frames * Second <= later.frames * Second
      <3>1. /\ clock.frames \in Nat /\ later.frames \in Nat /\ Second \in Nat
            /\ clock.frames <= later.frames
        BY <1>a, PlayerConstants, FramesAreNatural DEF Clocks
      <3> QED BY <3>1
    <2> DEFINE p == (clock.frames * Second) \div Rate
               q == (later.frames * Second) \div Rate
    <2>3. p \in Nat /\ q \in Nat /\ p <= q
      BY <2>1, <2>2, PlayerConstants, Quotient, QuotientGrows
    <2>4. Player!Position(clock) = clock.anchor + p /\ now = clock.anchor + q
      BY <1>a DEF Player!Position
    <2> HIDE DEF p, q, now
    <2> QED BY <2>1, <2>3, <2>4
  <1>1. /\ media \in Elements /\ Tolerance \in Nat /\ now \in Nat
        /\ Player!Position(clock) \in Nat
        /\ Pictures \subseteq Nat /\ Sounds \subseteq Nat /\ next \subseteq Nat
        /\ reached \in BOOLEAN /\ running \in BOOLEAN
    <2>1. /\ media \in Elements /\ video \subseteq Pictures
          /\ reached \in BOOLEAN /\ running \in BOOLEAN
      BY DEF PlayerInv, PlayerTypes
    <2>2. Tolerance \in Nat /\ Pictures \subseteq Nat /\ Sounds \subseteq Nat
      BY PlaybackAssumption DEF Player!PlaybackAssumption
    <2>3. now \in Nat /\ Player!Position(clock) \in Nat
      BY <1>a, PositionIsNatural
    <2>4. next \subseteq Nat
      BY <2>1, <2>2
    <2> QED BY <2>1, <2>2, <2>3, <2>4
  <1>2. UNCHANGED <<running, rewound>>
    BY DEF Player!Tick
  <1>3. CASE inFront
    <2> DEFINE n == Player!Element!Ticked(media, Player!Whole, Period)
    <2>1. /\ media' = n /\ reached' = (reached \/ media'.time = Duration)
          /\ clock' = later /\ audio' = audio \ due
          /\ ticks' = IF running THEN ticks + 1 ELSE ticks
          /\ video' = IF next = {} THEN kept ELSE kept \ {Player!Min(next)}
          /\ shown' = IF next = {} THEN shown ELSE Player!Min(next)
      BY <1>3 DEF Player!Tick, Player!PipelineTick
    <2>2. /\ n \in Elements
          /\ n.ended => media.ended \/ n.time = Duration
          /\ media.time # Duration /\ n.time # Duration =>
                /\ n.paused = media.paused
                /\ n.time = IF media.paused THEN media.time ELSE media.time + Period
          /\ media.time = Duration => n.time = Duration
      BY <1>1, TickedElement
    <2> HIDE DEF n
    <2>3. next # {} => Player!Min(next) \in next
      <3> HIDE DEF next
      <3> QED BY <1>1, LeastOfNaturals
    <2>4. video' \subseteq video /\ audio' \subseteq audio
      BY <2>1
    <2>5. shown' = shown \/ (shown' \in video /\ shown' <= now + Tolerance)
      BY <2>1, <2>3
    <2>6. PlayerTypes'
      <3>1. shown' \in Pictures \cup {Duration}
        BY <2>5 DEF PlayerInv, PlayerTypes
      <3>2. clock' \in Clocks /\ running' \in BOOLEAN /\ reached' \in BOOLEAN /\ ticks' \in Nat
        BY <1>a, <1>1, <1>2, <2>1 DEF PlayerInv, PlayerTypes
      <3> QED BY <1>2, <2>1, <2>2, <2>4, <3>1, <3>2 DEF PlayerInv, PlayerTypes
    <2>9. ASSUME ~reached' PROVE InStep'
      <3>1. /\ ~reached /\ media.time # Duration /\ n.time # Duration
            /\ running = ~media.paused
        BY <2>1, <2>9 DEF PlayerInv, PicturesFollowControls, Player!PicturesFollowControls
      <3>2. PICK start \in Player!Truncated(rewound) : Counted(start)
        BY <3>1 DEF PlayerInv, InStep
      <3>3. start \in Nat /\ ticks \in Nat /\ Period \in Nat /\ Player!FramesPerTick \in Nat
        BY <3>2, PlayerConstants, FramesAreNatural DEF Player!Truncated, PlayerInv, PlayerTypes
      <3>4. /\ (ticks + 1) * Player!FramesPerTick = ticks * Player!FramesPerTick + Player!FramesPerTick
            /\ start + (ticks + 1) * Period = start + ticks * Period + Period
        BY <3>3
      <3>5. /\ media'.time = IF running THEN media.time + Period ELSE media.time
            /\ clock'.anchor = clock.anchor
            /\ clock'.frames = IF running THEN clock.frames + Player!FramesPerTick ELSE clock.frames
        <4>1. media'.time = IF running THEN media.time + Period ELSE media.time
          BY <2>1, <2>2, <3>1
        <4>2. clock' = later
          BY <2>1
        <4> QED BY <4>1, <4>2, <1>a
      <3>6. Counted(start)'
        <4>1. clock'.anchor = rewound'
          BY <1>2, <3>2, <3>5 DEF Counted
        <4>2. clock'.frames = ticks' * Player!FramesPerTick
          BY <2>1, <3>2, <3>4, <3>5 DEF Counted
        <4>3. media'.time = start + ticks' * Period
          BY <2>1, <3>2, <3>4, <3>5 DEF Counted
        <4> QED BY <4>1, <4>2, <4>3 DEF Counted, Player!FramesPerTick
      <3> QED BY <1>2, <3>2, <3>6 DEF InStep, Player!Truncated
    <2>10. ASSUME ~reached' PROVE Near'
      BY <2>6, <2>9, <2>10, InStepIsNear, PTL DEF PlayerTypes
    <2>7. PicturesFollowControls'
      <3> SUFFICES ASSUME ~reached'
                   PROVE  /\ Near'
                          /\ running' = ~media'.paused
                          /\ \A t \in audio' : t > now
                          /\ shown' # Duration =>
                               shown' >= rewound' /\ shown' <= now + Tolerance
        <4>1. Player!Position(clock)' = now
          BY <2>1 DEF Player!Position
        <4> HIDE DEF now
        <4> QED BY <4>1 DEF Near, PicturesFollowControls, Player!PicturesFollowControls,
              Player!NoPicture
      <3>1. /\ ~reached /\ media.time # Duration /\ n.time # Duration /\ running = ~media.paused
            /\ shown # Duration => shown >= rewound /\ shown <= Player!Position(clock) + Tolerance
        BY <2>1 DEF PlayerInv, PicturesFollowControls, Player!PicturesFollowControls,
           Player!NoPicture
      <3>2. running' = ~media'.paused
        BY <1>2, <2>1, <2>2, <3>1
      <3>3. \A t \in audio' : t > now
        <4> HIDE DEF now
        <4> QED BY <1>1, <2>1 DEF PlayerInv, PlayerTypes
      <3>4. shown' # Duration => shown' >= rewound' /\ shown' <= now + Tolerance
        <4>1. CASE shown' = shown /\ shown # Duration
          <5>1. shown \in Nat
            BY <1>1, <4>1 DEF PlayerInv, PlayerTypes
          <5> DEFINE before == Player!Position(clock)
          <5>2. before \in Nat /\ before <= now /\ now \in Nat /\ Tolerance \in Nat
            BY <1>1, <1>b
          <5>3. shown >= rewound /\ shown <= before + Tolerance
            BY <3>1, <4>1
          <5> HIDE DEF now, later, due, kept, next, before
          <5>4. shown <= now + Tolerance
            BY <5>1, <5>2, <5>3
          <5> QED BY <1>2, <4>1, <5>3, <5>4
        <4>2. CASE shown' \in video /\ shown' <= now + Tolerance
          BY <1>2, <4>2 DEF PlayerInv
        <4> QED BY <2>5, <4>1, <4>2
      <3> QED BY <2>10, <3>2, <3>3, <3>4
    <2>8. (\A t \in video : t >= rewound)' /\ (media'.ended => reached')
          /\ (media'.time = Duration => reached')
      BY <1>2, <2>1, <2>2, <2>4 DEF PlayerInv
    <2> QED BY <2>6, <2>7, <2>8, <2>9 DEF PlayerInv
  <1>4. CASE ~inFront
    <2>1. UNCHANGED <<media, clock, running, video, audio, shown, reached, rewound, ticks>>
      BY <1>2, <1>4 DEF Player!Tick
    <2> QED BY <2>1, PlayerStutter
  <1> QED BY <1>3, <1>4

(* For every video, sample rate and timer, after any seek, tab switch or   *)
(* pause, the pictures and the sound are never ahead of the position that  *)
(* the controls show and lag behind it by less than a frame of sound for   *)
(* each tick since the last seek, until the end is reached.                *)
THEOREM PlayerSafety == Player!Spec => []PicturesFollowControls
  <1>1. PlayerInv /\ [Player!Next]_(Player!vars) => PlayerInv'
    <2> SUFFICES ASSUME PlayerInv, [Player!Next]_(Player!vars) PROVE PlayerInv'
      OBVIOUS
    <2>2. CASE Player!Pump
      BY <2>2, PlayerStutter DEF Player!Pump, Player!pipeline, Player!history
    <2>3. CASE Player!SwitchTab
      BY <2>3, PlayerStutter DEF Player!SwitchTab, Player!pipeline, Player!history
    <2>4. CASE UNCHANGED Player!vars
      BY <2>4, PlayerStutter DEF Player!vars, Player!pipeline, Player!history
    <2> QED BY <2>2, <2>3, <2>4, TickKeeps, ToggleKeeps, SeekKeeps DEF Player!Next
  <1>2. PlayerInv => PicturesFollowControls
    BY DEF PlayerInv
  <1> QED BY <1>1, <1>2, PlayerStart, PTL DEF Player!Spec

-----------------------------------------------------------------------------
(* The buffers of a media source.                                          *)
Samples == [track : Nat, at : Int, length : Nat \ {0}, bytes : Nat]
Clear(x, y) == x.track = y.track => Feed!End(x) <= y.at \/ Feed!End(y) <= x.at

(* A list of samples that names none twice, and no two of one track cover  *)
(* the same time.                                                          *)
Disjoint(q) ==
  /\ q \in Seq(Samples) /\ IsInjective(q)
  /\ \A x, y \in Range(q) : x # y => Clear(x, y)

LEMMA FilteredDisjoint ==
  ASSUME NEW q, Disjoint(q), NEW S
  PROVE  /\ Disjoint(Feed!Filtered(q, S)) /\ Range(Feed!Filtered(q, S)) = Range(q) \cap S
  <1> DEFINE p == Filtered(q, S)
  <1>1. Feed!Filtered(q, S) = p
    BY DEF Feed!Filtered, Filtered
  <1>2. q \in Seq(Samples) /\ IsInjective(q)
    BY DEF Disjoint
  <1>3. p \in Seq(Samples) /\ Range(p) = Range(q) \cap S /\ IsInjective(p)
    BY <1>2, FilteredRange
  <1> HIDE DEF p
  <1>4. Disjoint(p)
    BY <1>3 DEF Disjoint
  <1> QED BY <1>1, <1>3, <1>4

LEMMA TruncatedDisjoint ==
  ASSUME NEW q, Disjoint(q), NEW n \in Nat
  PROVE  Disjoint(Feed!Truncated(q, n))
  <1> DEFINE m == IF n < Len(q) THEN n ELSE Len(q)
             p == SubSeq(q, 1, m)
  <1>1. q \in Seq(Samples) /\ Len(q) \in Nat /\ DOMAIN q = 1 .. Len(q) /\ IsInjective(q)
    BY LenProperties DEF Disjoint
  <1>2. m \in Nat /\ m <= Len(q)
    BY <1>1
  <1> HIDE DEF m
  <1>3. p \in Seq(Samples) /\ DOMAIN p = 1 .. m /\ \A i \in 1 .. m : p[i] = q[i]
    <2>1. Len(p) = m /\ \A i \in 1 .. m : p[i] = q[i]
      BY <1>1, <1>2
    <2>2. p \in Seq(Samples)
      BY <1>1, <1>2
    <2> QED BY <2>1, <2>2, LenProperties
  <1>4. Feed!Truncated(q, n) = p
    BY DEF Feed!Truncated, m
  <1> HIDE DEF p
  <1>5. \A i \in 1 .. m : i \in DOMAIN q
    BY <1>1, <1>2
  <1>6. IsInjective(p) /\ Range(p) \subseteq Range(q)
    BY <1>1, <1>3, <1>5 DEF IsInjective, Range
  <1>7. Disjoint(p)
    BY <1>3, <1>6 DEF Disjoint
  <1> QED BY <1>4, <1>7

(* A sample that is clear of the others can be put at the end.             *)
LEMMA AppendDisjoint ==
  ASSUME NEW q, Disjoint(q), NEW s \in Samples, \A x \in Range(q) : x # s /\ Clear(x, s) /\ Clear(s, x)
  PROVE  Disjoint(Append(q, s)) /\ Range(Append(q, s)) = Range(q) \cup {s}
  <1> DEFINE p == Append(q, s)
  <1>1. q \in Seq(Samples) /\ IsInjective(q) /\ s \notin ToSet(q)
    BY DEF Disjoint, ToSet, Range
  <1>2. p \in Seq(Samples) /\ ToSet(p) = ToSet(q) \cup {s} /\ IsInjective(p)
    BY <1>1, QueueAppend
  <1> HIDE DEF p
  <1>3. Range(p) = Range(q) \cup {s}
    BY <1>2 DEF ToSet, Range
  <1>4. Disjoint(p)
    BY <1>2, <1>3 DEF Disjoint
  <1> QED BY <1>3, <1>4 DEF p

LEMMA ConcatDisjoint ==
  ASSUME NEW p, NEW q, Disjoint(p), Disjoint(q),
         \A x \in Range(p), y \in Range(q) : x # y /\ Clear(x, y) /\ Clear(y, x)
  PROVE  Disjoint(p \o q) /\ Range(p \o q) = Range(p) \cup Range(q)
  <1> DEFINE t == p \o q
             m == Len(p)
             n == Len(q)
  <1>1. /\ p \in Seq(Samples) /\ q \in Seq(Samples) /\ IsInjective(p) /\ IsInjective(q)
        /\ m \in Nat /\ n \in Nat /\ DOMAIN p = 1 .. m /\ DOMAIN q = 1 .. n
    BY LenProperties DEF Disjoint
  <1>2. /\ t \in Seq(Samples) /\ DOMAIN t = 1 .. m + n
        /\ \A i \in 1 .. m : t[i] = p[i]
        /\ \A i \in m + 1 .. m + n : t[i] = q[i - m]
    <2>1. t \in Seq(Samples) /\ Len(t) = m + n
      BY <1>1, ConcatProperties
    <2>2. \A i \in 1 .. m + n : t[i] = IF i <= m THEN p[i] ELSE q[i - m]
      BY <1>1, <2>1, ConcatProperties
    <2>3. DOMAIN t = 1 .. m + n
      BY <2>1, LenProperties
    <2> HIDE DEF t, m, n
    <2>4. \A i \in 1 .. m : t[i] = p[i]
      BY <1>1, <2>2
    <2>5. \A i \in m + 1 .. m + n : t[i] = q[i - m]
      BY <1>1, <2>2
    <2> QED BY <2>1, <2>3, <2>4, <2>5
  <1> HIDE DEF t, m, n
  <1>3. \A i \in 1 .. m + n : i \in 1 .. m \/ (i \in m + 1 .. m + n /\ i - m \in 1 .. n)
    BY <1>1
  <1>4. \A i \in 1 .. m : i \in 1 .. m + n
    BY <1>1
  <1>5. \A i \in 1 .. n : i + m \in m + 1 .. m + n /\ i + m \in 1 .. m + n /\ (i + m) - m = i
    BY <1>1
  <1>6. Range(t) = Range(p) \cup Range(q)
    <2>1. ASSUME NEW x \in Range(t) PROVE x \in Range(p) \cup Range(q)
      BY <1>1, <1>2, <1>3 DEF Range
    <2>2. ASSUME NEW x \in Range(p) PROVE x \in Range(t)
      BY <1>1, <1>2, <1>4 DEF Range
    <2>3. ASSUME NEW x \in Range(q) PROVE x \in Range(t)
      <3>1. PICK i \in 1 .. n : x = q[i]
        BY <1>1 DEF Range
      <3>2. t[i + m] = x /\ i + m \in DOMAIN t
        BY <1>2, <1>5, <3>1
      <3> QED BY <3>2 DEF Range
    <2> QED BY <2>1, <2>2, <2>3
  <1>7. IsInjective(t)
    <2> SUFFICES ASSUME NEW i \in 1 .. m + n, NEW j \in 1 .. m + n, t[i] = t[j] PROVE i = j
      BY <1>2 DEF IsInjective
    <2>1. CASE i \in 1 .. m /\ j \in 1 .. m
      BY <1>1, <1>2, <2>1 DEF IsInjective
    <2>2. CASE i \in 1 .. m /\ j \in m + 1 .. m + n
      <3>1. t[i] = p[i] /\ t[j] = q[j - m] /\ j - m \in 1 .. n
        BY <1>1, <1>2, <2>2
      <3> QED BY <1>1, <3>1, <2>2 DEF Range
    <2>3. CASE i \in m + 1 .. m + n /\ j \in 1 .. m
      <3>1. t[j] = p[j] /\ t[i] = q[i - m] /\ i - m \in 1 .. n
        BY <1>1, <1>2, <2>3
      <3> QED BY <1>1, <3>1, <2>3 DEF Range
    <2>4. CASE i \in m + 1 .. m + n /\ j \in m + 1 .. m + n
      <3>1. t[i] = q[i - m] /\ t[j] = q[j - m] /\ i - m \in 1 .. n /\ j - m \in 1 .. n
        BY <1>1, <1>2, <2>4
      <3>2. i - m = j - m
        BY <1>1, <3>1 DEF IsInjective
      <3> QED BY <1>1, <2>4, <3>2
    <2> QED BY <1>3, <2>1, <2>2, <2>3, <2>4
  <1>8. Disjoint(t)
    BY <1>1, <1>2, <1>6, <1>7 DEF Disjoint
  <1> QED BY <1>6, <1>8 DEF t

(* Sorting.                                                                *)
LEMMA InsertedDisjoint ==
  ASSUME NEW q, Disjoint(q), NEW s \in Samples, \A x \in Range(q) : x # s /\ Clear(x, s) /\ Clear(s, x)
  PROVE  /\ Disjoint(Feed!Inserted(q, s)) /\ Range(Feed!Inserted(q, s)) = Range(q) \cup {s}
  <1> DEFINE late == {x \in Feed!Range(q) : Feed!Before(s, x)}
             a == Feed!Filtered(q, Feed!Range(q) \ late)
             b == Feed!Filtered(q, late)
             c == Append(a, s)
  <1>1. Feed!Inserted(q, s) = c \o b
    BY DEF Feed!Inserted
  <1>2. late \subseteq Range(q) /\ Feed!Range(q) = Range(q)
    BY DEF Feed!Range, Range
  <1> HIDE DEF late
  <1>3. /\ Disjoint(a) /\ Range(a) = Range(q) \ late
        /\ Disjoint(b) /\ Range(b) = late
    <2>1. Disjoint(a) /\ Range(a) = Range(q) \cap (Feed!Range(q) \ late)
      BY FilteredDisjoint
    <2>2. Disjoint(b) /\ Range(b) = Range(q) \cap late
      BY FilteredDisjoint
    <2> QED BY <1>2, <2>1, <2>2
  <1> HIDE DEF a, b
  <1>4. Disjoint(c) /\ Range(c) = Range(a) \cup {s}
    BY <1>3, AppendDisjoint
  <1> HIDE DEF c
  <1>5. \A x \in Range(c), y \in Range(b) : x # y /\ Clear(x, y) /\ Clear(y, x)
    <2> SUFFICES ASSUME NEW x \in Range(c), NEW y \in Range(b)
                 PROVE  x # y /\ Clear(x, y) /\ Clear(y, x)
      OBVIOUS
    <2>1. y \in Range(q) /\ y \in late
      BY <1>2, <1>3
    <2>2. CASE x = s
      BY <2>1, <2>2
    <2>3. CASE x \in Range(a)
      <3>1. x \in Range(q) /\ x # y
        BY <1>3, <2>1, <2>3
      <3> QED BY <2>1, <3>1 DEF Disjoint
    <2> QED BY <1>4, <2>2, <2>3
  <1>6. Disjoint(c \o b) /\ Range(c \o b) = Range(c) \cup Range(b)
    BY <1>3, <1>4, <1>5, ConcatDisjoint
  <1>7. Range(c) \cup Range(b) = Range(q) \cup {s}
    BY <1>2, <1>3, <1>4
  <1> QED BY <1>1, <1>6, <1>7

LEMMA SortedDisjoint ==
  ASSUME NEW q, Disjoint(q)
  PROVE  Disjoint(Feed!Sorted(q))
  <1> DEFINE N == Len(q)
             item(v, s) == Feed!Inserted(v, s)
             Builds(g, n) == /\ g = [k \in 0 .. n |-> g[k]] /\ g[0] = <<>>
                             /\ \A k \in 1 .. n : g[k] = item(g[k - 1], q[k])
             R == {n \in Nat : \E g : Builds(g, n)}
             body(g) == [k \in 0 .. N |-> IF k = 0 THEN <<>> ELSE item(g[k - 1], q[k])]
             it == CHOOSE g : g = body(g)
  <1>1. /\ N \in Nat /\ DOMAIN q = 1 .. N /\ IsInjective(q)
        /\ \A k \in 1 .. N : q[k] \in Samples /\ q[k] \in Range(q)
    BY LenProperties, ElementOfSeq DEF Disjoint, Range
  <1>2. Feed!Sorted(q) = it[N]
    BY DEF Feed!Sorted
  <1>3. \A v, s : item(v, s) = Feed!Inserted(v, s)
    OBVIOUS
  <1> HIDE DEF item
  <1>5. N \in R
    <2>1. 0 \in R
      <3> DEFINE g == [k \in 0 .. 0 |-> <<>>]
      <3>1. Builds(g, 0)
        OBVIOUS
      <3> HIDE DEF g, Builds
      <3> QED BY <3>1
    <2>2. ASSUME NEW n \in R PROVE n + 1 \in R
      <3>1. PICK g : Builds(g, n)
        BY <2>2
      <3> DEFINE h == [k \in 0 .. n + 1 |-> IF k = n + 1 THEN item(g[n], q[n + 1]) ELSE g[k]]
      <3>2. n \in Nat
        BY <2>2
      <3>3. /\ h = [k \in 0 .. n + 1 |-> h[k]] /\ h[0] = g[0]
            /\ h[n + 1] = item(g[n], q[n + 1]) /\ \A k \in 0 .. n : h[k] = g[k]
        BY <3>2
      <3> HIDE DEF h
      <3>4. ASSUME NEW k \in 1 .. n + 1 PROVE h[k] = item(h[k - 1], q[k])
        <4>1. CASE k = n + 1
          <5>1. k - 1 = n /\ n \in 0 .. n
            BY <3>2, <4>1
          <5> QED BY <3>3, <4>1, <5>1
        <4>2. CASE k # n + 1
          <5>1. k \in 1 .. n /\ k \in 0 .. n /\ k - 1 \in 0 .. n
            BY <3>2, <4>2
          <5> QED BY <3>1, <3>3, <5>1
        <4> QED BY <4>1, <4>2
      <3>5. Builds(h, n + 1)
        BY <3>1, <3>3, <3>4
      <3> HIDE DEF Builds
      <3> QED BY <3>2, <3>5
    <2>3. R \subseteq Nat
      OBVIOUS
    <2> HIDE DEF R
    <2> QED BY <1>1, <2>1, <2>2, <2>3, Counting
  <1>6. it[0] = <<>> /\ \A k \in 1 .. N : it[k] = item(it[k - 1], q[k])
    <2>1. PICK g : Builds(g, N)
      BY <1>5
    <2> HIDE DEF N
    <2>6. g[0] = <<>> /\ \A k \in 1 .. N : g[k] = item(g[k - 1], q[k])
      BY <2>1
    <2>7. \A k \in 0 .. N : k = 0 \/ k \in 1 .. N
      BY <1>1
    <2>2. \A k \in 0 .. N : g[k] = IF k = 0 THEN <<>> ELSE item(g[k - 1], q[k])
      BY <2>6, <2>7
    <2>3. g = body(g)
      BY <2>1, <2>2
    <2> HIDE DEF body
    <2>4. it = body(it)
      BY <2>3
    <2> HIDE DEF it
    <2>5. \A k \in 0 .. N : it[k] = IF k = 0 THEN <<>> ELSE item(it[k - 1], q[k])
      BY <2>4 DEF body
    <2> QED BY <1>1, <2>5
  <1> HIDE DEF it
  <1> DEFINE First(k) == {q[i] : i \in 1 .. k}
             T == {k \in Nat : k <= N => Disjoint(it[k]) /\ Range(it[k]) = First(k)}
  <1>7. 0 \in T
    <2> DEFINE e == <<>>
    <2>1. e \in Seq(Samples) /\ DOMAIN e = {}
      OBVIOUS
    <2>2. it[0] = e
      BY <1>6
    <2> HIDE DEF e
    <2>3. Disjoint(e) /\ Range(e) = {}
      BY <2>1 DEF Disjoint, IsInjective, Range
    <2>4. First(0) = {}
      OBVIOUS
    <2> HIDE DEF First
    <2> QED BY <2>2, <2>3, <2>4
  <1>8. ASSUME NEW k \in T PROVE k + 1 \in T
    <2>1. k \in Nat /\ (k <= N => Disjoint(it[k]) /\ Range(it[k]) = First(k))
      OBVIOUS
    <2> SUFFICES ASSUME k + 1 <= N PROVE Disjoint(it[k + 1]) /\ Range(it[k + 1]) = First(k + 1)
      BY <2>1
    <2> HIDE DEF T
    <2>2. k <= N /\ k + 1 \in 1 .. N /\ (k + 1) - 1 = k
      BY <1>1, <2>1
    <2> DEFINE s == q[k + 1]
               v == it[k]
    <2>3. it[k + 1] = Feed!Inserted(v, s)
      BY <1>3, <1>6, <2>2
    <2>4. Disjoint(v) /\ Range(v) = First(k) /\ s \in Samples /\ s \in Range(q)
      BY <1>1, <2>1, <2>2
    <2>5. \A x \in First(k) : x # s /\ x \in Range(q)
      <3> SUFFICES ASSUME NEW i \in 1 .. k PROVE q[i] # s /\ q[i] \in Range(q)
        OBVIOUS
      <3>1. i \in 1 .. N /\ i # k + 1
        BY <1>1, <2>1, <2>2
      <3> QED BY <1>1, <2>2, <3>1 DEF IsInjective
    <2>6. First(k + 1) = First(k) \cup {s}
      <3>1. 1 .. k + 1 = (1 .. k) \cup {k + 1}
        BY <2>1
      <3> QED BY <3>1
    <2> HIDE DEF First, s, v
    <2>7. \A x \in Range(v) : x # s /\ Clear(x, s) /\ Clear(s, x)
      BY <2>4, <2>5 DEF Disjoint
    <2>8. Disjoint(Feed!Inserted(v, s)) /\ Range(Feed!Inserted(v, s)) = Range(v) \cup {s}
      BY <2>4, <2>7, InsertedDisjoint
    <2> QED BY <2>3, <2>4, <2>6, <2>8
  <1>9. N \in T
    <2>1. T \subseteq Nat
      OBVIOUS
    <2> HIDE DEF T
    <2> QED BY <1>1, <1>7, <1>8, <2>1, Counting
  <1>10. Disjoint(it[N])
    <2> HIDE DEF N
    <2> QED BY <1>1, <1>9
  <1> QED BY <1>2, <1>10

(* Appending.  What a step of append_buffer_inner leaves of the buffer.    *)
Fields == {"samples", "queued", "failed", "dropped"}
Taking(v) ==
  DOMAIN v = Fields /\ v.failed \in BOOLEAN /\ Disjoint(v.samples)

LEMMA DroppedOf ==
  ASSUME NEW v, DOMAIN v = Fields, NEW n, NEW t, t = [v EXCEPT !.dropped = n]
  PROVE  DOMAIN t = Fields /\ t.failed = v.failed /\ t.samples = v.samples
  BY DEF Fields

LEMMA FailedOf ==
  ASSUME NEW v, DOMAIN v = Fields, NEW b, NEW t, t = [v EXCEPT !.failed = b]
  PROVE  DOMAIN t = Fields /\ t.failed = b /\ t.samples = v.samples
  BY DEF Fields

LEMMA KeptOf ==
  ASSUME NEW v, DOMAIN v = Fields, NEW p, NEW n, NEW t, t = [v EXCEPT !.samples = p, !.queued = n]
  PROVE  DOMAIN t = Fields /\ t.failed = v.failed /\ t.samples = p
  BY DEF Fields

LEMMA TakenDisjoint ==
  ASSUME NEW v, Taking(v), NEW s \in Samples
  PROVE  Taking(Feed!Taken(v, s))
  <1> DEFINE S == {old \in Feed!Range(v.samples) : ~Feed!Replaces(s, old)}
             kept == Feed!Filtered(v.samples, S)
             t == Feed!Taken(v, s)
  <1>1. \/ t = [v EXCEPT !.dropped = @ + 1]
        \/ t = [v EXCEPT !.failed = TRUE]
        \/ \E n : t = [v EXCEPT !.samples = Append(kept, s), !.queued = n]
    BY DEF Feed!Taken
  <1>2. Disjoint(kept) /\ Range(kept) \subseteq Range(v.samples) /\ \A x \in Range(kept) : ~Feed!Replaces(s, x)
    <2>1. Disjoint(kept) /\ Range(kept) = Range(v.samples) \cap S
      BY FilteredDisjoint DEF Taking
    <2> HIDE DEF kept
    <2> QED BY <2>1
  <1> HIDE DEF t, kept
  <1>3. \A x \in Range(kept) : x \in Samples
    <2>1. kept \in Seq(Samples)
      BY <1>2 DEF Disjoint
    <2> QED BY <2>1, LenProperties, ElementOfSeq DEF Range
  <1>4. ASSUME NEW x \in Range(kept) PROVE x # s /\ Clear(x, s) /\ Clear(s, x)
    <2>1. x \in Samples /\ ~Feed!Replaces(s, x)
      BY <1>2, <1>3
    <2> QED BY <2>1 DEF Feed!Replaces, Feed!End, Clear, Samples
  <1>5. Disjoint(Append(kept, s))
    BY <1>2, <1>4, AppendDisjoint
  <1> DEFINE p == Append(kept, s)
  <1>6. Disjoint(p)
    BY <1>5
  <1> HIDE DEF p
  <1>d. DOMAIN v = Fields /\ v.failed \in BOOLEAN /\ Disjoint(v.samples)
    BY DEF Taking
  <1>7. ASSUME t = [v EXCEPT !.dropped = @ + 1] PROVE Taking(t)
    <2>1. PICK n : t = [v EXCEPT !.dropped = n]
      BY <1>7
    <2>2. DOMAIN t = Fields /\ t.failed = v.failed /\ t.samples = v.samples
      BY ONLY <1>d, <2>1, DroppedOf
    <2> QED BY <1>d, <2>2 DEF Taking
  <1>8. ASSUME t = [v EXCEPT !.failed = TRUE] PROVE Taking(t)
    <2> DEFINE b == TRUE
    <2>1. t = [v EXCEPT !.failed = b] /\ b \in BOOLEAN
      BY <1>8
    <2> HIDE DEF b
    <2>2. DOMAIN t = Fields /\ t.failed = b /\ t.samples = v.samples
      BY ONLY <1>d, <2>1, FailedOf
    <2> QED BY <1>d, <2>1, <2>2 DEF Taking
  <1>9. ASSUME \E n : t = [v EXCEPT !.samples = p, !.queued = n] PROVE Taking(t)
    <2>1. PICK n : t = [v EXCEPT !.samples = p, !.queued = n]
      BY <1>9
    <2>2. DOMAIN t = Fields /\ t.failed = v.failed /\ t.samples = p
      BY ONLY <1>d, <2>1 DEF Fields
    <2> QED BY <1>6, <1>d, <2>2 DEF Taking
  <1> QED BY <1>1, <1>7, <1>8, <1>9 DEF t, p

LEMMA AppendedDisjoint ==
  ASSUME NEW buffer, Disjoint(buffer.samples), buffer.offset \in Int,
         NEW segment \in Seq(Feed!Sample)
  PROVE  Taking(Feed!Appended(buffer, segment))
  <1> DEFINE N == Len(segment)
             moved(s) == [s EXCEPT !.at = @ + buffer.offset]
             w0 == [samples |-> buffer.samples, queued |-> buffer.queued,
                    failed |-> FALSE, dropped |-> 0]
             item(v, s) == IF v.failed THEN v ELSE Feed!Taken(v, moved(s))
             Builds(g, n) == /\ g = [k \in 0 .. n |-> g[k]] /\ g[0] = w0
                             /\ \A k \in 1 .. n : g[k] = item(g[k - 1], segment[k])
             R == {n \in Nat : \E g : Builds(g, n)}
             body(g) == [k \in 0 .. N |-> IF k = 0 THEN w0 ELSE item(g[k - 1], segment[k])]
             it == CHOOSE g : g = body(g)
  <1>1. N \in Nat /\ \A k \in 1 .. N : segment[k] \in Feed!Sample
    BY LenProperties, ElementOfSeq
  <1>2. Feed!Appended(buffer, segment) = it[N]
    BY DEF Feed!Appended
  <1>3. ASSUME NEW v, Taking(v), NEW s \in Feed!Sample PROVE Taking(item(v, s))
    <2> DEFINE m == moved(s)
    <2>1. m \in Samples
      BY DEF Feed!Sample, Samples
    <2> HIDE DEF m
    <2>2. Taking(Feed!Taken(v, m))
      BY <1>3, <2>1, TakenDisjoint
    <2> DEFINE t == Feed!Taken(v, m)
    <2>3. item(v, s) = v \/ item(v, s) = t
      BY DEF m
    <2> HIDE DEF item, t
    <2> QED BY <1>3, <2>2, <2>3 DEF t
  <1>4. Taking(w0)
    BY DEF Taking, Fields
  <1> HIDE DEF item, w0, moved
  <1>5. N \in R
    <2>1. 0 \in R
      <3> DEFINE g == [k \in 0 .. 0 |-> w0]
      <3>1. Builds(g, 0)
        OBVIOUS
      <3> HIDE DEF g, Builds
      <3> QED BY <3>1
    <2>2. ASSUME NEW n \in R PROVE n + 1 \in R
      <3>1. PICK g : Builds(g, n)
        BY <2>2
      <3> DEFINE h == [k \in 0 .. n + 1 |-> IF k = n + 1 THEN item(g[n], segment[n + 1]) ELSE g[k]]
      <3>2. n \in Nat
        BY <2>2
      <3>3. /\ h = [k \in 0 .. n + 1 |-> h[k]] /\ h[0] = g[0]
            /\ h[n + 1] = item(g[n], segment[n + 1]) /\ \A k \in 0 .. n : h[k] = g[k]
        BY <3>2
      <3> HIDE DEF h
      <3>4. ASSUME NEW k \in 1 .. n + 1 PROVE h[k] = item(h[k - 1], segment[k])
        <4>1. CASE k = n + 1
          <5>1. k - 1 = n /\ n \in 0 .. n
            BY <3>2, <4>1
          <5> QED BY <3>3, <4>1, <5>1
        <4>2. CASE k # n + 1
          <5>1. k \in 1 .. n /\ k \in 0 .. n /\ k - 1 \in 0 .. n
            BY <3>2, <4>2
          <5> QED BY <3>1, <3>3, <5>1
        <4> QED BY <4>1, <4>2
      <3>5. Builds(h, n + 1)
        BY <3>1, <3>3, <3>4
      <3> HIDE DEF Builds
      <3> QED BY <3>2, <3>5
    <2>3. R \subseteq Nat
      OBVIOUS
    <2> HIDE DEF R
    <2> QED BY <1>1, <2>1, <2>2, <2>3, Counting
  <1>6. it[0] = w0 /\ \A k \in 1 .. N : it[k] = item(it[k - 1], segment[k])
    <2>1. PICK g : Builds(g, N)
      BY <1>5
    <2> HIDE DEF N
    <2>6. g[0] = w0 /\ \A k \in 1 .. N : g[k] = item(g[k - 1], segment[k])
      BY <2>1
    <2>7. \A k \in 0 .. N : k = 0 \/ k \in 1 .. N
      BY <1>1
    <2>2. \A k \in 0 .. N : g[k] = IF k = 0 THEN w0 ELSE item(g[k - 1], segment[k])
      BY <2>6, <2>7
    <2>3. g = body(g)
      BY <2>1, <2>2
    <2> HIDE DEF body
    <2>4. it = body(it)
      BY <2>3
    <2> HIDE DEF it
    <2>5. \A k \in 0 .. N : it[k] = IF k = 0 THEN w0 ELSE item(it[k - 1], segment[k])
      BY <2>4 DEF body
    <2> QED BY <1>1, <2>5
  <1> HIDE DEF it
  <1> DEFINE T == {k \in Nat : k <= N => Taking(it[k])}
  <1>7. 0 \in T
    BY <1>4, <1>6
  <1>8. ASSUME NEW k \in T PROVE k + 1 \in T
    <2>1. k \in Nat /\ (k <= N => Taking(it[k]))
      OBVIOUS
    <2> SUFFICES ASSUME k + 1 <= N PROVE Taking(it[k + 1])
      BY <2>1
    <2> HIDE DEF T
    <2>2. k <= N /\ k + 1 \in 1 .. N /\ (k + 1) - 1 = k
      BY <1>1, <2>1
    <2>3. Taking(it[k]) /\ segment[k + 1] \in Feed!Sample /\ it[k + 1] = item(it[k], segment[k + 1])
      BY <1>1, <1>6, <2>1, <2>2
    <2> QED BY <1>3, <2>3
  <1>9. N \in T
    <2>1. T \subseteq Nat
      OBVIOUS
    <2> HIDE DEF T
    <2> QED BY <1>1, <1>7, <1>8, <2>1, Counting
  <1>10. Taking(it[N])
    <2> HIDE DEF N
    <2> QED BY <1>1, <1>9
  <1> QED BY <1>2, <1>10

(* A buffer, and the buffers of a source.                                  *)
BufferSound(b) ==
  /\ DOMAIN b = {"ready", "samples", "queued", "offset"}
  /\ b.offset \in Int /\ Disjoint(b.samples)

BuffersSound(q) == (\E S : q \in Seq(S)) /\ \A i \in DOMAIN q : BufferSound(q[i])

SourceSound(s) == DOMAIN s = {"ended", "duration", "buffers"} /\ BuffersSound(s.buffers)

LEMMA SamplesOf ==
  ASSUME NEW b, BufferSound(b), NEW s, Disjoint(s), NEW c, c = [b EXCEPT !.samples = s]
  PROVE  BufferSound(c)
  <1>1. DOMAIN c = DOMAIN b /\ c.offset = b.offset /\ c.samples = s
    BY DEF BufferSound
  <1> QED BY <1>1 DEF BufferSound

LEMMA QueuedOf ==
  ASSUME NEW b, BufferSound(b), NEW n, NEW c, c = [b EXCEPT !.queued = n]
  PROVE  BufferSound(c)
  <1>1. DOMAIN c = DOMAIN b /\ c.offset = b.offset /\ c.samples = b.samples
    BY DEF BufferSound
  <1> QED BY <1>1 DEF BufferSound

LEMMA ReadyOf ==
  ASSUME NEW b, BufferSound(b), NEW n, NEW c, c = [b EXCEPT !.ready = n]
  PROVE  BufferSound(c)
  <1>1. DOMAIN c = DOMAIN b /\ c.offset = b.offset /\ c.samples = b.samples
    BY DEF BufferSound
  <1> QED BY <1>1 DEF BufferSound

LEMMA OffsetOf ==
  ASSUME NEW b, BufferSound(b), NEW n \in Int, NEW c, c = [b EXCEPT !.offset = n]
  PROVE  BufferSound(c)
  <1>1. DOMAIN c = DOMAIN b /\ c.offset = n /\ c.samples = b.samples
    BY DEF BufferSound
  <1> QED BY <1>1 DEF BufferSound

LEMMA BothOf ==
  ASSUME NEW b, BufferSound(b), NEW s, Disjoint(s), NEW n, NEW c,
         c = [b EXCEPT !.samples = s, !.queued = n]
  PROVE  BufferSound(c)
  <1>1. DOMAIN c = DOMAIN b /\ c.offset = b.offset /\ c.samples = s
    BY DEF BufferSound
  <1> QED BY <1>1 DEF BufferSound

LEMMA BufferSet ==
  ASSUME NEW s, SourceSound(s), NEW i \in DOMAIN s.buffers, NEW b, BufferSound(b),
         NEW t, t = [s EXCEPT !.buffers[i] = b]
  PROVE  SourceSound(t)
  <1> DEFINE q == s.buffers
             p == [q EXCEPT ![i] = b]
  <1>1. t = [s EXCEPT !.buffers = p]
    OBVIOUS
  <1>2. PICK S : q \in Seq(S)
    BY DEF SourceSound, BuffersSound
  <1>3. p \in Seq(S \cup {b}) /\ DOMAIN p = DOMAIN q
    <2>1. q \in Seq(S \cup {b}) /\ b \in S \cup {b}
      BY <1>2
    <2> DEFINE A == S \cup {b}
    <2> HIDE DEF A, q
    <2>2. q \in Seq(A) /\ b \in A /\ i \in DOMAIN q
      BY <2>1 DEF A, q
    <2>3. p \in Seq(A) /\ DOMAIN p = DOMAIN q
      BY ONLY <2>2
    <2> QED BY <2>3 DEF A
  <1>4. \A k \in DOMAIN p : p[k] = IF k = i THEN b ELSE q[k]
    OBVIOUS
  <1>5. \A k \in DOMAIN q : BufferSound(q[k])
    BY DEF SourceSound, BuffersSound
  <1> HIDE DEF p, q
  <1>6. BuffersSound(p)
    BY <1>3, <1>4, <1>5 DEF BuffersSound
  <1>7. DOMAIN t = DOMAIN s /\ t.buffers = p
    BY <1>1 DEF SourceSound
  <1> QED BY <1>6, <1>7 DEF SourceSound

LEMMA BuffersSet ==
  ASSUME NEW s, SourceSound(s), NEW q, BuffersSound(q), NEW t, t = [s EXCEPT !.buffers = q]
  PROVE  SourceSound(t)
  <1>1. DOMAIN t = DOMAIN s /\ t.buffers = q
    BY DEF SourceSound
  <1> QED BY <1>1 DEF SourceSound

\* What the reader takes out: remove, the changes of the duration.
LEMMA WithoutSound ==
  ASSUME NEW b, BufferSound(b), NEW range
  PROVE  BufferSound(Feed!Wrapped(Feed!Without(b, range)))
  <1> DEFINE S == {s \in Feed!Range(b.samples) : Feed!End(s) <= range.from \/ s.at >= range.to}
             kept == Feed!Filtered(b.samples, S)
             c == Feed!Without(b, range)
             d == Feed!Wrapped(c)
  <1>1. \E n : c = [b EXCEPT !.samples = kept, !.queued = n]
    BY DEF Feed!Without
  <1>2. \E n : d = [c EXCEPT !.queued = n]
    BY DEF Feed!Wrapped
  <1>3. Disjoint(kept)
    BY FilteredDisjoint DEF BufferSound
  <1> HIDE DEF c, d, kept
  <1>4. BufferSound(c)
    BY <1>1, <1>3, BothOf
  <1>5. BufferSound(d)
    BY <1>2, <1>4, QueuedOf
  <1> QED BY <1>5 DEF c, d

\* A list that a buffer cannot keep is cut to what it had before.
LEMMA RolledBackSound ==
  ASSUME NEW b, BufferSound(b), NEW s, Disjoint(s)
  PROVE  BufferSound(Feed!RolledBack(b, s))
  <1> DEFINE n == Len(b.samples)
             cut == Feed!Truncated(s, n)
             c == Feed!RolledBack(b, s)
  <1>1. n \in Nat
    BY LenProperties DEF BufferSound, Disjoint
  <1> HIDE DEF n
  <1>2. Disjoint(cut)
    BY <1>1, TruncatedDisjoint
  <1>3. c = [b EXCEPT !.samples = cut]
    BY DEF Feed!RolledBack, n
  <1> HIDE DEF cut, c
  <1>4. BufferSound(c)
    BY <1>2, <1>3, SamplesOf
  <1> QED BY <1>4 DEF c

\* The changes of one buffer of the source.
LEMMA SetBufferSound ==
  ASSUME SourceSound(source), NEW i \in DOMAIN source.buffers, NEW b, BufferSound(b),
         Feed!SetBuffer(i, b)
  PROVE  SourceSound(source')
  <1> DEFINE t == source'
  <1>1. t = [source EXCEPT !.buffers[i] = b]
    BY DEF Feed!SetBuffer
  <1> HIDE DEF t
  <1>2. SourceSound(t)
    BY <1>1, BufferSet
  <1> QED BY <1>2 DEF t

LEMMA AppendBufferSound ==
  ASSUME SourceSound(source), NEW i \in DOMAIN source.buffers, NEW segment \in Segments,
         Feed!AppendBuffer(i, segment)
  PROVE  SourceSound(source')
  <1> DEFINE b == source.buffers[i]
             result == Feed!Appended(b, segment)
             sorted == Feed!Sorted(result.samples)
             grown == [b EXCEPT !.samples = sorted, !.queued = result.queued]
  <1>1. BufferSound(b)
    BY DEF SourceSound, BuffersSound
  <1>2. segment \in Seq(Feed!Sample)
    BY SourceAssumption DEF Feed!SourceAssumption
  <1>3. \/ UNCHANGED source
        \/ Feed!SetBuffer(i, Feed!RolledBack(b, result.samples))
        \/ Feed!SetBuffer(i, Feed!RolledBack(b, sorted))
        \/ Feed!SetBuffer(i, grown)
    BY DEF Feed!AppendBuffer
  <1> HIDE DEF b
  <1>4. Disjoint(b.samples) /\ b.offset \in Int
    BY <1>1 DEF BufferSound
  <1>5. Taking(result)
    BY <1>2, <1>4, AppendedDisjoint
  <1> HIDE DEF result
  <1>6. Disjoint(result.samples)
    BY <1>5 DEF Taking
  <1>7. Disjoint(sorted)
    BY <1>6, SortedDisjoint
  <1> HIDE DEF sorted
  <1>8. BufferSound(grown)
    <2> DEFINE g == grown
    <2>1. \E n : g = [b EXCEPT !.samples = sorted, !.queued = n]
      OBVIOUS
    <2> HIDE DEF g
    <2>2. BufferSound(g)
      BY <1>1, <1>7, <2>1, BothOf
    <2> QED BY <2>2 DEF g
  <1> HIDE DEF grown
  <1>9. BufferSound(Feed!RolledBack(b, result.samples)) /\ BufferSound(Feed!RolledBack(b, sorted))
    BY <1>1, <1>6, <1>7, RolledBackSound
  <1> QED BY <1>3, <1>8, <1>9, SetBufferSound

LEMMA AddSourceBufferSound ==
  ASSUME SourceSound(source), Feed!AddSourceBuffer
  PROVE  SourceSound(source')
  <1> DEFINE q == source.buffers
             b == Feed!NewBuffer
             p == Append(q, b)
             t == source'
  <1>1. t = [source EXCEPT !.buffers = p] \/ t = source
    BY DEF Feed!AddSourceBuffer, Feed!Refused
  <1>2. BufferSound(b)
    <2> DEFINE e == <<>>
    <2>1. e \in Seq(Samples) /\ DOMAIN e = {}
      OBVIOUS
    <2> HIDE DEF e
    <2>2. Disjoint(e)
      BY <2>1 DEF Disjoint, IsInjective, Range
    <2>3. b = [ready |-> FALSE, samples |-> e, queued |-> 0, offset |-> 0]
      BY DEF Feed!NewBuffer, e
    <2> HIDE DEF b
    <2>4. DOMAIN b = {"ready", "samples", "queued", "offset"} /\ b.offset = 0 /\ b.samples = e
      BY <2>3
    <2> QED BY <2>2, <2>4 DEF BufferSound
  <1>3. PICK S : q \in Seq(S)
    BY DEF SourceSound, BuffersSound
  <1>4. \A k \in DOMAIN q : BufferSound(q[k])
    BY DEF SourceSound, BuffersSound
  <1>5. BuffersSound(p)
    <2> DEFINE A == S \cup {b}
    <2>1. q \in Seq(A) /\ b \in A
      BY <1>3
    <2> HIDE DEF A, b, q
    <2>2. p \in Seq(A) /\ \A k \in DOMAIN p : p[k] = b \/ (k \in DOMAIN q /\ p[k] = q[k])
      BY ONLY <2>1
    <2> HIDE DEF p
    <2> QED BY <1>2, <1>4, <2>2 DEF BuffersSound
  <1> HIDE DEF p, t
  <1>6. SourceSound(t)
    BY <1>1, <1>5, BuffersSet
  <1> QED BY <1>6 DEF t

LEMMA SetDurationSound ==
  ASSUME SourceSound(source), NEW duration, Feed!SetDuration(duration)
  PROVE  SourceSound(source')
  <1> DEFINE q == source.buffers
             cut(b) == Feed!Wrapped(Feed!Without(b, [from |-> duration, to |-> MaxTime]))
             p == [k \in DOMAIN q |-> cut(q[k])]
             t == source'
  <1>1. t = [source EXCEPT !.duration = duration, !.buffers = p] \/ t = source
    BY DEF Feed!SetDuration, Feed!Refused
  <1>2. PICK S : q \in Seq(S)
    BY DEF SourceSound, BuffersSound
  <1>3. \A k \in DOMAIN q : BufferSound(cut(q[k]))
    BY WithoutSound DEF SourceSound, BuffersSound
  <1> HIDE DEF cut, q
  <1>4. BuffersSound(p)
    <2> DEFINE A == {p[k] : k \in DOMAIN q}
    <2>1. \A k \in DOMAIN q : p[k] \in A
      OBVIOUS
    <2>2. DOMAIN q = 1 .. Len(q) /\ Len(q) \in Nat
      BY <1>2, LenProperties
    <2>3. p = [k \in 1 .. Len(q) |-> p[k]] /\ DOMAIN p = DOMAIN q /\ \A k \in DOMAIN q : p[k] = cut(q[k])
      BY <2>2
    <2> HIDE DEF A, p
    <2>4. p \in Seq(A)
      BY <2>1, <2>2, <2>3
    <2> QED BY <1>3, <2>3, <2>4 DEF BuffersSound
  <1> HIDE DEF p, t
  <1>5. ASSUME t = [source EXCEPT !.duration = duration, !.buffers = p] PROVE SourceSound(t)
    <2>1. DOMAIN t = DOMAIN source /\ t.buffers = p
      BY <1>5 DEF SourceSound
    <2> QED BY <1>4, <2>1 DEF SourceSound
  <1> QED BY <1>1, <1>5 DEF t

LEMMA SourceStep ==
  ASSUME SourceSound(source), [Feed!Next]_(Feed!vars)
  PROVE  SourceSound(source')
  <1>1. CASE UNCHANGED Feed!vars
    BY <1>1 DEF Feed!vars
  <1>2. CASE Feed!OnElement
    BY <1>2 DEF Feed!OnElement
  <1>3. CASE Feed!OnSource
    <2>1. CASE Feed!AddSourceBuffer
      BY <2>1, AddSourceBufferSound
    <2>2. ASSUME NEW duration \in Durations, Feed!SetDuration(duration) PROVE SourceSound(source')
      BY <2>2, SetDurationSound
    <2>3. CASE Feed!EndOfStream
      <3> DEFINE t == source'
      <3>1. t = [source EXCEPT !.ended = TRUE] \/ t = source
        BY <2>3 DEF Feed!EndOfStream, Feed!Refused
      <3> HIDE DEF t
      <3>2. DOMAIN t = DOMAIN source /\ t.buffers = source.buffers
        BY <3>1 DEF SourceSound
      <3>3. SourceSound(t)
        BY <3>2 DEF SourceSound
      <3> QED BY <3>3 DEF t
    <2>4. ASSUME NEW i \in DOMAIN source.buffers,
                 \/ Feed!AppendInit(i)
                 \/ \E segment \in Segments : Feed!AppendBuffer(i, segment)
                 \/ \E range \in Ranges : Feed!RemoveRange(i, range)
                 \/ \E offset \in Offsets : Feed!SetOffset(i, offset)
          PROVE  SourceSound(source')
      <3> DEFINE b == source.buffers[i]
      <3>1. BufferSound(b)
        BY DEF SourceSound, BuffersSound
      <3>2. CASE Feed!AppendInit(i)
        <4> DEFINE c == [b EXCEPT !.ready = TRUE]
        <4>1. Feed!SetBuffer(i, c) \/ UNCHANGED source
          BY <3>2 DEF Feed!AppendInit
        <4>2. \E n : c = [b EXCEPT !.ready = n]
          OBVIOUS
        <4> HIDE DEF b, c
        <4>3. BufferSound(c)
          BY <3>1, <4>2, ReadyOf
        <4> QED BY <4>1, <4>3, SetBufferSound
      <3>3. ASSUME NEW segment \in Segments, Feed!AppendBuffer(i, segment) PROVE SourceSound(source')
        BY <3>3, AppendBufferSound
      <3>4. ASSUME NEW range \in Ranges, Feed!RemoveRange(i, range) PROVE SourceSound(source')
        <4> DEFINE c == Feed!Wrapped(Feed!Without(b, range))
        <4>1. Feed!SetBuffer(i, c)
          BY <3>4 DEF Feed!RemoveRange
        <4> HIDE DEF b
        <4>2. BufferSound(c)
          BY <3>1, WithoutSound
        <4> HIDE DEF c
        <4> QED BY <4>1, <4>2, SetBufferSound
      <3>5. ASSUME NEW offset \in Offsets, Feed!SetOffset(i, offset) PROVE SourceSound(source')
        <4> DEFINE c == [b EXCEPT !.offset = offset]
        <4>1. Feed!SetBuffer(i, c)
          BY <3>5 DEF Feed!SetOffset
        <4>2. offset \in Int
          BY SourceAssumption DEF Feed!SourceAssumption
        <4> HIDE DEF b
        <4>3. BufferSound(c)
          BY <3>1, <4>2, OffsetOf
        <4> HIDE DEF c
        <4> QED BY <4>1, <4>3, SetBufferSound
      <3> QED BY <2>4, <3>2, <3>3, <3>4, <3>5
    <2> QED BY <1>3, <2>1, <2>2, <2>3, <2>4 DEF Feed!OnSource
  <1> QED BY <1>1, <1>2, <1>3 DEF Feed!Next

LEMMA SourceInit ==
  ASSUME Feed!Init
  PROVE  SourceSound(source)
  <1> DEFINE e == <<>>
  <1>1. (\E S : e \in Seq(S)) /\ DOMAIN e = {}
    OBVIOUS
  <1>2. source = [ended |-> FALSE, duration |-> Feed!NoDuration, buffers |-> e]
    BY DEF Feed!Init, Feed!Opened
  <1> HIDE DEF e
  <1>3. BuffersSound(e)
    BY <1>1 DEF BuffersSound
  <1>4. DOMAIN source = {"ended", "duration", "buffers"} /\ source.buffers = e
    BY <1>2
  <1> QED BY <1>3, <1>4 DEF SourceSound

LEMMA SourceDisjoint ==
  ASSUME SourceSound(source)
  PROVE  SamplesDisjoint
  <1> SUFFICES ASSUME NEW i \in DOMAIN source.buffers
               PROVE  LET q == source.buffers[i].samples
                      IN  \A j, k \in DOMAIN q :
                            j # k /\ q[j].track = q[k].track =>
                              Feed!End(q[j]) <= q[k].at \/ Feed!End(q[k]) <= q[j].at
    BY DEF SamplesDisjoint, Feed!SamplesDisjoint
  <1> DEFINE q == source.buffers[i].samples
  <1>1. Disjoint(q)
    BY DEF SourceSound, BuffersSound, BufferSound
  <1> HIDE DEF q
  <1>2. ASSUME NEW j \in DOMAIN q, NEW k \in DOMAIN q, j # k PROVE Clear(q[j], q[k])
    BY <1>1, <1>2 DEF Disjoint, IsInjective, Range
  <1> QED BY <1>2 DEF Clear, q

(* Two samples of one track in a source buffer never cover the same time,  *)
(* for every segment, offset, range and limit: whatever was appended over  *)
(* what, removed, refused half-way or rolled back (mse.rs).                *)
THEOREM SamplesStayDisjoint == Feed!Spec => []SamplesDisjoint
  <1>1. Feed!Init => SourceSound(source)
    BY SourceInit
  <1>2. SourceSound(source) /\ [Feed!Next]_(Feed!vars) => SourceSound(source')
    BY SourceStep
  <1>3. SourceSound(source) => SamplesDisjoint
    BY SourceDisjoint
  <1> DEFINE I == SourceSound(source)
  <1>4. Feed!Init => I
    BY <1>1
  <1>5. I /\ [Feed!Next]_(Feed!vars) => I'
    BY <1>2
  <1>6. I => SamplesDisjoint
    BY <1>3
  <1> HIDE DEF I
  <1> QED BY <1>4, <1>5, <1>6, PTL DEF Feed!Spec
====
