----------------------------- MODULE TabManager -----------------------------
(***************************************************************************)
(* The tab strip (src/src/tab.rs, struct TabManager): the open tabs by id, *)
(* their order, the active one and the stack of recently closed tabs.      *)
(* Operators only; a tab manager is a record of those fields.              *)
(***************************************************************************)
EXTENDS Naturals, Sequences, SequencesExt

CONSTANT MaxClosed   \* entries of closed_tabs kept, 25 in the code

\* HashMap::insert and HashMap::remove.
Insert(f, t, v) == [x \in DOMAIN f \cup {t} |-> IF x = t THEN v ELSE f[x]]
Forget(f, t) == [x \in DOMAIN f \ {t} |-> f[x]]

EmptyManager ==
  [tabs |-> <<>>, tab_order |-> <<>>, active_tab_id |-> 0,
   next_id |-> 1, closed_tabs |-> <<>>]

OpenIds(tm) == DOMAIN tm.tabs
ActiveTab(tm) == tm.tabs[tm.active_tab_id]
IndexOf(tm, id) == CHOOSE i \in DOMAIN tm.tab_order : tm.tab_order[i] = id

WithTab(tm, id, tab) == [tm EXCEPT !.tabs[id] = tab]

\* add_tab: a new id at the right end, made active.
AddTab(tm, tab) ==
  [tm EXCEPT !.tabs = Insert(@, tm.next_id, tab),
             !.tab_order = Append(@, tm.next_id),
             !.active_tab_id = tm.next_id,
             !.next_id = @ + 1]

Activate(tm, id) == [tm EXCEPT !.active_tab_id = id]

\* activate_next (step = 1) and activate_prev (step = Len - 1).
Cycled(tm, step) ==
  Activate(tm, tm.tab_order[((IndexOf(tm, tm.active_tab_id) + step - 1)
                              % Len(tm.tab_order)) + 1])

BoundedClosed(s) == IF Len(s) > MaxClosed THEN Tail(s) ELSE s

\* remove_tab: the right neighbour becomes active, or the new last tab; id 0
\* stands for None.  Ids are distinct, so retain drops the one position of id.
\* A tab worth reopening is remembered by its address.
RemoveTab(tm, id, reopenable) ==
  LET old == IndexOf(tm, id)
      order == RemoveAt(tm.tab_order, old)
      heir == IF order = <<>> THEN 0
              ELSE order[IF old > Len(order) THEN Len(order) ELSE old]
  IN  [tm EXCEPT !.tab_order = order,
                 !.active_tab_id = IF @ = id THEN heir ELSE @,
                 !.tabs = Forget(@, id),
                 !.closed_tabs = IF reopenable THEN BoundedClosed(Append(@, tm.tabs[id].url)) ELSE @]

PopClosed(tm) == [tm EXCEPT !.closed_tabs = Front(@)]

\* The order lists each open tab once and, with tabs open, one is active.
StripSound(tm) ==
  /\ ToSet(tm.tab_order) = OpenIds(tm)
  /\ IsInjective(tm.tab_order)
  /\ IF OpenIds(tm) = {} THEN tm.active_tab_id = 0 ELSE tm.active_tab_id \in OpenIds(tm)
  /\ \A id \in OpenIds(tm) : id < tm.next_id
  /\ Len(tm.closed_tabs) <= MaxClosed
=============================================================================
