------------------------------ MODULE TabsStore ------------------------------
(***************************************************************************)
(* The tabs store of the renderer (stores/tabs/store.ts, utils.ts,         *)
(* actions/move-pane.ts) with the view that draws one tab (TabView).       *)
(* Tabs hold a layout, a tree of pane ids; panes name the tab they are in. *)
(* Of a tree there are here its leaves, in the order in which they are     *)
(* drawn: it matters which panes are drawn, how often, and which are       *)
(* neighbours.  A subtree is then a run of neighbours, and a path leads to *)
(* one.  Tabs and panes are numbered as they are made, and tabs stand in   *)
(* that order.  Names, titles and statuses are left out, and of a          *)
(* file-viewer which file it shows.                                        *)
(***************************************************************************)
EXTENDS Naturals, FiniteSets, SequencesExt

CONSTANTS
  WorkspaceId,
  MaxClosed,   \* closed tabs that are remembered (20 in the code)
  MaxTabs,     \* bound: tabs made
  MaxPanes     \* bound: panes made

ASSUME ClosedAssumption == MaxClosed \in Nat /\ MaxTabs \in Nat /\ MaxPanes \in Nat

Type == {"terminal", "file-viewer", "webview", "devtools"}
NoTab == 0
NoDrag == [tab |-> NoTab, pane |-> 0, layout |-> <<>>]

VARIABLES
  tabs,     \* function: workspace and layout of each tab
  panes,    \* function: tab of each pane, and the target of a devtools pane
  active,   \* active tab of a workspace
  focused,  \* function: focused pane of a tab
  recent,   \* tabHistoryStacks
  closed,   \* closedTabsStack
  drag,     \* the pane being dragged and the tree that was drawn at the start
  killed,   \* panes whose terminal has been killed
  type,     \* types of all panes made, by number
  made,     \* number of tabs made
  astray,   \* history: tabs whose layout has named a pane that is not theirs
  torn      \* history: tabs that were split at a path of the drawn tree that
            \* does not lead to the pane in their layout

storeVars == <<tabs, panes, active, focused, recent, closed, killed, astray>>
tabVars == <<storeVars, drag, type, made, torn>>

-----------------------------------------------------------------------------
(* Layouts: the sequence of the panes of the leaves.                       *)

PanesIn(t) == ToSet(t)

(* cleanLayout and removePaneFromLayout: only the leaves in keep remain.   *)
(* (SelectSeq, written out because the proofs need its definition.)        *)
Keep(t, keep) ==
  LET kept[i \in 0..Len(t)] ==
        IF i = 0 THEN <<>>
        ELSE IF t[i] \in keep THEN Append(kept[i - 1], t[i]) ELSE kept[i - 1]
  IN kept[Len(t)]

Without(t, gone) == Keep(t, PanesIn(t) \ gone)

(* findPanePath, which finds one of them.                                  *)
Places(t, p) == {i \in DOMAIN t : t[i] = p}

(* (external) updateTree with $set: the subtree from i to j gives way.     *)
SetAt(t, i, j, nodes) == SubSeq(t, 1, i - 1) \o nodes \o SubSeq(t, j + 1, Len(t))

(* getAdjacentPaneId.                                                      *)
Adjacent(t, p) ==
  LET at == Places(t, p)
  IN IF at = {} THEN t[1] ELSE IF Min(at) < Len(t) THEN t[Min(at) + 1] ELSE t[Min(at) - 1]

-----------------------------------------------------------------------------
(* What set() and get() see.                                               *)
Store == [tabs |-> tabs, panes |-> panes, active |-> active, focused |-> focused,
          recent |-> recent, closed |-> closed, killed |-> killed]

PanesOf(s, t) == {p \in DOMAIN s.panes : s.panes[p].tab = t}
TabsOf(s, w) == {t \in DOMAIN s.tabs : s.tabs[t].ws = w}
Terminals(ps) == {p \in ps : type[p] = "terminal"}
Drawn(s, t) == Keep(s.tabs[t].layout, PanesOf(s, t))

(* Maps: without some keys, and with others in place of what was there     *)
(* (:> and @@, written out because the proofs need their definitions).     *)
Drop(f, S) == Restrict(f, DOMAIN f \ S)
Added(f, new) == [x \in DOMAIN f \cup DOMAIN new |-> IF x \in DOMAIN new THEN new[x] ELSE f[x]]
Put(f, x, v) == [y \in DOMAIN f \cup {x} |-> IF y = x THEN v ELSE f[y]]

Set(s) ==
  /\ tabs' = s.tabs /\ panes' = s.panes /\ active' = s.active /\ focused' = s.focused
  /\ recent' = s.recent /\ closed' = s.closed /\ killed' = s.killed
  /\ astray' = astray \cup {t \in DOMAIN s.tabs : Drawn(s, t) # s.tabs[t].layout}

NoChange == UNCHANGED <<drag, type, made, torn>>

(* The stack after the active tab of the workspace has been left.          *)
Pushed(s, w) ==
  IF s.active[w] = NoTab THEN s.recent[w]
  ELSE <<s.active[w]>> \o Without(s.recent[w], {s.active[w]})

\* Variant: the tab that goes stays in the stack.
VisitedOnly(s, w, to, gone) ==
  LET stack == IF s.active[w] = to THEN s.recent[w] ELSE Pushed(s, w)
  IN Without(stack, {to})

(* updateHistoryStack.                                                     *)
Visited(s, w, to, gone) ==
  LET stack == IF s.active[w] = to THEN s.recent[w] ELSE Pushed(s, w)
  IN Without(stack, {to, gone})

FirstOf(S) == IF S = {} THEN NoTab ELSE Min(S)

(* resolveActiveTabIdForWorkspace.                                         *)
ResolveActive(s, w) ==
  LET stack == Keep(<<s.active[w]>> \o s.recent[w], TabsOf(s, w))
  IN IF stack = <<>> THEN FirstOf(TabsOf(s, w)) ELSE stack[1]

(* findNextTab: the stack, then the next tab, then the one before.         *)
FindNextTab(s, t) ==
  LET others == TabsOf(s, s.tabs[t].ws) \ {t}
      stack  == Keep(s.recent[s.tabs[t].ws], others)
      later  == {u \in others : u > t}
  IN IF others = {} THEN NoTab
     ELSE IF stack # <<>> THEN stack[1]
     ELSE IF later # {} THEN Min(later) ELSE Max(others)

-----------------------------------------------------------------------------
OpenTab(s, t, w, layout, new) ==
  [s EXCEPT !.tabs = Put(@, t, [ws |-> w, layout |-> layout]),
            !.panes = Added(@, new),
            !.focused = Put(@, t, layout[1]),
            !.active[w] = t,
            !.recent[w] = Pushed(s, w)]

RemoveTab(s, t) ==
  LET w == s.tabs[t].ws
      gone == PanesOf(s, t)
      entry == [tab |-> t, ws |-> w, layout |-> s.tabs[t].layout, panes |-> Restrict(s.panes, gone)]
      stack == <<entry>> \o s.closed
  IN IF t \notin DOMAIN s.tabs THEN s
     ELSE [s EXCEPT !.tabs = Drop(@, {t}),
                    !.panes = Drop(@, gone),
                    !.active[w] = IF @ = t THEN FindNextTab(s, t) ELSE @,
                    !.focused = Drop(@, {t}),
                    !.recent[w] = Without(@, {t}),
                    !.closed = SubSeq(stack, 1, Min({Len(stack), MaxClosed})),
                    !.killed = @ \cup Terminals(gone)]

(* A pane closes with the devtools panes that inspect it, which need not   *)
(* be in the same tab.                                                     *)
RemovePane(s, p) ==
  LET t == s.panes[p].tab
      gone == {p} \cup {q \in DOMAIN s.panes : type[q] = "devtools" /\ s.panes[q].target = p}
      left == Without(s.tabs[t].layout, gone)
      next == IF Len(s.tabs[t].layout) < 2 THEN left[1] ELSE Adjacent(s.tabs[t].layout, p)
  IN IF p \notin DOMAIN s.panes THEN s
     ELSE IF PanesOf(s, t) \subseteq gone \/ left = <<>> THEN RemoveTab(s, t)
     ELSE [s EXCEPT !.tabs[t].layout = left,
                    !.panes = Drop(@, gone),
                    !.focused = IF t \in DOMAIN @ /\ @[t] \in gone THEN Put(@, t, next) ELSE @,
                    !.killed = @ \cup Terminals(gone)]

\* Variant: panes of other tabs go as well.
UpdateTabLayoutForeign(s, t, layout) ==
  LET removed == PanesIn(s.tabs[t].layout) \ PanesIn(layout)
      gone == removed \cap DOMAIN s.panes
  IN IF t \notin DOMAIN s.tabs THEN s
     ELSE [s EXCEPT !.tabs[t].layout = layout,
                    !.panes = Drop(@, gone),
                    !.focused = IF t \in DOMAIN @ /\ @[t] \in removed
                                THEN Put(@, t, layout[1]) ELSE @,
                    !.killed = @ \cup Terminals(gone)]

UpdateTabLayout(s, t, layout) ==
  LET removed == PanesIn(s.tabs[t].layout) \ PanesIn(layout)
      gone == removed \cap PanesOf(s, t)
  IN IF t \notin DOMAIN s.tabs THEN s
     ELSE [s EXCEPT !.tabs[t].layout = layout,
                    !.panes = Drop(@, gone),
                    !.focused = IF t \in DOMAIN @ /\ @[t] \in removed
                                THEN Put(@, t, layout[1]) ELSE @,
                    !.killed = @ \cup Terminals(gone)]

RemovePanes(s, ids) ==
  LET after[i \in 0..Len(ids)] == IF i = 0 THEN s ELSE RemovePane(after[i - 1], ids[i])
  IN after[Len(ids)]

(* handleLayoutChange: what the new tree leaves out is removed first, one  *)
(* pane after the other.                                                   *)
HandleLayoutChange(s, t, layout) ==
  LET old == IF t \in DOMAIN s.tabs THEN s.tabs[t].layout ELSE <<>>
      removed == Keep(old, PanesOf(s, t) \ PanesIn(layout))
  IN UpdateTabLayout(RemovePanes(s, removed), t, layout)

(* createPane, for each of the new panes of a tab.                         *)
Created(t, new) == [p \in new |-> [tab |-> t, target |-> 0]]

AddPanes(s, t, new, layout, focus) ==
  [s EXCEPT !.tabs[t].layout = layout,
            !.panes = Added(@, Created(t, new)),
            !.focused = Put(@, t, focus)]

-----------------------------------------------------------------------------
(* Actions.  Those of the user wait for the end of a drag.                 *)

Idle == drag = NoDrag
NewTab == made + 1
NewPane == Len(type) + 1
NewPanes(n) == [i \in 1..n |-> Len(type) + i]
Shown(t, p) == t \in DOMAIN tabs /\ p \in PanesIn(Drawn(Store, t))

Making(n, kind) ==
  /\ NewPane + n - 1 <= MaxPanes
  /\ type' = type \o [i \in 1..n |-> kind]

(* addTab, addTabWithMultiplePanes, addBrowserTab.                         *)
AddTab(w, n, kind) ==
  /\ made < MaxTabs /\ made' = NewTab /\ Making(n, kind)
  /\ Set(OpenTab(Store, NewTab, w, NewPanes(n), Created(NewTab, ToSet(NewPanes(n)))))
  /\ UNCHANGED <<drag, torn>>

CloseTab(t) ==
  /\ Idle /\ t \in DOMAIN tabs
  /\ Set(RemoveTab(Store, t)) /\ NoChange

(* TabView's effect: a tab that draws nothing goes.                        *)
AutoRemove(w) ==
  LET t == ResolveActive(Store, w)
  IN /\ t # NoTab /\ Drawn(Store, t) = <<>>
     /\ Set(RemoveTab(Store, t)) /\ NoChange

SetActiveTab(w, t) ==
  /\ Idle /\ t \in TabsOf(Store, w)
  /\ Set([Store EXCEPT !.active[w] = t, !.recent[w] = Visited(Store, w, t, NoTab)]) /\ NoChange

(* addPane, and addPanesToTab: another tree, but of the same leaves.       *)
AddPanesToTab(t, n) ==
  /\ t \in DOMAIN tabs /\ Making(n, "terminal")
  /\ Set(AddPanes(Store, t, ToSet(NewPanes(n)), tabs[t].layout \o NewPanes(n), NewPane))
  /\ UNCHANGED <<drag, made, torn>>

(* Where a path to p that is not empty leads in the layout of its tab: the *)
(* path of a hotkey is one of the layout, the toolbar's one of the drawn   *)
(* tree, which may, if this is another one, lead to any subtree.           *)
Leads(t, p) ==
  LET layout == tabs[t].layout  drawn == Drawn(Store, t)  all == DOMAIN layout
  IN {<<i, i>> : i \in Places(layout, p)} \cup
       {at \in all \X all : drawn # layout /\ Len(drawn) > 1 /\ at[1] <= at[2] /\ at # <<1, Len(layout)>>}

Tears(t, p, at) == at[1] # at[2] \/ tabs[t].layout[at[1]] # p

SplitAt(t, p, at) == SetAt(tabs[t].layout, at[1], at[2], <<p, NewPane>>)

(* splitPaneVertical and -Horizontal: without a path the new pane comes    *)
(* beside all others, else what is at the path gives way to p and it.      *)
Split(t, p) ==
  /\ Idle /\ Shown(t, p) /\ Making(1, "terminal")
  /\ \/ /\ Set(AddPanes(Store, t, {NewPane}, Append(tabs[t].layout, NewPane), NewPane))
        /\ UNCHANGED torn
     \/ \E at \in Leads(t, p) :
          /\ Set(AddPanes(Store, t, {NewPane}, SplitAt(t, p, at), NewPane))
          /\ torn' = torn \cup {u \in {t} : Tears(u, p, at)}
  /\ UNCHANGED <<drag, made>>

(* openDevToolsPane: the path is that of the drawn tree, and an empty one  *)
(* if p is all that is drawn.                                              *)
OpenDevTools(t, p) ==
  LET opened(layout) ==
        [AddPanes(Store, t, {NewPane}, layout, p) EXCEPT !.panes[NewPane].target = p]
  IN /\ Idle /\ Shown(t, p) /\ type[p] = "webview" /\ Making(1, "devtools")
     /\ IF Drawn(Store, t) = <<p>>
        THEN Set(opened(Append(tabs[t].layout, NewPane))) /\ UNCHANGED torn
        ELSE \E at \in Leads(t, p) :
               /\ Set(opened(SplitAt(t, p, at)))
               /\ torn' = torn \cup {u \in {t} : Tears(u, p, at)}
     /\ UNCHANGED <<drag, made>>

ClosePane(p) ==
  /\ p \in DOMAIN panes
  /\ Set(RemovePane(Store, p)) /\ NoChange

SetFocusedPane(t, p) ==
  /\ Idle /\ Shown(t, p)
  /\ Set([Store EXCEPT !.focused = Put(@, t, p)]) /\ NoChange

(* addFileViewerPane: a viewer of the active tab's layout is reused or     *)
(* only focused, or a new one opens in a tab of its own or beside it.      *)
OpenFile(w) ==
  LET t == ResolveActive(Store, w)
  IN /\ Idle /\ t # NoTab
     /\ \/ \E p \in PanesIn(tabs[t].layout) \cap DOMAIN panes :
             /\ type[p] = "file-viewer"
             /\ Set([Store EXCEPT !.focused = Put(@, t, p)]) /\ NoChange
        \/ /\ Making(1, "file-viewer")
           /\ Set(AddPanes(Store, t, {NewPane}, Append(tabs[t].layout, NewPane), NewPane))
           /\ UNCHANGED <<drag, made, torn>>

(* openInBrowserPane: any browser pane of the workspace, else a new one in *)
(* the active tab.                                                         *)
OpenInBrowser(w) ==
  LET t == ResolveActive(Store, w)
      browsers == {p \in DOMAIN panes : type[p] = "webview" /\ panes[p].tab \in TabsOf(Store, w)}
  IN /\ t # NoTab
     /\ IF browsers # {}
        THEN \E p \in browsers :
               /\ Set([Store EXCEPT !.active[w] = panes[p].tab,
                                    !.focused = Put(@, panes[p].tab, p),
                                    !.recent[w] = Pushed(Store, w)])
               /\ NoChange
        ELSE /\ Making(1, "webview")
             /\ Set(AddPanes(Store, t, {NewPane}, Append(tabs[t].layout, NewPane), NewPane))
             /\ UNCHANGED <<drag, made, torn>>

-----------------------------------------------------------------------------
(* Dragging.                                                               *)

Dragged(p) == Idle \/ drag.pane = p

(* Tab s's layout and focus after pane p has left it.                      *)
Leave(s, t, p) ==
  LET left == Without(s.tabs[t].layout, {p})
      base == [s EXCEPT !.tabs[t].layout = IF left = <<>> THEN @ ELSE left]
  IN IF left # <<>> /\ t \in DOMAIN s.focused /\ s.focused[t] = p
     THEN [base EXCEPT !.focused[t] = left[1]] ELSE base

WithPane(f, t, p) == [f EXCEPT ![t].layout = Append(@, p)]

\* Variant: one pane is left, not one there.
IsLastButOne(s, t, p) == Cardinality(PanesOf(s, t) \ {p}) = 1

IsLast(s, t, p) == PanesOf(s, t) = {p}

MovePaneToTab(p, to) ==
  LET from == panes[p].tab
      w == tabs[from].ws
      gone == {t \in {from} : IsLast(Store, t, p)}
      base == Leave(Store, from, p)
  IN /\ Dragged(p) /\ p \in DOMAIN panes /\ Shown(from, p)
     /\ to \in TabsOf(Store, w) \ {from} /\ p \notin PanesIn(tabs[to].layout)
     /\ Set([base EXCEPT !.tabs = Drop(WithPane(@, to, p), gone),
                         !.panes[p].tab = to,
                         !.focused = Put(Drop(@, gone), to, p),
                         !.active[w] = to,
                         !.recent[w] = Visited(Store, w, to, IF gone = {} THEN NoTab ELSE from)])
     /\ NoChange

MovePaneToNewTab(p) ==
  LET from == panes[p].tab
      w == tabs[from].ws
  IN /\ Dragged(p) /\ p \in DOMAIN panes /\ Shown(from, p)
     /\ ~IsLast(Store, from, p)
     /\ made < MaxTabs /\ made' = NewTab
     /\ Set([Leave(Store, from, p) EXCEPT
               !.tabs = Put(@, NewTab, [ws |-> w, layout |-> <<p>>]),
               !.panes[p].tab = NewTab,
               !.focused = Put(@, NewTab, p),
               !.active[w] = NewTab,
               !.recent[w] = Visited(Store, w, NewTab, NoTab)])
     /\ UNCHANGED <<drag, type, torn>>

StartDrag(w, p) ==
  LET t == ResolveActive(Store, w)
  IN /\ Idle /\ t # NoTab /\ Shown(t, p)
     /\ drag' = [tab |-> t, pane |-> p, layout |-> Drawn(Store, t)]
     /\ UNCHANGED <<storeVars, type, made, torn>>

(* (external) react-mosaic hands back the tree it had drawn, as it was or  *)
(* with the pane beside another one.                                       *)
Arrangements ==
  LET rest == Without(drag.layout, {drag.pane})
  IN {drag.layout} \cup
       UNION {{SetAt(rest, i, i, <<rest[i], drag.pane>>), SetAt(rest, i, i, <<drag.pane, rest[i]>>)} :
                i \in DOMAIN rest}

EndDrag ==
  /\ ~Idle /\ drag' = NoDrag
  /\ \E layout \in Arrangements : Set(HandleLayoutChange(Store, drag.tab, layout))
  /\ UNCHANGED <<type, made, torn>>

-----------------------------------------------------------------------------
(* reopenClosedTab: the last closed tab of the workspace, its tab and its  *)
(* panes with new ids; what else the layout names stays.                   *)
Rank(S, p) == Cardinality({q \in S : q <= p})
Renumbered(old, p) == IF p \in old THEN Len(type) + Rank(old, p) ELSE p
FormerOf(old, q) == CHOOSE p \in old : Renumbered(old, p) = q

Restored(saved, q) == [saved[FormerOf(DOMAIN saved, q)] EXCEPT !.tab = NewTab]

ReopenClosedTab(w) ==
  LET mine == {i \in DOMAIN closed : closed[i].ws = w}
      entry == closed[Min(mine)]
      old == DOMAIN entry.panes
      layout == [i \in DOMAIN entry.layout |-> Renumbered(old, entry.layout[i])]
      restored == [q \in {Renumbered(old, p) : p \in old} |-> Restored(entry.panes, q)]
  IN /\ Idle /\ mine # {} /\ made < MaxTabs /\ made' = NewTab
     /\ Len(type) + Cardinality(old) <= MaxPanes
     /\ type' = type \o [i \in 1..Cardinality(old) |-> type[FormerOf(old, Len(type) + i)]]
     /\ Set([OpenTab(Store, NewTab, w, layout, restored) EXCEPT !.closed = RemoveAt(@, Min(mine))])
     /\ torn' = torn \cup {t \in {NewTab} : entry.tab \in torn}
     /\ UNCHANGED drag

(* A new renderer: merge cleans what was persisted, which is all but the   *)
(* closed tabs.                                                            *)
Reload ==
  /\ drag' = NoDrag
  /\ Set([Store EXCEPT
            !.active = [w \in WorkspaceId |-> ResolveActive(Store, w)],
            !.recent = [w \in WorkspaceId |->
                          IF TabsOf(Store, w) = {} THEN @[w]
                          ELSE Keep(@[w], TabsOf(Store, w))],
            !.focused = Restrict(@, {t \in DOMAIN @ : @[t] \in PanesOf(Store, t)}),
            !.closed = <<>>])
  /\ UNCHANGED <<type, made, torn>>

StoreInit ==
  /\ tabs = <<>> /\ panes = <<>> /\ focused = <<>> /\ closed = <<>>
  /\ active = [w \in WorkspaceId |-> NoTab] /\ recent = [w \in WorkspaceId |-> <<>>]
  /\ drag = NoDrag /\ killed = {} /\ type = <<>> /\ made = 0 /\ astray = {} /\ torn = {}

StoreNext ==
  \/ \E w \in WorkspaceId :
       \/ \E n \in 1..2 : AddTab(w, n, "terminal")
       \/ \E kind \in {"webview", "file-viewer"} : AddTab(w, 1, kind)
       \/ AutoRemove(w) \/ OpenFile(w) \/ OpenInBrowser(w) \/ ReopenClosedTab(w)
       \/ \E t \in DOMAIN tabs : SetActiveTab(w, t)
       \/ \E p \in DOMAIN panes : StartDrag(w, p)
  \/ \E t \in DOMAIN tabs :
       \/ CloseTab(t) \/ \E n \in 1..2 : AddPanesToTab(t, n)
       \/ \E p \in DOMAIN panes :
            Split(t, p) \/ OpenDevTools(t, p) \/ SetFocusedPane(t, p) \/ MovePaneToTab(p, t)
  \/ \E p \in DOMAIN panes : ClosePane(p) \/ MovePaneToNewTab(p)
  \/ EndDrag \/ Reload

StoreSpec == StoreInit /\ [][StoreNext]_tabVars

-----------------------------------------------------------------------------
Once(t, p) == \E i \in DOMAIN t : \A j \in DOMAIN t : t[j] = p <=> j = i

\* Every pane is drawn exactly once, in the tab it names, unless that tab was split at a
\* path of what was drawn that leads elsewhere in its layout, which named panes of other
\* tabs or closed ones; and a terminal is killed exactly when its pane goes.
PaneShownOrKilled ==
  /\ \A p \in DOMAIN panes :
       /\ panes[p].tab \in DOMAIN tabs
       /\ panes[p].tab \notin torn => Once(tabs[panes[p].tab].layout, p)
  /\ killed = Terminals(DOMAIN type) \ DOMAIN panes

\* A workspace with tabs has one of them active and remembers only its own, each once.
\* The focused pane of a tab is one of its panes, unless the layout has named others or
\* one pane twice, or the focus went to a devtools pane that closed with its target.
PointersLive ==
  /\ \A w \in WorkspaceId :
       /\ active[w] = NoTab <=> TabsOf(Store, w) = {}
       /\ ToSet(recent[w]) \cup {active[w]} \subseteq TabsOf(Store, w) \cup {NoTab}
       /\ IsInjective(recent[w])
  /\ \A t \in DOMAIN focused :
       /\ t \in DOMAIN tabs
       /\ focused[t] \in PanesOf(Store, t) \/ t \in astray \cup torn
            \/ (type[focused[t]] = "devtools" /\ focused[t] \notin DOMAIN panes)

\* The end of a drag removes no pane that has been moved to another tab, although the tree
\* it brings may be older than the move; a devtools pane goes with its target.
DragSparesOthers ==
  [][~Idle /\ Idle' => \A p \in DOMAIN panes \ DOMAIN panes' :
       panes[p].tab = drag.tab \/ type[p] = "devtools"]_tabVars

==============================================================================
