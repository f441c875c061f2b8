------------------------------- MODULE TabsSync ------------------------------
(***************************************************************************)
(* The tabs of several Macs (useTabsSyncSubscription.ts, the uiState       *)
(* router, app-state).  A device keeps its tabs in the renderer's store,   *)
(* in the main process's lowdb object and in app-state.json, which a       *)
(* synchronisation service copies whole between the devices.  What a       *)
(* workspace's tabs contain is the number of the change that made it, 0    *)
(* when the store does not mention the workspace; the numbers also stand   *)
(* for the times that a write is stamped with, so the clocks agree.        *)
(***************************************************************************)
EXTENDS Naturals, FiniteSets

CONSTANTS
  Device,       \* machines, each with a device-id of its own
  Workspace,    \* canonical identities: main repository, branch and type
  Late,         \* pairs of a device and a workspace its database has not at first
  MaxEdits,     \* bound: changes of tabs, all devices together
  MaxUnderWay,  \* bound: peer updates that wait for one answer on one device
  MaxTrouble    \* bound: theme writes, reopened windows, restarts, failed queries
                \* and workspaces created late

ASSUME LateAssumption == Late \subseteq Device \X Workspace
ASSUME BoundsAssumption == MaxEdits \in Nat /\ MaxUnderWay \in Nat /\ MaxTrouble \in Nat

(* A device's own random identifier of a workspace.                        *)
Id == Device \X Workspace

VARIABLES
  store,     \* renderer: content by identifier
  lastSeen,  \* renderer: newest stamp taken from a peer, by workspace
  updates,   \* renderer: peer updates that wait for the list of workspaces
  merges,    \* renderer: merged states that wait to be set, with the state they came from
  mem,       \* main: the contents of the lowdb object
  saving,    \* main: tabs.set and theme.set calls that have not written yet
  file,      \* app-state.json
  noticed,   \* devices whose watcher has yet to read a changed file
  fresh,     \* (external) pairs <<d, e>>: d's file has a change that e's lacks
  known,     \* workspaces in a device's database
  edits, trouble,
  last,      \* history: number of the last change of each workspace
  adopted,   \* history: devices that started from a peer's file
  overrun,   \* history: devices where a merge replaced a change made since it was computed
  doubt      \* history: workspaces whose last change a disturbance may have hidden

rendererVars == <<store, lastSeen, updates, merges>>
mainVars == <<mem, saving, file, noticed>>
historyVars == <<last, adopted, overrun, doubt>>
vars == <<rendererVars, mainVars, fresh, known, edits, trouble, historyVars>>

(* What the object holds: the writer, the content of the tabs, per         *)
(* workspace the time of the last write that mentions it, and the          *)
(* identifiers that the writer maps to their workspaces.                   *)
Nothing(d) ==
  [writer |-> d, at |-> 0, tabs |-> [i \in Id |-> 0], stamp |-> [w \in Workspace |-> 0], mapped |-> {}]

Init ==
  /\ store = [d \in Device |-> [i \in Id |-> 0]]
  /\ lastSeen = [d \in Device |-> [w \in Workspace |-> 0]]
  /\ updates = [d \in Device |-> {}] /\ merges = [d \in Device |-> {}]
  /\ mem = [d \in Device |-> Nothing(d)] /\ file = mem
  /\ saving = [d \in Device |-> 0] /\ noticed = {} /\ fresh = {}
  /\ known = [d \in Device |-> {w \in Workspace : <<d, w>> \notin Late}]
  /\ edits = 0 /\ trouble = 0
  /\ last = [w \in Workspace |-> 0] /\ adopted = {} /\ overrun = {} /\ doubt = {}

(* A peer's file is on its way through this device.                        *)
Arriving(d) == (d \in noticed /\ file[d].writer # d) \/ updates[d] # {} \/ merges[d] # {}
Calm == fresh = {} /\ \A d \in Device : saving[d] = 0 /\ ~Arriving(d)

(* Nothing is on its way but what this device has written.                 *)
Alone(d) ==
  /\ \A e \in Device \ {d} :
       /\ saving[e] = 0 /\ (e \in noticed => file[e].writer = d)
       /\ \A u \in updates[e] : u.writer = d
  /\ \A pair \in fresh : file[pair[1]].writer = d
  /\ ~Arriving(d)

-----------------------------------------------------------------------------
(* stampSyncEnvelopeForTabs: every workspace that the tabs mention gets    *)
(* the time of this write, whichever of them has changed.                  *)
TabsSet(d, tabs, now) ==
  LET mentioned == {i \in Id : i[1] = d /\ i[2] \in known[d] /\ tabs[i] > 0}
  IN mem' = [mem EXCEPT ![d] =
       [writer |-> d, at |-> now, tabs |-> tabs, mapped |-> mentioned,
        stamp |-> [w \in Workspace |-> IF <<d, w>> \in mentioned THEN now ELSE @.stamp[w]]]]

(* What was taken from a peer's file at the start is written as one's own. *)
Suspect(d) == IF d \in adopted THEN Workspace ELSE doubt

(* The store changes in one workspace and is persisted.                    *)
Edit(d, w) ==
  /\ edits < MaxEdits /\ edits' = edits + 1
  /\ w \in known[d]
  /\ store' = [store EXCEPT ![d][<<d, w>>] = edits']
  /\ TabsSet(d, store'[d], edits')
  /\ saving' = [saving EXCEPT ![d] = @ + 1]
  /\ last' = [last EXCEPT ![w] = edits']
  /\ doubt' = IF Alone(d) THEN {v \in Suspect(d) : store'[d][<<d, v>>] # last'[v]} ELSE Workspace
  /\ UNCHANGED <<lastSeen, updates, merges, file, noticed, fresh, known, trouble, adopted, overrun>>

(* theme.set and hotkeys.set: the old tabs with a new writer.              *)
ThemeSet(d) ==
  /\ mem' = [mem EXCEPT ![d].writer = d, ![d].at = edits]
  /\ saving' = [saving EXCEPT ![d] = @ + 1]
  /\ doubt' = IF Alone(d) /\ d \notin adopted /\ mem[d].tabs = store[d] THEN doubt ELSE Workspace
  /\ UNCHANGED <<rendererVars, file, noticed, fresh, known, edits, last, adopted, overrun>>

(* appState.write: the object as it is now becomes the file.               *)
Flush(d) ==
  /\ saving[d] > 0 /\ saving' = [saving EXCEPT ![d] = @ - 1]
  /\ file' = [file EXCEPT ![d] = mem[d]]
  /\ fresh' = fresh \cup {<<d, e>> : e \in Device \ {d}}
  /\ UNCHANGED <<rendererVars, mem, noticed, known, edits, trouble, historyVars>>

(* (external) The service copies a file that has changes the other lacks;   *)
(* of two that changed at once the older one is set aside.  The copy has   *)
(* whatever the original has.                                              *)
Deliver(d, e) ==
  /\ <<d, e>> \in fresh
  /\ <<e, d>> \in fresh => file[d].at >= file[e].at
  /\ file' = [file EXCEPT ![e] = file[d]]
  /\ LET origin(x) == IF x = e THEN d ELSE x
     IN fresh' = {pair \in Device \X Device : <<origin(pair[1]), origin(pair[2])>> \in fresh}
  /\ noticed' = noticed \cup {e}
  /\ UNCHANGED <<rendererVars, mem, saving, known, edits, trouble, historyVars>>

(* handleChange: the file is read after the debounce, and skipped when     *)
(* this device has written it.                                             *)
WatchRead(d) ==
  /\ d \in noticed /\ noticed' = noticed \ {d}
  /\ IF file[d].writer = d THEN UNCHANGED updates
     ELSE /\ Cardinality(updates[d]) < MaxUnderWay
          /\ updates' = [updates EXCEPT ![d] = @ \cup {file[d]}]
  /\ UNCHANGED <<store, lastSeen, merges, mem, saving, file, fresh, known, edits, trouble, historyVars>>

-----------------------------------------------------------------------------
(* applyPeerUpdate.                                                        *)
\* Variant: the time of the file decides.
WinningIfLater(d, u) == {w \in known[d] : u.at > lastSeen[d][w]}
Winning(d, u) == {w \in known[d] : u.stamp[w] > lastSeen[d][w]}

PeerTabs(u, w) ==
  LET ids == {i \in u.mapped : i[2] = w}
  IN IF ids = {} THEN 0 ELSE u.tabs[CHOOSE i \in ids : TRUE]

\* Variant: the peer's tabs replace the own, whoever wrote last.
MergedWhole(d, u) ==
  [i \in Id |-> IF i[1] = d /\ i[2] \in known[d] THEN PeerTabs(u, i[2]) ELSE store[d][i]]

Merged(d, u) ==
  [i \in Id |-> IF i[1] = d /\ i[2] \in Winning(d, u) THEN PeerTabs(u, i[2]) ELSE store[d][i]]

(* The workspaces are here: winners are noted and the merge computed from  *)
(* the store as it is now.                                                 *)
Resolve(d, u) ==
  /\ u \in updates[d]
  /\ updates' = [updates EXCEPT ![d] = @ \ {u}]
  /\ IF Winning(d, u) = {} THEN UNCHANGED <<lastSeen, merges>>
     ELSE /\ Cardinality(merges[d]) < MaxUnderWay
          /\ lastSeen' = [lastSeen EXCEPT ![d] =
               [w \in Workspace |-> IF w \in Winning(d, u) THEN u.stamp[w] ELSE @[w]]]
          /\ merges' = [merges EXCEPT ![d] = @ \cup {[tabs |-> Merged(d, u), over |-> store[d]]}]
  /\ doubt' = IF merges[d] # {} /\ Winning(d, u) # {} THEN Workspace ELSE doubt
  /\ UNCHANGED <<store, mainVars, fresh, known, edits, trouble, last, adopted, overrun>>

(* The query fails: no workspace resolves and the update is gone.          *)
ResolveFails(d, u) ==
  /\ u \in updates[d]
  /\ updates' = [updates EXCEPT ![d] = @ \ {u}]
  /\ doubt' = IF Winning(d, u) = {} THEN doubt ELSE Workspace
  /\ UNCHANGED <<store, lastSeen, merges, mainVars, fresh, known, edits, last, adopted, overrun>>

(* The session ids are written: the merge replaces the store, unpersisted. *)
Apply(d, m) ==
  /\ m \in merges[d]
  /\ merges' = [merges EXCEPT ![d] = @ \ {m}]
  /\ store' = [store EXCEPT ![d] = m.tabs]
  /\ overrun' = IF store[d] = m.over THEN overrun ELSE overrun \cup {d}
  /\ UNCHANGED <<lastSeen, updates, mainVars, fresh, known, edits, trouble, last, adopted, doubt>>

-----------------------------------------------------------------------------
(* A new renderer hydrates the store from the main process.                *)
Hydrate(d, tabs) ==
  /\ store' = [store EXCEPT ![d] = tabs]
  /\ lastSeen' = [lastSeen EXCEPT ![d] = [w \in Workspace |-> 0]]
  /\ updates' = [updates EXCEPT ![d] = {}] /\ merges' = [merges EXCEPT ![d] = {}]
  /\ doubt' = IF tabs = store[d] /\ ~Arriving(d) THEN doubt ELSE Workspace

Reopen(d) ==
  /\ Hydrate(d, mem[d].tabs)
  /\ UNCHANGED <<mainVars, fresh, known, edits, last, adopted, overrun>>

Restart(d) ==
  /\ Hydrate(d, file[d].tabs)
  /\ mem' = [mem EXCEPT ![d] = file[d]]
  /\ saving' = [saving EXCEPT ![d] = 0] /\ noticed' = noticed \ {d}
  /\ adopted' = IF file[d].writer = d THEN adopted ELSE adopted \cup {d}
  /\ UNCHANGED <<file, fresh, known, edits, last, overrun>>

CreateWorkspace(d, w) ==
  /\ w \notin known[d]
  /\ known' = [known EXCEPT ![d] = @ \cup {w}]
  /\ doubt' = doubt \cup {w}
  /\ UNCHANGED <<rendererVars, mainVars, fresh, edits, last, adopted, overrun>>

Next ==
  \/ \E d \in Device :
       \/ \E w \in Workspace : Edit(d, w)
       \/ Flush(d) \/ WatchRead(d)
       \/ \E e \in Device : Deliver(d, e)
       \/ \E u \in updates[d] : Resolve(d, u)
       \/ \E m \in merges[d] : Apply(d, m)
  \/ /\ trouble < MaxTrouble /\ trouble' = trouble + 1
     /\ \E d \in Device :
          \/ ThemeSet(d) \/ Reopen(d) \/ Restart(d)
          \/ \E u \in updates[d] : ResolveFails(d, u)
          \/ \E w \in Workspace : CreateWorkspace(d, w)

Spec == Init /\ [][Next]_vars

-----------------------------------------------------------------------------
Content == [Id -> 0..MaxEdits]
State == [writer : Device, at : 0..MaxEdits, tabs : Content, stamp : [Workspace -> 0..MaxEdits], mapped : SUBSET Id]

\* Types of the stores, the files and what is under way.
TypeOK ==
  /\ store \in [Device -> Content] /\ lastSeen \in [Device -> [Workspace -> 0..MaxEdits]]
  /\ updates \in [Device -> SUBSET State]
  /\ merges \in [Device -> SUBSET [tabs : Content, over : Content]]
  /\ mem \in [Device -> State] /\ file \in [Device -> State]
  /\ saving \in [Device -> Nat] /\ noticed \subseteq Device /\ fresh \subseteq Device \X Device
  /\ known \in [Device -> SUBSET Workspace]
  /\ edits \in 0..MaxEdits /\ trouble \in 0..MaxTrouble
  /\ last \in [Workspace -> 0..MaxEdits] /\ adopted \subseteq Device /\ overrun \subseteq Device
  /\ doubt \subseteq Workspace

\* When nothing is on its way, every device shows the last change of each workspace,
\* whoever made it.  Excepted are the workspaces that a disturbance has hit (a write
\* made while a peer's was on its way, overlapping merges, a failed query, a theme
\* written over older tabs, a window or program started anew), until a device that
\* has their last change writes undisturbed: one such write repairs all it mentions.
LastEditShown ==
  Calm => \A d \in Device : \A w \in known[d] \ doubt : store[d][<<d, w>>] = last[w]

\* A merge that is being computed leaves out a workspace the store has tabs of.
Drops(d) ==
  \E m \in merges'[d] \ merges[d], w \in Workspace : store[d][<<d, w>>] > 0 /\ m.tabs[<<d, w>>] = 0

\* A peer's update never drops the tabs of a workspace, unless some device has started
\* from a peer's file or a late merge has replaced newer tabs: both leave times of
\* workspaces in the envelope whose tabs are gone.
NothingDropped ==
  [][\A d \in Device : Drops(d) => adopted # {} \/ overrun # {}]_vars

==============================================================================
