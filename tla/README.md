# Formal models of the desktop app's terminal host and workspace lifecycle

This directory holds TLA+ models of the parts of the desktop app
(`src/apps/desktop`) that keep state across callbacks, awaits, processes and
crashes, together with the TLC runs that check them and the TLAPS proofs about
them. `PROJECT.json` is the machine-readable index: components, runs, the source
lines of every definition, mutants, findings, hazards and theorems.

Paths below are relative to `src/apps/desktop/src/` unless they start with `src/`.

## 1. The system

The repository is a monorepo: a desktop app (Electron), a web app, an admin site,
an API server, mobile, docs and marketing sites, and shared packages. The web
side is user interface and stateless handlers over Postgres. The desktop app is
where the program's own protocols live; it runs as several processes:

```
 renderer --tRPC--> main process --two Unix sockets--> terminal daemon --pipes--> PTY subprocess (one per session) --> shell
                      |  workspaces: git worktrees, SQLite rows
                      |  app state file, scheduler files, ports
```

### Components

| component | state it keeps | operations | hard behaviour | status |
|---|---|---|---|---|
| Session table of the daemon (`main/terminal-host/terminal-host.ts`) | map of sessions, kill timers, cleanup timers, spawn semaphore | createOrAttach, kill, killAll, detach, disconnect, dispose, exit callbacks | creation is suspended twice with the session not in the map; timers and exits look sessions up by id | `TerminalHost`: modelled, checked, proved |
| Daemon server (`main/terminal-host/index.ts`) | its socket file, its clients and their two sockets | start, stop, hello, disconnect, forwarding to the table | several daemons and apps share one socket path and may all unlink it | `DaemonProcess`, `HostClient`, `TerminalHost`: partly |
| Session output (`main/terminal-host/session.ts`) | clients and their backpressure, emulator queue, snapshot waiters, exit code | frames of the subprocess, attach, detach, drain, exit | output during an attach; a slow client holds everybody back; end of process before end of output | `SessionStream`: checked and proved |
| Session input (`session.ts`) | stdin queue, its byte count, the drain listener | write, resize, signal, kill, dispose | a full stream, a full queue, lost Kill frames | `SessionInput`: checked and proved |
| PTY subprocess (`pty-subprocess.ts`, `pty-subprocess-ipc.ts`) | decoder, write queue, paused stdin, kill escalation, output batch | spawn, write, kill, dispose, end of stdin | watermarks, write errors, a shell that ignores signals | `SessionInput`, `SessionStream`: partly |
| Headless emulator (`main/lib/terminal-host/headless-emulator.ts`) | the xterm screen | write, snapshot | none of its own: a function of the bytes | not modelled, a sequence in `SessionStream` |
| Terminal host client (`main/lib/terminal-host/client.ts`) | two sockets, authentication, connection state, spawn lock file | ensureConnected, tryConnectAndAuthenticate, shutdownIfRunning, disconnect, spawn | calls share one object and interleave at awaits; two app instances race for one daemon | `HostClient`: partly, checked and proved |
| Daemon terminal manager (`main/lib/terminal/daemon/daemon-manager.ts`) | sessions as the app believes them, pending calls, tombstones, exit timers, cold-restore cache | createOrAttach, kill, exit, disconnect, reset | answers and events come by different sockets; kill during create | `DaemonManager`: partly, checked and proved |
| Priority semaphore (`daemon/priority-semaphore.ts`) | permits, sorted queue | acquire, abort, release, reset | a reset while permits are out | `PrioritySemaphore`: modelled |
| Terminal history (`main/lib/terminal-history.ts`, `daemon/history-manager.ts`) | writers, meta files | open, append, clear, close, remove | close during init; crash detection | `TerminalHistory`: partly |
| Workspace initialisation and deletion (`main/lib/workspace-init-manager.ts`, `lib/trpc/routers/workspaces/`, `main/lib/agent-init.ts`) | jobs, done promises, cancellations, project locks; rows and directories | create, retry, delete, close, deleteWorktree, createAgent, retryAgentInit | calls about one workspace overlap at every await; the app may die | `WorkspaceInit`: the manager modelled, the procedures partly; checked and proved |
| Port manager (`main/lib/terminal/port-manager.ts`) | ports per pane, registered shells, scans in flight | register, unregister, hint, scan, killPort | a scan publishes what it read before three awaits | `PortManager`: modelled, checked and proved |
| Static ports (`main/lib/static-ports/`) | watchers of a file | - | small | not modelled |
| App state and peer sync (`main/lib/app-state/`, `lib/trpc/routers/ui-state/`, `useTabsSyncSubscription.ts`) | the store of the renderer, the lowdb object, the state file, stamps per workspace | tabs.set, theme.set, file change, merge, restart | whole files are copied between Macs while both edit | `TabsSync`: partly, checked and proved |
| Tabs store (`renderer/stores/tabs/`) | tabs, panes, layouts, focus, history stacks, closed tabs | open, split, move, drag, close, reopen, reload | the tree that is drawn is not the one that is stored | `TabsStore`: partly, checked and proved |
| Scheduler, agent scaffold, notifications | timers per file, shown notifications | - | small | not modelled, reasons in `PROJECT.json` |
| Desktop shell, routers, agent wrappers, rest of the renderer, API, web, packages | view state, data definitions | - | calls into libraries and services | not modelled, reasons in `PROJECT.json` |

Interaction: the renderer's store asks the main process for a terminal per pane
(`DaemonManager`), which calls the daemon over the *control* socket and gets terminal
events on the *stream* socket (`HostClient`). The daemon (`DaemonProcess`) owns
`Session` objects (`TerminalHost`); each owns a subprocess, sends it frames
(`SessionInput`) and is told of its frames, of the end of the process and of its
sockets' `drain` (`SessionStream`). The manager registers the shells it hears of with
the port manager (`PortManager`) and writes what they print to disk
(`TerminalHistory`). The workspace mutations kill terminals before they remove a
worktree, and call git under a lock per project (`WorkspaceInit`). The store itself is
saved by the main process and carried to other Macs (`TabsStore`, `TabsSync`).

What makes each part correct, and what could go wrong where a test would hardly
look, is in the `hazards` of `PROJECT.json`, each at its line with the property
that watches it, or the reason why none does.

## 2. The modules

| module | models | role |
|---|---|---|
| `CountingSemaphore` | nothing: what a limiter promises | abstract specification |
| `TerminalHost` | `terminal-host.ts`, the life-cycle part of `session.ts`, the disconnect handler of the daemon | component |
| `SessionStream` | the output side of `session.ts` with the output end of `pty-subprocess.ts` | component |
| `SessionInput` | the input side of `session.ts` with the decoder, the write queue, the kill and the end of `pty-subprocess.ts` | composition of two processes and a pipe |
| `DaemonProcess` | start, stop and connections of the daemon | component, extended by `HostClient` |
| `HostClient` | the client object of each app, its calls and the spawn lock | composition with `DaemonProcess` |
| `PrioritySemaphore` | the limiter of createOrAttach | component, extended by `DaemonManager` |
| `TerminalHistory` | history writers and `meta.json` | component, extended by `DaemonManager` |
| `DaemonManager` | the manager with the two above and the daemon as it sees it | composition |
| `PortManager` | the port table and its scans | component |
| `WorkspaceInit` | the manager, the init job, agent job, and the mutations around them | component |
| `TabsStore` | the tabs store and the view that drags | component |
| `TabsSync` | the stores, lowdb objects and files of several Macs | composition |
| `TerminalHostProofs`, `SessionStreamProofs`, `SessionInputProofs`, `HostClientProofs`, `DaemonManagerProofs`, `PortManagerProofs`, `WorkspaceInitProofs` | | theorems about the module of that name |
| `TabsProofs` | | theorems about `TabsStore` and, with names of its own, `TabsSync` |
| `MC...` | | instances for TLC |

The code of one process runs in a single JavaScript thread. **An action is one
uninterrupted stretch of code: a callback, or a handler from one `await` to the
next.** Where a stretch has several outcomes (a git command that fails, a timer
that is first) each outcome is an action or a disjunct. Where several processes share
something (a socket file, a lock file, a pipe), a look at it and a change of it are
two actions. Definitions called *Variant* are plausible mistakes; no action uses them,
they are the right-hand sides of the mutants. Variables under the heading *history*
record what has happened; no action reads them.

### TerminalHost

A `Session` object is named by the request that built it, because an object may
outlive its place in the map: `sessions[id] = r` reads "the map holds under `id`
the object that `r` built". `session[r]` holds the flags of `session.ts`
(`subprocess`, `ready`, `exited`, `terminating`, `disposed`, attached clients),
`running` the subprocesses that exist in the operating system, `killTimers` the
keys of the map of that name and `cleanup` the 5-second timers of
`scheduleSessionCleanup`.

`createOrAttach` is four actions: `AttachExisting`, or `BeginCreate` (dispose of a
stale object, ask for a permit), `SpawnSession`/`SpawnThrows` (the permit is
there), `FinishCreate` (the call goes on after `SpawnReady` resolved the ready
promise or `SpawnTimeout` won the race; attach and `sessions.set`, or throw). `SpawnReady`, `SpawnedFrame`, `ExitFrame` and
`SubprocessExit` are what the subprocess does; `Kill`, `KillAll`, `Detach`,
`SocketClose` and `Shutdown` what clients and the daemon do; `KillTimerFires` and
`CleanupTimerFires` the timers. `SpawnLimiter` is a refinement: with waiters and
permit holders as the abstract state, the hand-written `Semaphore` implements
`CountingSemaphore`.

### WorkspaceInit

`row`, `record` and `path` are the two tables with the path of each worktree, `disk` the
directories, each a workspace with a path; `job`, `promise`, `resolved`, `cancelled`,
`lock`, `queue` the fields of `WorkspaceInitManager`; `run` and `del` the calls that
initialise and remove, each with the place where it is suspended. A done promise is
named by the job it was created for: the manager's maps are keyed by workspace only, and
the question is precisely whose promise is resolved. A retry is `RetryCheck` (the row
and the record are read), then `RetryStart`, or `RetryThrows` when the branches cannot
be listed: with a deduplicated branch `MoveRecord` writes another path to the record,
and the job works there. A deletion removes the path it read from the record (`DelDir`).
The git steps of a job are one action per await (`config`, `sync`, `verify`, `fetch`,
`create`), with `Advance`, `AdvanceCancelled`, `NoReference`, `Throw`, `WorktreeCreated`
as their outcomes (`StatusThrows` is the write at the end, which may throw when the
worktree is there), and `CleanupDone`/`UndoDone` for the two ways in which a worktree is
removed again. `delete` is `DeleteStart` (hide, cancel), `WaitDone`/`WaitTimeout`,
`TeardownDone`/`TeardownFails`, `DeleteLocked`, `RemoveDone`/`RemoveFails`,
`DeleteDone`. `Restart` kills the app once: memory is lost, tables and directories stay,
a git command in flight may still make its directory.

Five variables are history that no action reads: `told` (jobs cancelled by a
delete while they ran), `raced` (workspaces on which jobs overlapped, or a job was
started on one that was going or whose record says another path by now), `lost`
(directories that were there when a job of their workspace began in another one),
`maker` (the job that made each directory), `restarted`.

Progress steps between the first and the final ones are one value, because the
code only asks whether a step is final. Branch names, progress texts and the
forms of `create` that differ only in how they pick a branch are abstracted. A path
stands for the branch name it is made from, and a deduplicated name may be any of them.
The directories of two workspaces are taken to differ: `deduplicateBranchName` asks git
for the branches it has, so two workspaces whose branches do not exist yet could be given
the same name, which is not modelled.

### SessionStream

A Data frame is a number, so that a gap or a repetition shows. `pipe` is the
stdout of the subprocess, `queue`/`processed`/`scheduled` the emulator queue with
its callback, `emulator` what was written to the screen, `outbox` what each
client's socket has buffered, `draining` and `armed` the two facts the code keeps
about a full socket (the set of sockets that hold back the output, and the
`drain` listener). `ReadChunk` handles any number of frames at once, as one
`data` event does; an Exit frame is the last that a subprocess sends (`DataOf`). An `Attach` registers the client, then waits for the emulator
queue to pass its boundary (`ProcessQueue`, `AttachTimeout` or the reset in
`Reap`), then waits for the snapshot (`TakeSnapshot`).

The module starts with a session that is ready. How it got there is
`TerminalHost`; kill, write, resize and signal frames are in `SessionInput`,
and what a kill does here is that the subprocess ends.

### SessionInput

A frame is two buffers, header and payload: frame *f* is the buffers 2*f*-1 and 2*f*, so
that what is in the pipe is right when it is a run of consecutive numbers. `queue`,
`armed` and `todo` are the session's stdin queue, its drain listener and what is left of
a paste; `wire` is what the stream has accepted. `FlushQueue` is
`flushSubprocessStdinQueue`: it stops at a buffer for which `write` returned false and,
like the code, leaves that buffer in the queue although the stream has it. On the other
side `chunk` and `expect` are the decoder, `wedged` a decoder out of step, `backlog`,
`queued`, `flush` and `stdinPaused` the write queue with its watermarks, `escalation` the
timers of `handleKill`.

`Write`/`SendChunk`, `ResizeOrSignal`, `Kill`, `Dispose` and `Drain` are the session's;
`ReadChunk`, `Decode`/`DecodeGarbled`, `HandleSpawn`, `HandleWrite`, `HandleKill`,
`FlushIdle`, `FlushAsync`, `Wrote`, `WriteError`, `WriteReturns`, `FlushSync`,
`PtyEnds`, `PtyExit`, `ExitTimer`, `EscalateTimer`, `ForceExitTimer`, `StdinEnds`,
`DisposeDone` the subprocess's; `TreeKilled`, `Reap`, `DaemonEnds`, `Boot` and
`ChildDies` the operating system's. A Data frame's content is abstracted; a Write frame
has `ChunkSize` bytes, because the watermarks count them.

### DaemonProcess and HostClient

`daemon[d]` is where a daemon process is in `startServer` or `stopServer`, `sock` whose
socket is bound at the path (a daemon that is gone leaves a stale file), `conn` and
`greeted` the connections. `ProbeLive` and `ProbeDead` are `isSocketLive`, which takes a
daemon that does not answer within a second for dead. `UnlinkSocket` removes the file
whosever it is, as `unlinkSync` does; a look and the unlink are two actions.

Per app `state`, `control`, `stream`, `authentic` and `armed` are the fields of the client
object; a *call* is one run of `ensureConnected`, `tryConnectAndAuthenticate` (`peek`) or
`shutdownIfRunning`, with the await it is suspended at in `pc`. Several calls of one app
share its object. The spawn `lock` is none, fresh or stale, read and written in two
steps. History: `fault` (a daemon was stopped, died leaving its file, or was misjudged by
a probe) and `overtaken` (apps whose state was reset under a call in progress).

### DaemonManager, PrioritySemaphore, TerminalHistory

A member of `Creation` is a run of `createOrAttach`; `pc` says at which await it is, from
the limiter over the history on disk to the daemon's answer. `session`, `pending`,
`tombs`, `aliveIds`, `hydrated`, `cold`, `timer` are the maps of the class; `stray` are
cleanup timers whose entry has been overwritten. The daemon is what the app can tell of it:
`hosted` and `dying` sessions, `attached` panes, `exits` and `unknown` events on their way,
and `late` panes for which it still works on a request that the app gave up.
`PrioritySemaphore` gives each waiter a place by priority, the earlier first.
`TerminalHistory` counts the runs of `initHistoryWriter` and `HistoryWriter.close` per
pane, since they take several awaits, and keeps whether `meta.json` has `endedAt`.
Disturbances (`SessionExits`, `Kill`, `RequestFails`, `WriteLost`, `Disconnect`, a clear
sequence, a writer that cannot be made, and `Reset`, the last one of a behaviour) are
bounded by `MaxTrouble`. History: `slipped`, `wasReset`, `tangled`.

### PortManager

The operating system is `started`, `alive`, `listening` and `condemned` processes, with
the shell of each tree given by `Root` and its pane by `Home`. A scan (`BeginFull`, or
`OutputHint` and `HintTimer`) waits for `trees` or for `ports`, with what it has read in
`target`, `trees` and `found`; one full scan runs at a time, scans on a hint beside it.
`PublishFull` and `PublishHint` set the rows of the panes that the scan was for, as
`updatePortsForPane` does. Changes of the world, of the registry (`Upsert`, `Unregister`,
`KillPort`) and failing commands are bounded by `MaxChanges`.

### TabsStore

A layout is a binary tree with panes at its leaves. The model keeps the sequence of the
leaves in visual order, which is what `extractPaneIdsFromLayout` gives and all that panes,
focus and neighbours depend on; directions and sizes of splits are left out. A subtree is a
run of neighbouring leaves: `SetAt(t, i, j, nodes)` is `updateTree` with `$set` at a path
that leads to the leaves from `i` to `j`. For a path of the layout itself that is the leaf
of the pane; for a path of the drawn tree, when this is another one, `Leads` admits every
run of leaves but the whole, as any tree may have these leaves (of one layout only some of
these runs are subtrees, so the model allows more than the code). Paths that lead nowhere,
where `updateTree` throws, change nothing.

Each operation of `store.ts` is an operator on the record `s` of what `set()` and `get()`
see (`OpenTab`, `RemoveTab`, `RemovePane`, `UpdateTabLayout`, `HandleLayoutChange`,
`AddPanes`, ...), and an action calls one or several of them, as the handlers do. `TabView`
draws the layout cleaned of foreign leaves (`Drawn`), but paths are applied to the stored
one; `drag` keeps what was drawn when a drag began. React-mosaic is external: `StartDrag`,
`Arrangements`, `SetAt`. While a drag is on the user starts nothing else; what does not come
from the pointer goes on. Tabs and panes are numbers in the order in which they were made:
the code's random ids are never reused either, and its list of tabs is in that order
(tabs that were reordered by hand are not modelled). History: `astray` (tabs whose layout has named a
pane that is not theirs), `torn` (tabs split at a path that leads elsewhere in the stored
layout, and tabs reopened from such a tab).

### TabsSync

What a workspace's tabs contain is the number of the edit that made it, which also stands
for the time a write is stamped with. On each device: `store`, `lastSeen`, `updates` that
wait for the list of workspaces and `merges` that wait to be set, in the renderer; `mem`,
`saving`, `file` and `noticed` in the main process. The synchronisation service is
external: `fresh` says whose file has a change that whose file lacks; such a file is copied
whole, the copy then has what its original has, and of two files that changed at once the
older is set aside. (With three Macs it matters that a copy is not itself a change: a stale
copy would replace a newer file.) `Edit` is a change in the store with its `tabs.set`, `Flush` the write
of the file, `Deliver` the copy, `WatchRead` the watcher, `Resolve`/`ResolveFails` the query
of the workspaces with the merge, `Apply` its `setState`; `ThemeSet`, `Reopen`, `Restart`
and `CreateWorkspace` are the disturbances.
History: `last`, `adopted`, `overrun`, `doubt`.

## 3. Runs

| run | bounds | what it shows |
|---|---|---|
| `terminal_host` | 2 requests, 2 ids, 2 sockets, 1 permit (471 thousand states) | timers exist for dead and killed sessions; a live session is lost only where creations overlapped; attachments only to live sessions; only the creating socket can become a ghost; the semaphore refines its specification; every createOrAttach is answered and a dead session without clients leaves the map |
| `workspace_init` | 2 jobs, 2 removals, 2 workspaces and 1 agent of one project, 2 paths, 1 restart (3.4 million) | the lock excludes; progress never hangs; hidden means being deleted; nothing is left on disk but by overlaps and moved records; failures remove their own worktree only; promises mean the end of the job |
| `workspace_init_liveness` | 2 jobs, 1 removal, 1 workspace, 1 agent, 2 paths (231 thousand) | every call ends, behind the lock and whatever fails |
| `cancellation_lost` | 2 jobs, 1 removal, 1 workspace, 2 paths | *violation*: a retry clears the cancellation of a job that still runs |
| `session_stream` | 2 clients, 2 Data frames, pipe of 2 frames, sockets full at 1 event (352 thousand) | no client misses output; output is paused for a reason only and flows again; an exit is announced once and last; an attach ends without its timer |
| `exit_before_output` | 1 client, 2 Data frames | *violation*: the exit may be announced before output that was already flushed |
| `session_input` | 3 frames and a Kill, pipe of 2 buffers, stream full at 2, frames of 2 bytes, watermarks 2 and 1 (224 thousand) | input arrives in order and once until the stream is full; the PTY gets what was decoded, in order; the backlog is bounded; a kill and the end of the daemon end the subprocess |
| `host_client` | 2 apps, 2 calls, 2 daemon processes (312 thousand) | a daemon that serves can be found; a client hears of a loss; a connection in use is not taken down by another call |
| `daemon_manager` | 2 runs, 1 permit, 2 panes of which one ends sessions, 1 operation of a kind under way per pane, 2 disturbances (4.7 million) | the limiter limits; what counts as alive is; what was killed stays dead; a cleanup spares the living; `meta.json` tells a crash from an end |
| `port_manager` | 2 panes, 1 port, 3 shells and 1 server, the full scan and 1 scan on a hint, 3 changes (518 thousand) | no foreign ports; killPort spares shells; the table catches up |
| `tabs_sync` | 2 Macs, 2 workspaces of which one is created late on one Mac, 3 edits, 2 updates under way, 2 disturbances (3.5 million) | the last edits are shown everywhere in the end; no peer update drops tabs |
| `tabs_store` | 1 workspace, 2 tabs, 3 panes, 1 closed tab remembered (2.3 million) | every pane is drawn once or its terminal is killed; active, focused and remembered tabs exist; a late drag removes no foreign pane |

Why the bounds are enough to be interesting. *TerminalHost*: two requests on one id make
a creation meet another creation, a dead object, a killed object or a late exit; on two
ids they compete for the only permit. An instance with a third request and one socket
(2.2 million states) satisfies the safety properties too.
*WorkspaceInit*: two jobs may be create and retry, or two retries, of the same workspace,
or stand for the same project lock from different workspaces; two removals may be a
delete that races a delete, a close or a deleteWorktree. With two paths a failed job leaves
a directory at one, and a retry moves the record to the other or back. Fairness on that instance is out
of reach of TLC in reasonable time, hence the smaller run.
*SessionStream*: one event fills a socket, so every event is a pause; two frames give a
before and an after to every boundary; two clients give one that drains while the other
does not. *SessionInput*: the third frame is the first that can meet a full stream and a
full pipe together, one Write frame reaches the high watermark, and a short write leaves
one byte. *HostClient*: two calls are of one app or of two apps, two daemons may start at
once or one after the other. *DaemonManager*: one permit makes the second run wait; two
panes make the order of priorities matter, and it is enough that one of them ends
sessions. *PortManager*: the first pane changes its shell, so that a scan can hold the old
one; the server outlives its shell or not; all processes but one may have been left by an
earlier run of the app. *TabsSync*: three edits are two on one Mac and one on the
other, in any order; also run with 4 edits and 1 disturbance (9.8 million states) and with
5 edits and none (8.7 million), and with three Macs, one workspace, 3 edits and no
disturbance (326 thousand), where what one Mac copied is copied on. *TabsStore*: three panes let a tab have two while a third
is dragged, inspected or moved from another; the
proofs below do without these bounds.

`CHECK_DEADLOCK FALSE` is set where a bounded instance ends: requests, calls, output,
input, edits and panes are finite. Symmetry (interchangeable calls, workspaces, apps,
daemons) is used in runs without liveness only.

Counters that are bounded: `MaxData` and `MaxFrames` (frames), `PipeSize`, `HighWater`;
`MaxInFlight` (operations of a kind under way for a pane), `MaxTrouble` (disturbances),
`MaxChanges` (changes of processes and registrations), `MaxEdits`, `MaxUnderWay`,
`MaxTabs`, `MaxPanes`; the sets `Request`, `Runner`, `Deleter`, `Call`, `Creation`, `Hint`
bound the number of calls, and `Restart` of `WorkspaceInit` happens once. `QueueLimit`,
`HighMark`, `LowMark`, `HardLimit`, `ChunkSize`, `Max`, `MaxSpawns`, `MaxClosed` are the
code's own limits, scaled down.

### Fairness

* `TerminalHost`: weak fairness of ready continuations and expired timers, and of
  the exit of a process that got SIGKILL. No client, PTY or shell has to do
  anything: that is what the timeouts are for.
* `WorkspaceInit`: weak fairness of what follows each await (git commands end;
  the teardown and `waitForInit` have timers). Nothing forces a user to call, and
  nothing prefers success to failure.
* `SessionStream`: weak fairness of the daemon's callbacks and of a connected
  client reading its socket. None on the attach timer: `AttachEnds` shows that it
  is not needed.
* `SessionInput`: weak fairness of the callbacks and timers of both processes and of
  `treeKill`. None of the shell: it may ignore signals, never read its input, and its
  end may never be reported; `SubprocessEnds` is about the escalation that is there for
  this case.
* `PortManager`: the interval goes on and the commands of a scan end. `lsof` has a
  timeout of 5 seconds; `pidtree` has none, so that this part is an assumption.

`HostClient`, `DaemonManager`, `TabsSync` and `TabsStore` state safety only: what is to
follow there depends on users, daemons or an external service.

### What the runs found

Two properties that the repository's own words promise fail:

1. `CancellationDurable`: the comment of `cancel` promises that a cancellation
   outlives the clearing of the job; `clearJob` and `startJob` delete it, and a
   retry whose check came before the delete does so while the cancelled job runs.
   What does hold: after a delete a directory is left only by such overlaps, or by
   a retry that moved the record away from it (`NothingLeftAfterDelete`, proved below).
2. `AllOutputBeforeExit`: the documentation says that clients receive all output
   before the exit event. `handleSubprocessExit` announces the exit when the
   process is gone, whether or not its stdout has been read.

The other properties say what does hold. Where a natural statement fails, the property
names the exception, and the history variable that it mentions is the behaviour to look
at. The exceptions, by component:

* *Session table.* `handleSessionExit` clears the kill timer it finds under the id of the
  exiting object, so the late exit of a replaced object disarms the fail-safe of its
  successor (`FailSafeUnlessStaleExit`). The daemon reads the stream socket before it
  awaits `createOrAttach`: one that closes in between is attached afterwards for good
  (`GhostOnlyFromCreation`) and can hold back the output for every other client
  (`PauseHasReason`, `OutputFlows`).
* *Workspaces.* The mark that a job has created its worktree is filed by workspace. While
  `createFromPr` still waits in `setBranchBaseConfig`, a delete that fails late may have
  removed the worktree it made and a retry may have made another, which its own job
  removes when it fails (`FailureRemovesOwnWorktree`, by `Own`). `createWorktree` may throw
  when the directory is there, and the failed job leaves it; a retry with a deduplicated
  branch then moves the record to another path, and no delete removes the old directory
  (`NothingLeftAfterDelete`, by `lost`).
* *Session input.* A buffer for which `write` returned false was taken by the stream but
  is written again: frames get out of step and the decoder throws from then on
  (`InputInStep`). At the 2 MB limit a Kill frame is dropped although the session counts
  as terminating; a write error empties the backlog but leaves stdin paused, so nothing is
  read any more (`SubprocessEnds`). The stdin stream of the subprocess has no
  error listener, so an `EPIPE` ends the daemon.
* *Client and daemon.* Two callers of `spawnDaemon` unlink the socket before either takes
  the lock; a daemon that stops late unlinks its successor's socket; one that does not
  answer within a second is taken for dead (`NoOrphan`, by `fault`). The timer of a stream
  hello that was reset takes down the connection made since, and `shutdownIfRunning`
  replaces the control socket of a connected client (`NoSilentLoss`, by `overtaken` and
  `Asked`). `tryConnectAndAuthenticate` leaves `disconnectArmed` set until the
  next `ensureConnected`; a client may reconnect to a daemon that is disposing.
* *Manager.* A kill during `createOrAttach` is overtaken by the answer, which brings the
  session back (`KilledStaysDead`). A second exit overwrites the entry of the first
  cleanup timer, which then deletes a live session (`CleanupSparesLive`). A reset forgets
  the permits that are out (`RunsLimited`). Closing a writer that is being initialised
  leaves metadata without `endedAt`, which reads as a crash (`CrashIsNoticed`).
* *Ports.* A pane registered without a pid keeps its old rows (`TableCatchesUp`), and
  killPort may kill a shell in it (`ShellsSpared` speaks of panes with a shell). Restarting
  the daemon does not unregister panes.
* *Tabs of several Macs.* A Mac that starts from a peer's file keeps the peer's stamps but
  maps only the workspaces of its own tabs, so its next write makes the peer drop tabs
  (`NothingDropped`, by `adopted`; the header of `useTabsSyncSubscription.ts` says that a
  peer update never does). Every write stamps all workspaces that it mentions;
  `lastSeen` ignores the device's own writes and is forgotten with the window; a merge
  computed before an await replaces newer edits; a failed query loses the update
  (`LastEditShown`, by `doubt`).
* *Tabs store.* `removePane` takes devtools panes along, from other tabs too, without
  touching those tabs' layout or focus. A path of the drawn tree applied to the
  stored layout hides another pane while its terminal runs, or draws one twice
  (`PaneShownOrKilled`, by `torn`); closing and reopening that tab does not mend it. The focus may go to a devtools pane that is gone or a pane of another tab
  (`PointersLive`, by `astray`). Not properties, but seen on the way: a stale foreign leaf
  makes `movePaneToTab` refuse, `reopenClosedTab` keeps the old target of a devtools pane,
  `openInBrowserPane` puts the active tab into the history even if it stays active.

## 4. Proofs

All theorems hold for every value of the constants that satisfies the named assumptions;
sets need not be finite unless a theorem is about counting. They are:
`MaxSpawnsAssumption`, `MaxAssumption` (a positive number of permits), `NoneAssumption`
(`None` is no request, daemon or socket), `ConstantsAssumption` of `WorkspaceInit`
(agents are workspaces, every workspace has a project and a first path, initialising and
removing calls are different calls, `None` is none of them) and of `SessionStream` (the
buffers hold at least one frame), `SizesAssumption` (sizes are numbers, a buffer is
smaller than the stream's high-water mark, the low watermark below the high one; a chunk
of 8192 characters may be 24 KB of UTF-8 and above the mark, which is the case that
`repeated` excepts: `write` takes it, returns false and is repeated),
`HardLimitAssumption` (the high watermark and a pipe full of Write frames are within the
hard limit: 8 MB and one read of stdin against 64 MB), `ClientAssumption` (each call has
its own two sockets), `CreationAssumption` and `MaxInFlightAssumption` (who asks the
limiter is a run; bounds are numbers), `PortAssumption` (each process is in the tree of
one shell, each shell belongs to one pane), `LateAssumption`, `BoundsAssumption` and
`ClosedAssumption` (bounds are numbers).

| theorem | property | argument |
|---|---|---|
| `TerminalHostProofs!TypeCorrect` | `TypeOK` | inductive as it stands; lemmas on `Dispose`, `Acquire`, `Release` |
| `TerminalHostProofs!MapUsable` | `MapHoldsUsable` | strengthened by `StructInv`: the semaphore queue holds exactly calls in `queued`, without repetition; an object that is not yet created has no process and is in no map; one that is starting is neither killed nor disposed of and has no clients; a held object is past its creation under its own id |
| `TerminalHostProofs!FailSafe` | `FailSafeUnlessStaleExit` | on top of `StructInv`; a killed session that is alive gets its timer in `Kill` and loses it only in an exit or by being removed |
| `TerminalHostProofs!DeadHasTimer` | `DeadSessionHasTimer` | `HeldInv` on top of `StructInv`: an object in the map dies in its own exit, which arms its timer; when that timer fires it looks its own id up, finds the object, and removes it with the timer or stays armed |
| `TerminalHostProofs!GhostsAreCreators` | `GhostOnlyFromCreation` | the other part of `HeldInv`: a close detaches the socket from every object of the map, and `AttachExisting` runs in the same stretch as the lookup of its socket |
| `TerminalHostProofs!AttachedToLive` | `AttachOnlyToLive` | a step property of `StructInv` and `HeldInv`: both ways to attach test the object that the map holds, or put it there |
| `TerminalHostProofs!OrphanAlways` | `OrphanOnlyOnOverlap` | `OrphanInv`: two creations of one id past the lookup are an overlap, so that only then `sessions.set` replaces a live object |
| `TerminalHostProofs!LimiterRefined` | `SpawnLimiter` | `LimitInv`: permits and holders add up, and nobody waits while a permit is free; each action maps to a step of `CountingSemaphore` or a stutter |
| `SessionStreamProofs!PausedForAReason` | `PauseHasReason` | `Awaited`: every socket the output waits for belongs to an attached client, and either it was closed when it was attached or it has something to read and a `drain` listener; paused means that there is such a socket |
| `SessionStreamProofs!ExitAnnouncedOnce` | `ExitOnceAndLast` | `ExitInv`: the Exit frame is the last one in the pipe, so nothing is left to read once it was handled, and once the process was reaped no frame is handled |
| `SessionStreamProofs!StreamTypeCorrect`, `NothingMissed` | `TypeOK`, `NoGap` | `GapInv`: pipe, emulator queue and screen hold consecutive numbers that join where the daemon has read to; what was read after a client's boundary was sent to it, because it registers before the boundary is set; what was read before is on the screen when the waiter is let go, because the queue is processed in order. Nothing is left out, though a frame may come twice (in the snapshot and on the stream), and late or cut attaches are excepted |
| `SessionInputProofs!InStepAlways` | `InputInStep` | until a buffer is repeated, what is on the way (chunk, wire, queue) is a run of consecutive numbers that starts at what the decoder expects; the lemma `Flush` says what one flush does |
| `SessionInputProofs!TypeCorrect`, `BacklogIsBounded` | `TypeOK`, `BacklogBounded` | `BacklogBound`, from `BoundInv`: stdin that is not paused means a backlog below the high watermark, and what the chunk being decoded still completes counts as if it were in the backlog already; one chunk completes at most `Burst` bytes. `HeldInv`: only the head of the backlog is ever written in part, so that the count of bytes is what the backlog holds |
| `SessionInputProofs!PtyGetsAllInOrder` | `PtyInOrder` | `FrameInv`: the decoder is never ahead of what was sent, and only the first frame is a Spawn. `GivenInv`: frames written and frames waiting are one increasing sequence of Write frames, and none is missing until a write fails; below the bound on the backlog the hard limit drops nothing, hence `HardLimitAssumption` |
| `HostClientProofs!TypeCorrect`, `NoOrphanAlways` | `TypeOK`, `NoOrphan` | `OrphanInv`: without a fault the socket at the path is that of the one daemon that listens, and nobody who has looked at it goes on to remove it |
| `HostClientProofs!LossNoticedAlways`, `NoSilentLossAlways` | `LossNoticed`, `NoSilentLoss` | `LossInv`: the flag is raised only with a reset, and the stream counts as authenticated only with the flag down; `ConnectInv`: the calls that make a connection exclude one another by the state *connecting*, unless a reset has taken it from one of them |
| `DaemonManagerProofs!TypeCorrect`, `RunsLimitedAlways` | `TypeOK`, `RunsLimited` | `SemInv`: runs wait once each, those that are queued do, and only while no permit is free; `LimitInv`: until a reset, permits are counted for the runs that hold one, and a pane has the run that is pending for it |
| `DaemonManagerProofs!BelievedAliveAlways`, `KilledStaysDeadAlways` | `BelievedAlive`, `KilledStaysDead` | `BelievedInv`: an answer on its way counts like a session that is alive, and a session told to end does neither; `KilledInv`: a pane with a tombstone has no creation in progress, neither here nor late in the daemon |
| `DaemonManagerProofs!CleanupSparesLiveAlways` | `CleanupSparesLive` | `TimerInv`: a session alive has no timer, with an entry or stray, unless an exit came out of turn |
| `DaemonManagerProofs!CrashIsNoticedAlways` | `CrashIsNoticed` | `CrashInv`, for each pane that is not tangled: which of writer, inits, closes may be there together and what `meta` is then |
| `PortManagerProofs!TypeCorrect`, `OwnPortsOnly`, `ShellsSparedAlways` | `TypeOK`, `NoForeignPorts`, `ShellsSpared` | `PortInv`: a pane is registered with shells of its own, and what a scan holds for a pane (target, trees, found) is below such a shell; the only shell in a tree is its root |
| `WorkspaceInitProofs!TypeCorrect` | `TypeOK` | with `HasWorkspace`: a call past its first segment has a workspace, hence a project to look up |
| `WorkspaceInitProofs!Exclusion` | `OneGitOperation` | `GitHoldsLock`: whoever is in a protected section *is* the value of the lock. `releaseProjectLock` asks nobody, so the invariant is what makes every release the holder's own |
| `WorkspaceInitProofs!HiddenMeansDeleting` | `HiddenOnlyWhileDeleting` | inductive with the types: every exit of a deletion changes the row |
| `WorkspaceInitProofs!InitializingMeansJob` | `InitializingHasJob` | `JobAtWork`: unless cancelled, an initializing workspace has a job that is not merely removing its worktree, since such a job reports nothing more |
| `WorkspaceInitProofs!ResolvedMeansEnded` | `ResolvedAtTheEnd` | the promise in the map belongs to a job of that workspace (`PromiseOfCall`), two jobs of one workspace are recorded as an overlap (`TwoJobsAreRaced`), and resolved promises are those of jobs that had started (`ResolvedCalls`) |
| `WorkspaceInitProofs!NothingLeft` | `NothingLeftAfterDelete` | `LineInv`: those who wait for the project lock get it in order, so a delete that gave up waiting for a job still stands behind it (`DeleteWaitsForJob`). `PlaceInv`: a directory is at the path in the record or lost, and jobs and removals at work have that path, unless jobs overlapped. `LeftInv`: when the deletion is past the removal, or the record is gone, what is there is lost and no job is left that could make a directory again, and a job that starts then is an overlap |
| `WorkspaceInitProofs!OwnWorktreeOnly` | `FailureRemovesOwnWorktree` | `OwnInv`: a job that has not come to its own worktree finds no mark of another job (`NoForeignMark`), and whoever goes on to undo has made what it removes (`UndoOwn`) |
| `TabsProofs!TypeCorrect`, `NothingDroppedHolds` | `TypeOK`, `NothingDropped` | `DropInv`: until a device has adopted a file or a merge has overrun an edit, a device has in its store whatever it stamps and no merge takes from it (`Kept`), so that what it writes maps and fills every workspace that it stamps (`Whole`), in memory, in files and in updates under way |
| `TabsProofs!LastEditShownHolds` | `LastEditShown` | `OwnInv`, `VersionInv`: what a device stamps it wrote itself, and the same author and time mean the same contents. `SyncInv`: for each workspace without doubt some device is `Settled`: nobody else has anything on its way, and either nothing on its way mentions the workspace and every device that knows it shows its last change (`Mute`), or there is a time from which on all it writes brings that change, with later stamps than before (`Loud`), so that at each other device it is either still coming and will win (`Coming`) or there and will not be replaced (`InHand`). For any number of devices, workspaces and edits |

| `TabsProofs!StoreInvariant`, `ShownOrKilled` | `PaneShownOrKilled` | `TabsInv`, stated of a store record so that each operation of `store.ts` is shown to keep it once (`RemoveTabGood`, `RemovePaneGood`, `UpdateGood`, `OpenedGood`, `MovedGood`, ...). `Seen`: a pane stands once in the layout of its tab unless that is torn; `Straight`: a tab that was never astray names only its own panes; `Past`: what a closed tab keeps would be right again if it were reopened; `Dead`: the killed panes are the terminals that are gone. An action is one or several operations, so the drag's loop over removed panes is an induction over them (`RemovePanesGood`) |
| `TabsProofs!LivePointers` | `PointersLive` | `Live` and `Focus` of `TabsInv`: active and remembered tabs are tabs of the workspace, remembered ones once each; the focus is on a pane of the tab, or on a devtools pane that went with its target |
| `TabsProofs!DragSpares` | `DragSparesOthers` | `Shrinks`: the operations that the end of a drag calls remove panes of the tab they were given, and devtools panes of any. No other action ends a drag and removes a pane (`DragEnds`) |
| `TabsProofs!KeepFacts` | | what `cleanLayout` keeps, for layouts of any length: the leaves kept are those at the places `e[1]`, `e[2]`, ... for an injective `e` that meets every wanted place (`KeepPlaces`) |

The strengthenings were checked by TLC on the instances above before they were
proved (`TabsInv` also by simulation with 2 workspaces, 4 tabs and 7 panes). Each proof has one step per action and lemmas for the operators that
several actions share.

So every safety invariant and action property that the passing runs check is a theorem.
Only model-checked is liveness (`EveryCallAnswered`, `DeadSessionReaped`,
`EveryCallEnds`, `OutputFlows`, `AttachEnds`, `SubprocessEnds`, `TableCatchesUp`), which is
out of the prover's reach.

The library's induction theorems take an operator as a parameter and cannot be used here.
Where `TabsProofs` needs induction, over the length of a layout or of a list of panes, it
takes the set of the lengths at which a statement fails and its least element (`Least`,
`Induct`, from the well-foundedness of finite sets under inclusion). The recursive
definitions of `TabsStore`
(`Keep`, `RemovePanes`) are recursive functions for that reason, and `KeepRecursion` and
`RemoveRecursion` prove their recursion equations.

Four statements are not the ones we began with. `NothingLeftAfterDelete` used to know
one directory per workspace; with the paths of `retryInit` it needs the exception
`lost`. `Deliver` of `TabsSync` used to treat each copy of a file as a new change: with
three devices `LastEditShown` was false, which TLC then confirmed.
`FailureRemovesOwnWorktree` needs the exceptions that `Own` names. `PaneShownOrKilled`
did not hold for a tab reopened from a torn one, whose layout has the same leaf twice:
`torn` is inherited now.

## 5. Not modelled, and what is left

Of the modelled components:

* *Daemon server*: parsing of requests and the handlers that only forward.
* *Session*: `clearScrollback` and the metadata, calls of the emulator without a protocol.
* *PTY subprocess*: the pause of the PTY by a full stdout, and batching by size and time.
* *Client*: the upgrade of a legacy daemon, the restart of a stale development script, a
  missing token, the queue of notifications, and requests other than hello and shutdown.
* *Manager*: `clearScrollback`, `forceKillAll`, `cleanup`, `resetHistoryPersistence`,
  `listDaemonSessions`; the reconciliation at startup, which goes on with an old inventory
  after its timeout of 5 seconds; the runtime without a daemon (`terminal/session.ts`).
* *History*: the backlog inside a writer, size caps, `resetAll`, `forceCloseAll`.
* *Workspaces*: the forms of `create` that differ only in how they pick a branch, adopting
  a worktree, opening the main repository: none of them has a job.
* *Sync*: clocks that differ, a watcher that loses the file after a rename, the sync of
  other settings.
* *Tabs store*: directions and sizes of splits, names, statuses, reordering of tabs, the history of a browser pane, what a
  file viewer shows; merges from a peer are in `TabsSync`, as replacements of whole tabs.

Not modelled at all: static ports, the scheduler and the agent scaffold (a debounce per
file), notifications (one map), the desktop shell (calls into Electron), the desktop
routers (validation, git commands and database reads in front of the modelled cores),
agent wrappers (text generation), the rest of the renderer (views), the API server
(stateless handlers over Postgres and services), the web, admin, marketing, docs and
mobile apps (user interface) and the shared packages (schemas and components): they have
no state machine of their own that another actor could disturb. They are most of the
repository's lines.

What would come next: the reconciliation at startup and `forceKillAll` in `DaemonManager`;
the upgrade of a legacy daemon in `HostClient`; the reordering of tabs in `TabsStore`.

## 6. Running it

```
tlc -workers 2 -config TerminalHost.cfg MCTerminalHost.tla
tlc -workers 2 -config WorkspaceInit.cfg MCWorkspaceInit.tla
tlc -workers 2 -config WorkspaceInitLiveness.cfg MCWorkspaceInit.tla
tlc -workers 2 -config WorkspaceInitCancellationDurable.cfg MCWorkspaceInit.tla
tlc -workers 2 -config SessionStream.cfg MCSessionStream.tla
tlc -workers 2 -config SessionStreamExit.cfg MCSessionStream.tla
tlc -workers 2 -config SessionInput.cfg MCSessionInput.tla
tlc -workers 2 -config HostClient.cfg MCHostClient.tla
tlc -workers 2 -config DaemonManager.cfg MCDaemonManager.tla
tlc -workers 2 -config PortManager.cfg MCPortManager.tla
tlc -workers 2 -config TabsSync.cfg MCTabsSync.tla
tlc -workers 2 -config TabsStore.cfg MCTabsStore.tla
tlapm TerminalHostProofs.tla
tlapm SessionStreamProofs.tla
tlapm SessionInputProofs.tla
tlapm HostClientProofs.tla
tlapm DaemonManagerProofs.tla
tlapm PortManagerProofs.tla
tlapm WorkspaceInitProofs.tla
tlapm TabsProofs.tla
```
