----------------------------- MODULE WorkspaceInit -----------------------------
(***************************************************************************)
(* Workspace initialisation and deletion in the desktop app: the           *)
(* WorkspaceInitManager (main/lib/workspace-init-manager.ts), the          *)
(* background job initializeWorkspaceWorktree (workspaces/utils/           *)
(* workspace-init.ts), the agents' own job (main/lib/agent-init.ts) and    *)
(* the mutations that start, retry, delete and close a workspace           *)
(* (workspaces/procedures/create, create-agent, init and delete.ts).       *)
(*                                                                         *)
(* Everything runs in one JavaScript thread, so an action is one stretch   *)
(* of code from one await to the next.  The manager is keyed by workspace  *)
(* id only, while several calls about one workspace may be suspended.      *)
(*                                                                         *)
(* A job's promise is named by the call that started the job.  Progress    *)
(* steps between "pending" and the two final ones are all "working": the   *)
(* code only ever asks whether a step is final.                            *)
(*                                                                         *)
(* A directory is a workspace with one of the paths that branch names give *)
(* it: the paths of different workspaces are taken to be different.        *)
(***************************************************************************)
EXTENDS Sequences

CONSTANTS Workspace,  \* workspace ids
          Agent,      \* the workspaces that are agents with a repository of their own
          Project,    \* project ids
          ProjectOf,  \* the project of each workspace
          Path,       \* paths of a worktree, one for each branch name
          FirstPath,  \* the path with which the record of each workspace is inserted
          Runner,     \* calls that create or retry a workspace, with the job they start
          Deleter,    \* calls of delete, close and deleteWorktree
          None        \* "undefined"

ASSUME ConstantsAssumption ==
  /\ Agent \subseteq Workspace
  /\ ProjectOf \in [Workspace -> Project]
  /\ FirstPath \in [Workspace -> Path]
  /\ Runner \cap Deleter = {}
  /\ None \notin Workspace \cup Path \cup Runner \cup Deleter

VARIABLES
  row,        \* the workspaces table: no row yet, visible, deletingAt set, removed
  record,     \* workspaces whose worktrees row exists
  path,       \* worktrees.path in each record
  disk,       \* the worktree directories that exist
  job,        \* jobs: the InitJob of each workspace
  promise,    \* donePromises and doneResolvers, always set and deleted together
  resolved,   \* the done promises that have been resolved
  cancelled,  \* cancellations
  lock,       \* projectLocks, by the task that took each
  queue,      \* the tasks that await the lock of each project, in order
  context,    \* agent-init's contexts
  run,        \* the calls that initialise
  del,        \* the calls that remove
  \* history, which no action reads
  told,       \* jobs that were running when a delete cancelled their workspace
  raced,      \* workspaces with overlapping jobs, or a job started on one being removed
  lost,       \* directories that were there when a job began in another one
  maker,      \* the job that created each directory
  restarted   \* the app has been killed and started again

table == <<row, record, path, disk>>
manager == <<job, promise, resolved, cancelled>>
locks == <<lock, queue>>
history == <<told, raced, lost, maker, restarted>>
vars == <<row, record, path, disk, job, promise, resolved, cancelled, lock, queue,
          context, run, del, told, raced, lost, maker, restarted>>

Directory == Workspace \X Path

Step == {"pending", "working", "ready", "failed"}
NoJob == [step |-> "none", created |-> FALSE]
Job == [step : Step, created : BOOLEAN] \cup {NoJob}

RunPC == {"idle", "inserted", "checked", "lock", "config", "sync", "verify",
          "fetch", "create", "cleanup", "undo", "repo", "done"}
DelPC == {"idle", "wait", "teardown", "kill", "lock", "remove", "branch",
          "close", "wtLock", "wtRemove", "done"}

\* "adopt" is skipWorktreeCreation: the directory exists before the job starts.
Mode == {"new", "existing", "adopt"}

Init ==
  /\ row = [w \in Workspace |-> "none"]
  /\ record = {} /\ disk = {}
  /\ path = FirstPath
  /\ job = [w \in Workspace |-> NoJob]
  /\ promise = [w \in Workspace |-> None]
  /\ resolved = {} /\ cancelled = {}
  /\ lock = [p \in Project |-> None] /\ queue = [p \in Project |-> <<>>]
  /\ context = {}
  /\ run = [r \in Runner |-> [ws |-> None, path |-> None, mode |-> "new", pc |-> "idle"]]
  /\ del = [d \in Deleter |-> [ws |-> None, path |-> None, token |-> None,
                               rec |-> FALSE, pc |-> "idle"]]
  /\ told = {} /\ raced = {} /\ lost = {} /\ restarted = FALSE
  /\ maker = [x \in Directory |-> None]

------------------------------------------------------------------------------
(* What the calls are doing *)

\* A job exists from startJob to its finally block.
Working(r) == run[r].pc \notin {"idle", "inserted", "checked", "done"}
WorkingOn(w) == {r \in Runner : Working(r) /\ run[r].ws = w}

\* A call of the delete mutation is under way.
Deleting(d) == del[d].pc \in {"wait", "teardown", "kill", "lock", "remove", "branch"}
DeletingOf(w) == {d \in Deleter : Deleting(d) /\ del[d].ws = w}

\* The tasks inside a section that the project lock protects, and their project.
InGit(t) ==
  \/ t \in Runner /\ run[t].pc \in {"config", "sync", "verify", "fetch",
                                    "create", "cleanup", "undo"}
  \/ t \in Deleter /\ del[t].pc \in {"remove", "wtRemove"}
ProjectOfTask(t) == ProjectOf[IF t \in Runner THEN run[t].ws ELSE del[t].ws]

\* The directories a job works in and a removal takes away.
JobDir(r) == <<run[r].ws, run[r].path>>

\* Variant: the directory that the workspace was created with is taken away.
FirstDir(d) == <<del[d].ws, FirstPath[del[d].ws]>>
DelDir(d) == <<del[d].ws, del[d].path>>

HasRow(w) == row[w] \in {"live", "deleting"}

------------------------------------------------------------------------------
(* The manager *)

IsInitializing(w) == job[w].step \in {"pending", "working"}

\* A call of deleteWorktree has read the record of w.
DeletingWorktree(w) ==
  \E d \in Deleter : del[d].ws = w /\ del[d].pc \in {"wtLock", "wtRemove"}

\* History: w is another call's at this moment, or its rows have gone or name
\* another path since the caller looked.
Overlaps(w, p) ==
  \/ WorkingOn(w) # {} \/ DeletingOf(w) # {} \/ DeletingWorktree(w)
  \/ path'[w] # p
  \/ row[w] \in {"deleting", "deleted", "closed"}
  \/ row[w] = "live" /\ w \notin record

\* startJob, for a job that will work at p.
StartJob(r, w, p, step) ==
  /\ job' = [job EXCEPT ![w] = [step |-> step, created |-> FALSE]]
  /\ promise' = [promise EXCEPT ![w] = r]
  /\ cancelled' = cancelled \ {w}
  /\ raced' = IF Overlaps(w, p) THEN raced \cup {w} ELSE raced
  /\ lost' = (lost \cup (disk \cap ({w} \X Path))) \ {<<w, p>>}
  /\ UNCHANGED <<resolved, told, maker, restarted>>

\* What markWorktreeCreated makes of the job of w, if there is one.
Marked(w, step) ==
  IF job[w] = NoJob THEN NoJob ELSE [step |-> step, created |-> TRUE]

\* Variant: marked as created although nothing was created yet.
ProgressMarks(w, step) == Marked(w, step)

\* What updateProgress makes of it.
Progress(w, step) == IF job[w] = NoJob THEN NoJob ELSE [job[w] EXCEPT !.step = step]

\* finalizeJob resolves whatever promise the map holds for w.
Finalize(w) ==
  /\ resolved' = IF promise[w] = None THEN resolved ELSE resolved \cup {promise[w]}
  /\ promise' = [promise EXCEPT ![w] = None]

\* clearJob.
ClearJob(w) ==
  /\ job' = [job EXCEPT ![w] = NoJob]
  /\ promise' = [promise EXCEPT ![w] = None]
  /\ cancelled' = cancelled \ {w}
  /\ UNCHANGED resolved

\* Variant: the lock is taken without a look at projectLocks.
AcquireAtOnce(p, t) ==
  /\ lock' = [lock EXCEPT ![p] = t]
  /\ UNCHANGED queue

\* acquireProjectLock: a waiter awaits the promise of the lock in the map.
Acquire(p, t) ==
  IF lock[p] = None
  THEN lock' = [lock EXCEPT ![p] = t] /\ UNCHANGED queue
  ELSE queue' = [queue EXCEPT ![p] = Append(@, t)] /\ UNCHANGED lock

\* Variant: the lock is kept.
ReleaseNothing(p) == UNCHANGED locks

\* releaseProjectLock, which does not ask who holds the lock.  The awaiting calls
\* resume in the order in which they began to wait, before anything else runs:
\* the first finds the lock free and takes it, the others await it in the same order.
Release(p) ==
  IF queue[p] = <<>>
  THEN lock' = [lock EXCEPT ![p] = None] /\ UNCHANGED queue
  ELSE /\ lock' = [lock EXCEPT ![p] = Head(queue[p])]
       /\ queue' = [queue EXCEPT ![p] = Tail(@)]

Goto(r, loc) == run' = [run EXCEPT ![r] = [@ EXCEPT !.pc = loc]]
DelGoto(d, loc) == del' = [del EXCEPT ![d] = [@ EXCEPT !.pc = loc]]

\* The finally block: finalizeJob, releaseProjectLock.
Finish(r) ==
  /\ Finalize(run[r].ws)
  /\ Release(ProjectOf[run[r].ws])
  /\ Goto(r, "done")

------------------------------------------------------------------------------
(* Starting a job *)

\* create and createFromPr: the rows are inserted, then setBranchBaseConfig is
\* awaited before the job is registered.  createFromPr has made the worktree.
CreateRow(r, w, mode) ==
  LET p == FirstPath[w] IN
  /\ run[r].pc = "idle" /\ row[w] = "none" /\ w \notin Agent
  /\ row' = [row EXCEPT ![w] = "live"]
  /\ record' = record \cup {w}
  /\ path' = [path EXCEPT ![w] = p]
  /\ IF mode = "adopt"
     THEN disk' = disk \cup {<<w, p>>} /\ maker' = [maker EXCEPT ![<<w, p>>] = r]
     ELSE UNCHANGED <<disk, maker>>
  /\ run' = [run EXCEPT ![r] = [ws |-> w, path |-> p, mode |-> mode, pc |-> "inserted"]]
  /\ UNCHANGED <<manager, locks, context, del, told, raced, lost, restarted>>

CreateStart(r) ==
  /\ run[r].pc = "inserted"
  /\ UNCHANGED <<table, context, del>>
  /\ StartJob(r, run[r].ws, run[r].path, "pending")
  /\ Acquire(ProjectOf[run[r].ws], r)
  /\ Goto(r, "lock")

\* setBranchBaseConfig threw: the rows stay, no job is started.
CreateThrows(r) ==
  /\ run[r].pc = "inserted"
  /\ Goto(r, "done")
  /\ UNCHANGED <<table, manager, locks, context, del, history>>

\* retryInit checks the row and reads the record, then awaits resolveRetryTarget,
\* which lists the branches when the name is to be deduplicated.
RetryCheck(r, w) ==
  /\ run[r].pc = "idle" /\ w \notin Agent
  /\ row[w] = "live" /\ w \in record
  /\ run' = [run EXCEPT ![r] = [ws |-> w, path |-> path[w], mode |-> "new",
                               pc |-> "checked"]]
  /\ UNCHANGED <<table, manager, locks, context, del, history>>

\* persistRetryBranchUpdate writes to the record that was read, if it still exists.
MoveRecord(w, p) ==
  path' = IF w \in record THEN [path EXCEPT ![w] = p] ELSE path

\* The branch may have kept its name, or a deduplicated one gives another path;
\* clearJob and startJob follow without a second look at the row.
RetryStart(r, p) ==
  LET w == run[r].ws IN
  /\ run[r].pc = "checked"
  /\ IF p = run[r].path THEN UNCHANGED path ELSE MoveRecord(w, p)
  /\ StartJob(r, w, p, "pending")
  /\ Acquire(ProjectOf[w], r)
  /\ run' = [run EXCEPT ![r] = [@ EXCEPT !.path = p, !.pc = "lock"]]
  /\ UNCHANGED <<row, record, disk, context, del>>

\* listBranches threw: nothing is started.
RetryThrows(r) ==
  /\ run[r].pc = "checked"
  /\ Goto(r, "done")
  /\ UNCHANGED <<table, manager, locks, context, del, history>>

\* The job of an agent up to its first await: the repository's directory is kept
\* or made anew at once, by mkdir or by git clone.
RepoStart(r, w) ==
  LET p == path'[w] IN
  /\ context' = context \cup {w}
  /\ StartJob(r, w, p, "working")
  /\ disk' = disk \cup {<<w, p>>}
  /\ run' = [run EXCEPT ![r] = [ws |-> w, path |-> p, mode |-> "new", pc |-> "repo"]]
  /\ UNCHANGED <<locks, del>>

\* createAgent and beginAgentInit, up to the first await of runAgentInit.
AgentCreate(r, w) ==
  /\ run[r].pc = "idle" /\ row[w] = "none" /\ w \in Agent
  /\ row' = [row EXCEPT ![w] = "live"]
  /\ record' = record \cup {w}
  /\ path' = [path EXCEPT ![w] = FirstPath[w]]
  /\ RepoStart(r, w)

\* retryAgentInit: a remembered context, or a row, is enough; deletingAt is not read.
AgentRetry(r, w) ==
  /\ run[r].pc = "idle" /\ w \in Agent
  /\ w \in context \/ HasRow(w)
  /\ UNCHANGED <<row, record, path>>
  /\ RepoStart(r, w)

------------------------------------------------------------------------------
(* initializeWorkspaceWorktree *)

\* The lock is ours; a cancelled job leaves at once through finally.
InitLocked(r) ==
  LET w == run[r].ws IN
  /\ run[r].pc = "lock" /\ lock[ProjectOf[w]] = r
  /\ w \notin cancelled
  /\ Goto(r, "config")
  /\ UNCHANGED <<table, manager, locks, context, del, history>>

InitCancelledAtLock(r) ==
  LET w == run[r].ws IN
  /\ run[r].pc = "lock" /\ lock[ProjectOf[w]] = r
  /\ w \in cancelled
  /\ Finish(r)
  /\ UNCHANGED <<table, job, cancelled, context, del, history>>

\* getBranchBaseConfig is back: a new branch is synced first, an existing one
\* gets its worktree at once.
ConfigDone(r) ==
  LET w == run[r].ws IN
  /\ run[r].pc = "config" /\ run[r].mode # "adopt"
  /\ job' = [job EXCEPT ![w] = Progress(w, "working")]
  /\ Goto(r, IF run[r].mode = "new" THEN "sync" ELSE "create")
  /\ UNCHANGED <<table, promise, resolved, cancelled, locks, context, del, history>>

\* Variant: an exit without a final progress step.
FailSilently(r) ==
  /\ Finish(r)
  /\ UNCHANGED <<job, cancelled>>

\* The job ends with the step "failed".
Fail(r) ==
  /\ job' = [job EXCEPT ![run[r].ws] = Progress(run[r].ws, "failed")]
  /\ Finish(r)
  /\ UNCHANGED cancelled

\* The worktree is there: copy the configuration and record the git status,
\* without another await.
Ready(r) ==
  LET w == run[r].ws IN
  /\ w \notin cancelled
  /\ job' = [job EXCEPT ![w] = Marked(w, "ready")]
  /\ Finish(r)
  /\ UNCHANGED cancelled

\* Variant: waiters are woken before the worktree is removed.
CleanUpAndFinalize(r) ==
  LET w == run[r].ws IN
  /\ w \in cancelled
  /\ job' = [job EXCEPT ![w] = Marked(w, job[w].step)]
  /\ Goto(r, "cleanup")
  /\ Finalize(w)
  /\ UNCHANGED <<cancelled, locks>>

\* Cancelled once the worktree exists: it is removed again.
CleanUp(r) ==
  LET w == run[r].ws IN
  /\ w \in cancelled
  /\ job' = [job EXCEPT ![w] = Marked(w, job[w].step)]
  /\ Goto(r, "cleanup")
  /\ UNCHANGED <<promise, resolved, cancelled, locks>>

\* The database refuses the git status: the catch block finds a job that is
\* marked as created, if there is one.
StatusThrows(r) ==
  LET w == run[r].ws IN
  /\ w \notin cancelled
  /\ IF job[w] = NoJob
     THEN Fail(r)
     ELSE /\ job' = [job EXCEPT ![w] = Marked(w, "working")]
          /\ Goto(r, "undo")
          /\ UNCHANGED <<promise, resolved, cancelled, locks>>

ConfigDoneAdopt(r) ==
  /\ run[r].pc = "config" /\ run[r].mode = "adopt"
  /\ Ready(r) \/ StatusThrows(r) \/ CleanUp(r)
  /\ UNCHANGED <<table, context, del, history>>

\* The next await of the chain refreshDefaultBranch, remote and local references, fetch.
NextOf == [sync |-> "verify", verify |-> "fetch", fetch |-> "create"]

Advance(r) ==
  LET w == run[r].ws IN
  /\ run[r].pc \in DOMAIN NextOf /\ w \notin cancelled
  /\ job' = [job EXCEPT ![w] = Progress(w, "working")]
  /\ Goto(r, NextOf[run[r].pc])
  /\ UNCHANGED <<table, promise, resolved, cancelled, locks, context, del, history>>

AdvanceCancelled(r) ==
  /\ run[r].pc \in DOMAIN NextOf /\ run[r].ws \in cancelled
  /\ Finish(r)
  /\ UNCHANGED <<table, job, cancelled, context, del, history>>

\* No reference to start from: reported without an exception, cancelled or not.
NoReference(r) ==
  /\ run[r].pc \in {"verify", "fetch"}
  /\ Fail(r)
  /\ UNCHANGED <<table, context, del, history>>

\* git worktree add succeeded; it refuses a directory that exists.
WorktreeCreated(r) ==
  /\ run[r].pc = "create" /\ JobDir(r) \notin disk
  /\ disk' = disk \cup {JobDir(r)}
  /\ maker' = [maker EXCEPT ![JobDir(r)] = r]
  /\ Ready(r) \/ StatusThrows(r) \/ CleanUp(r)
  /\ UNCHANGED <<row, record, path, context, del, told, raced, lost, restarted>>

\* Any await may throw.  createWorktree may do so after the directory was made
\* (the git config call that follows can fail): it is not marked as created then.
Throw(r) ==
  LET w == run[r].ws IN
  /\ run[r].pc \in {"config", "sync", "verify", "fetch", "create"}
  /\ \/ UNCHANGED <<disk, maker>>
     \/ /\ run[r].pc = "create" /\ JobDir(r) \notin disk
        /\ disk' = disk \cup {JobDir(r)}
        /\ maker' = [maker EXCEPT ![JobDir(r)] = r]
  /\ IF job[w].created
     THEN /\ Goto(r, "undo")
          /\ UNCHANGED <<job, promise, resolved, cancelled, locks>>
     ELSE Fail(r)
  /\ UNCHANGED <<row, record, path, context, del, told, raced, lost, restarted>>

\* removeWorktree came back, or threw before or after the directory was renamed.
CleanupDone(r) ==
  /\ run[r].pc = "cleanup"
  /\ disk' \in {disk, disk \ {JobDir(r)}}
  /\ Finish(r)
  /\ UNCHANGED <<row, record, path, job, cancelled, context, del, history>>

UndoDone(r) ==
  /\ run[r].pc = "undo"
  /\ disk' \in {disk, disk \ {JobDir(r)}}
  /\ Fail(r)
  /\ UNCHANGED <<row, record, path, context, del, history>>

------------------------------------------------------------------------------
(* runAgentInit: no lock, and cancellations are never looked at *)

\* git works in the directory, and fails if somebody has taken it away.
RepoReady(r) ==
  LET w == run[r].ws IN
  /\ run[r].pc = "repo" /\ JobDir(r) \in disk
  /\ job' = [job EXCEPT ![w] = Marked(w, "ready")]
  /\ Finalize(w)
  /\ context' = context \ {w}
  /\ Goto(r, "done")
  /\ UNCHANGED <<table, cancelled, locks, del, history>>

\* git clone removes what it made; a failed git init or scaffold does not.
RepoFails(r) ==
  LET w == run[r].ws IN
  /\ run[r].pc = "repo"
  /\ disk' \in {disk, disk \ {JobDir(r)}}
  /\ job' \in {[job EXCEPT ![w] = Marked(w, "failed")],
              [job EXCEPT ![w] = Progress(w, "failed")]}
  /\ Finalize(w)
  /\ Goto(r, "done")
  /\ UNCHANGED <<row, record, path, cancelled, locks, context, del, history>>

\* The timer of updateProgress drops a job that is still ready.
ReadyTimer(w) ==
  /\ job[w].step = "ready"
  /\ job' = [job EXCEPT ![w] = NoJob]
  /\ UNCHANGED <<table, promise, resolved, cancelled, locks, context, run, del, history>>

------------------------------------------------------------------------------
(* delete *)

\* The second part of delete: terminals are killed and the teardown script runs.
TeardownPC(w) == IF w \in record /\ <<w, path[w]>> \in disk THEN "teardown" ELSE "kill"
ToTeardown(d, w) ==
  del' = [del EXCEPT ![d] = [ws |-> w, path |-> path[w], token |-> None,
                             rec |-> w \in record, pc |-> TeardownPC(w)]]

\* cancel and waitForInit: there is nothing to wait for once the job was finalized.
CancelAndWait(d, w) ==
  /\ cancelled' = cancelled \cup {w}
  /\ told' = told \cup WorkingOn(w)
  /\ IF promise[w] = None
     THEN ToTeardown(d, w)
     ELSE del' = [del EXCEPT ![d] = [ws |-> w, path |-> None, token |-> promise[w],
                                     rec |-> FALSE, pc |-> "wait"]]

DeleteStart(d, w) ==
  /\ del[d].pc = "idle" /\ HasRow(w)
  /\ row' = [row EXCEPT ![w] = "deleting"]
  /\ IF IsInitializing(w) THEN CancelAndWait(d, w)
     ELSE ToTeardown(d, w) /\ UNCHANGED <<cancelled, told>>
  /\ UNCHANGED <<record, path, disk, job, promise, resolved, locks, context, run,
                 raced, lost, maker, restarted>>

WaitDone(d) ==
  /\ del[d].pc = "wait" /\ del[d].token \in resolved
  /\ ToTeardown(d, del[d].ws)
  /\ UNCHANGED <<table, manager, locks, context, run, history>>

WaitTimeout(d) ==
  /\ del[d].pc = "wait"
  /\ ToTeardown(d, del[d].ws)
  /\ UNCHANGED <<table, manager, locks, context, run, history>>

\* Variant: a failed delete leaves deletingAt set.
StayHidden(w) == UNCHANGED row

\* clearWorkspaceDeletingStatus, on the row if it still exists.
Unhide(w) == row' = IF HasRow(w) THEN [row EXCEPT ![w] = "live"] ELSE row

TeardownFails(d) ==
  /\ del[d].pc = "teardown"
  /\ Unhide(del[d].ws)
  /\ DelGoto(d, "done")
  /\ UNCHANGED <<record, path, disk, manager, locks, context, run, history>>

\* The worktree record read before the teardown decides whether there is
\* anything to remove.
TeardownDone(d) ==
  /\ del[d].pc \in {"teardown", "kill"}
  /\ IF del[d].rec THEN Acquire(ProjectOf[del[d].ws], d) /\ DelGoto(d, "lock")
                   ELSE DelGoto(d, "branch") /\ UNCHANGED locks
  /\ UNCHANGED <<table, manager, context, run, history>>

DeleteLocked(d) ==
  /\ del[d].pc = "lock" /\ lock[ProjectOf[del[d].ws]] = d
  /\ DelGoto(d, "remove")
  /\ UNCHANGED <<table, manager, locks, context, run, history>>

RemoveDone(d) ==
  /\ del[d].pc = "remove"
  /\ disk' = disk \ {DelDir(d)}
  /\ Release(ProjectOf[del[d].ws])
  /\ DelGoto(d, "branch")
  /\ UNCHANGED <<row, record, path, manager, context, run, history>>

RemoveFails(d) ==
  /\ del[d].pc = "remove"
  /\ disk' \in {disk, disk \ {DelDir(d)}}
  /\ Unhide(del[d].ws)
  /\ Release(ProjectOf[del[d].ws])
  /\ DelGoto(d, "done")
  /\ UNCHANGED <<record, path, manager, context, run, history>>

\* deleteLocalBranch is over, with or without success: the rows and the job go.
DeleteDone(d) ==
  LET w == del[d].ws IN
  /\ del[d].pc = "branch"
  /\ row' = IF HasRow(w) THEN [row EXCEPT ![w] = "deleted"] ELSE row
  /\ record' = IF del[d].rec THEN record \ {w} ELSE record
  /\ ClearJob(w)
  /\ DelGoto(d, "done")
  /\ UNCHANGED <<path, disk, locks, context, run, history>>

------------------------------------------------------------------------------
(* close, deleteWorktree and the end of the process *)

CloseStart(d, w) ==
  /\ del[d].pc = "idle" /\ HasRow(w)
  /\ del' = [del EXCEPT ![d] = [@ EXCEPT !.ws = w, !.pc = "close"]]
  /\ UNCHANGED <<table, manager, locks, context, run, history>>

\* The worktree and a running job are left alone.
CloseDone(d) ==
  LET w == del[d].ws IN
  /\ del[d].pc = "close"
  /\ row' = IF HasRow(w) THEN [row EXCEPT ![w] = "closed"] ELSE row
  /\ DelGoto(d, "done")
  /\ UNCHANGED <<record, path, disk, manager, locks, context, run, history>>

DeleteWorktreeStart(d, w) ==
  /\ del[d].pc = "idle" /\ w \in record
  /\ del' = [del EXCEPT ![d] = [@ EXCEPT !.ws = w, !.path = path[w], !.pc = "wtLock"]]
  /\ Acquire(ProjectOf[w], d)
  /\ UNCHANGED <<table, manager, context, run, history>>

DeleteWorktreeLocked(d) ==
  /\ del[d].pc = "wtLock" /\ lock[ProjectOf[del[d].ws]] = d
  /\ DelGoto(d, "wtRemove")
  /\ UNCHANGED <<table, manager, locks, context, run, history>>

DeleteWorktreeDone(d) ==
  LET w == del[d].ws IN
  /\ del[d].pc = "wtRemove"
  /\ disk' = disk \ {DelDir(d)}
  /\ record' = record \ {w}
  /\ raced' = IF WorkingOn(w) # {} THEN raced \cup {w} ELSE raced
  /\ Release(ProjectOf[w])
  /\ DelGoto(d, "done")
  /\ UNCHANGED <<row, path, manager, context, run, told, lost, maker, restarted>>

\* The check, the teardown or the removal failed.
DeleteWorktreeFails(d) ==
  /\ del[d].pc = "wtRemove"
  /\ disk' \in {disk, disk \ {DelDir(d)}}
  /\ Release(ProjectOf[del[d].ws])
  /\ DelGoto(d, "done")
  /\ UNCHANGED <<row, record, path, manager, context, run, history>>

\* The app dies and is started again: the manager lives in memory only.  Git
\* commands in flight may still finish their directory.
Restart ==
  /\ ~restarted /\ restarted' = TRUE
  /\ \E made \in SUBSET {JobDir(r) : r \in {q \in Runner : run[q].pc = "create"}} :
       disk' = disk \cup made
  /\ job' = [w \in Workspace |-> NoJob]
  /\ promise' = [w \in Workspace |-> None]
  /\ resolved' = {} /\ cancelled' = {} /\ context' = {}
  /\ lock' = [p \in Project |-> None] /\ queue' = [p \in Project |-> <<>>]
  /\ run' = [r \in Runner |-> IF run[r].pc = "idle" THEN run[r]
                              ELSE [run[r] EXCEPT !.pc = "done"]]
  /\ del' = [d \in Deleter |-> IF del[d].pc = "idle" THEN del[d]
                               ELSE [del[d] EXCEPT !.pc = "done"]]
  /\ UNCHANGED <<row, record, path, told, raced, lost, maker>>

------------------------------------------------------------------------------
\* The segments that follow an await, by the call that was waiting.
RunStep(r) ==
  \/ CreateStart(r) \/ CreateThrows(r)
  \/ (\E p \in Path : RetryStart(r, p)) \/ RetryThrows(r)
  \/ InitLocked(r) \/ InitCancelledAtLock(r)
  \/ ConfigDone(r) \/ ConfigDoneAdopt(r)
  \/ Advance(r) \/ AdvanceCancelled(r) \/ NoReference(r)
  \/ WorktreeCreated(r) \/ Throw(r) \/ CleanupDone(r) \/ UndoDone(r)
  \/ RepoReady(r) \/ RepoFails(r)

DelStep(d) ==
  \/ WaitDone(d) \/ WaitTimeout(d) \/ TeardownFails(d) \/ TeardownDone(d)
  \/ DeleteLocked(d) \/ RemoveDone(d) \/ RemoveFails(d) \/ DeleteDone(d)
  \/ CloseDone(d)
  \/ DeleteWorktreeLocked(d) \/ DeleteWorktreeDone(d) \/ DeleteWorktreeFails(d)

UserStep(w) ==
  \/ \E r \in Runner :
       \/ \E mode \in Mode : CreateRow(r, w, mode)
       \/ RetryCheck(r, w) \/ AgentCreate(r, w) \/ AgentRetry(r, w)
  \/ \E d \in Deleter :
       DeleteStart(d, w) \/ CloseStart(d, w) \/ DeleteWorktreeStart(d, w)

Next ==
  \/ \E w \in Workspace : UserStep(w) \/ ReadyTimer(w)
  \/ \E r \in Runner : RunStep(r)
  \/ \E d \in Deleter : DelStep(d)
  \/ Restart

Spec == Init /\ [][Next]_vars

\* Every await settles: git commands end, teardown and waitForInit have timers.
\* A waiter for the lock takes it if it stays free (calls are finite, so it does).
Fairness == /\ \A r \in Runner : WF_vars(RunStep(r))
            /\ \A d \in Deleter : WF_vars(DelStep(d))
FairSpec == Spec /\ Fairness

------------------------------------------------------------------------------
(* Properties *)

\* Types of the manager's maps, of the tables and of the calls.
TypeOK ==
  /\ row \in [Workspace -> {"none", "live", "deleting", "deleted", "closed"}]
  /\ record \subseteq Workspace /\ disk \subseteq Directory
  /\ path \in [Workspace -> Path]
  /\ job \in [Workspace -> Job]
  /\ promise \in [Workspace -> Runner \cup {None}]
  /\ resolved \subseteq Runner
  /\ cancelled \subseteq Workspace
  /\ lock \in [Project -> Runner \cup Deleter \cup {None}]
  /\ queue \in [Project -> Seq(Runner \cup Deleter)]
  /\ context \subseteq Workspace
  /\ run \in [Runner -> [ws : Workspace \cup {None}, path : Path \cup {None},
                         mode : Mode, pc : RunPC]]
  /\ del \in [Deleter -> [ws : Workspace \cup {None}, path : Path \cup {None},
                          token : Runner \cup {None}, rec : BOOLEAN, pc : DelPC]]
  /\ told \subseteq Runner /\ raced \subseteq Workspace /\ lost \subseteq Directory
  /\ maker \in [Directory -> Runner \cup {None}]
  /\ restarted \in BOOLEAN

\* "Only one git operation per project at a time": two calls never work on the
\* repository of one project together, although releaseProjectLock does not ask
\* whose lock it releases.
OneGitOperation ==
  \A t, u \in Runner \cup Deleter :
    InGit(t) /\ InGit(u) /\ ProjectOfTask(t) = ProjectOfTask(u) => t = u

\* A workspace shown as initializing has a job at work, or a delete has asked
\* for its cancellation; no exit of a job leaves the progress hanging.
InitializingHasJob ==
  \A w \in Workspace : IsInitializing(w) => WorkingOn(w) # {} \/ w \in cancelled

\* A workspace is hidden by deletingAt only while a delete is at work on it,
\* unless the app was killed in the middle of one.
HiddenOnlyWhileDeleting ==
  \A w \in Workspace : row[w] = "deleting" => DeletingOf(w) # {} \/ restarted

\* After a successful delete nothing is left on disk, even when delete gave up
\* waiting for the job, with two exceptions: jobs of the workspace overlapped, or
\* one was started on a workspace that was already being removed; and a directory
\* that exists, left by a failed job, when a retry moves the record to a
\* deduplicated branch stays for good, as delete only knows the path in the record.
NothingLeftAfterDelete ==
  \A w \in Workspace, p \in Path :
    row[w] = "deleted" /\ WorkingOn(w) = {} /\ w \notin raced /\ <<w, p>> \in disk
      => <<w, p>> \in lost

\* The worktree in which r works was made by the call of r, unless a job of the
\* same workspace overlapped with the one of r, or made the worktree anew while
\* createFromPr had not yet started its own.
Own(r) ==
  LET by == maker[JobDir(r)] IN
  \/ by = r
  \/ run[r].ws \in raced
  \/ run[r].mode = "adopt" /\ by # None /\ run[by].mode # "adopt"

\* What a failed job cleans up is what it made itself, although the mark that a
\* worktree was created is filed by workspace.
FailureRemovesOwnWorktree ==
  [][\A r \in Runner :
       run[r].pc = "undo" /\ run'[r].pc = "done" /\ JobDir(r) \in disk \ disk'
         => Own(r)]_vars

\* What waitForInit waits for is the end of the job, cleanup included: a done
\* promise is resolved early only where jobs of one workspace overlapped and one
\* finalized the promise of the other.
ResolvedAtTheEnd ==
  \A r \in resolved : Working(r) => run[r].ws \in raced

\* The comment of cancel: the cancellation "persists even after job is cleared,
\* preventing the race where clearJob() removes the cancellation signal before
\* init can observe it": a job that was cancelled and is still at work can see it.
CancellationDurable ==
  \A r \in told : Working(r) /\ run[r].ws \notin Agent => run[r].ws \in cancelled

\* Every call that starts or removes a workspace comes to its end, whatever
\* fails, gets cancelled or stands in the queue for the project lock.
EveryCallEnds ==
  /\ \A r \in Runner : (run[r].pc # "idle") ~> (run[r].pc = "done")
  /\ \A d \in Deleter : (del[d].pc # "idle") ~> (del[d].pc = "done")

==============================================================================
