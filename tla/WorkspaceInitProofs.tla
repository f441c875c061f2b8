-------------------------- MODULE WorkspaceInitProofs --------------------------
(***************************************************************************)
(* Proofs about the workspace lifecycle for any number of workspaces,      *)
(* projects and calls, any assignment of workspaces to projects and any    *)
(* set of agents.                                                          *)
(***************************************************************************)
EXTENDS WorkspaceInit, Integers, TLAPS

------------------------------------------------------------------------------
(* Type correctness                                                        *)
(*                                                                         *)
(* The types alone are not inductive: a call may only look up the project  *)
(* of its workspace because it has one from its first step on.             *)

HasWorkspace ==
  /\ \A r \in Runner : run[r].pc # "idle" => run[r].ws \in Workspace /\ run[r].path \in Path
  /\ \A d \in Deleter : del[d].pc # "idle" => del[d].ws \in Workspace

RunType == [ws : Workspace \cup {None}, path : Path \cup {None}, mode : Mode, pc : RunPC]
DelType == [ws : Workspace \cup {None}, path : Path \cup {None},
            token : Runner \cup {None}, rec : BOOLEAN, pc : DelPC]
LockType == /\ lock \in [Project -> Runner \cup Deleter \cup {None}]
            /\ queue \in [Project -> Seq(Runner \cup Deleter)]

LEMMA AcquireType ==
  ASSUME TypeOK, NEW p \in Project, NEW t \in Runner \cup Deleter, Acquire(p, t)
  PROVE  LockType'
<1>1. CASE lock[p] = None
  BY <1>1 DEF Acquire, TypeOK, LockType
<1>2. CASE lock[p] # None
  <2>1. Append(queue[p], t) \in Seq(Runner \cup Deleter)
    BY DEF TypeOK
  <2>. QED  BY <1>2, <2>1 DEF Acquire, TypeOK, LockType
<1>. QED  BY <1>1, <1>2

LEMMA ReleaseType ==
  ASSUME TypeOK, NEW p \in Project, Release(p)
  PROVE  LockType'
<1>1. CASE queue[p] = <<>>
  BY <1>1 DEF Release, TypeOK, LockType
<1>2. CASE queue[p] # <<>>
  <2>1. queue[p] \in Seq(Runner \cup Deleter)
    BY DEF TypeOK
  <2>2. Head(queue[p]) \in Runner \cup Deleter /\ Tail(queue[p]) \in Seq(Runner \cup Deleter)
    BY <1>2, <2>1
  <2>. QED  BY <1>2, <2>2 DEF Release, TypeOK, LockType
<1>. QED  BY <1>1, <1>2

LEMMA FinalizeType ==
  ASSUME TypeOK, NEW w \in Workspace, Finalize(w)
  PROVE  /\ promise' \in [Workspace -> Runner \cup {None}]
         /\ resolved' \subseteq Runner
BY DEF Finalize, TypeOK

LEMMA JobType ==
  ASSUME TypeOK, NEW w \in Workspace, NEW step \in Step
  PROVE  /\ Marked(w, step) \in Job
         /\ Progress(w, step) \in Job
         /\ Marked(w, job[w].step) \in Job
BY DEF Marked, Progress, TypeOK, Job, NoJob, Step

LEMMA GotoType ==
  ASSUME TypeOK, NEW r \in Runner, NEW loc \in RunPC, Goto(r, loc)
  PROVE  /\ run' \in [Runner -> RunType]
         /\ \A q \in Runner : /\ run'[q].ws = run[q].ws
                              /\ run'[q].path = run[q].path
                              /\ run'[q].mode = run[q].mode
                              /\ run'[q].pc = IF q = r THEN loc ELSE run[q].pc
BY DEF Goto, TypeOK, RunType

LEMMA DelGotoType ==
  ASSUME TypeOK, NEW d \in Deleter, NEW loc \in DelPC, DelGoto(d, loc)
  PROVE  /\ del' \in [Deleter -> DelType]
         /\ \A e \in Deleter : /\ del'[e].ws = del[e].ws
                               /\ del'[e].path = del[e].path
                               /\ del'[e].pc = IF e = d THEN loc ELSE del[e].pc
BY DEF DelGoto, TypeOK, DelType

\* What every action but the entry points has in common: no call changes its
\* workspace or comes back to "idle".
KeepsWorkspace ==
  /\ \A r \in Runner : /\ run'[r].ws = run[r].ws
                       /\ run[r].pc = "idle" => run'[r].pc = "idle"
  /\ \A d \in Deleter : /\ del'[d].ws = del[d].ws
                        /\ del[d].pc = "idle" => del'[d].pc = "idle"

LEMMA FinishType ==
  ASSUME TypeOK, HasWorkspace, NEW r \in Runner, run[r].pc # "idle", Finish(r)
  PROVE  /\ promise' \in [Workspace -> Runner \cup {None}]
         /\ resolved' \subseteq Runner
         /\ LockType'
         /\ run' \in [Runner -> RunType]
         /\ \A q \in Runner : /\ run'[q].ws = run[q].ws
                              /\ run'[q].path = run[q].path
                              /\ run'[q].mode = run[q].mode
                              /\ run'[q].pc = IF q = r THEN "done" ELSE run[q].pc
<1>1. run[r].ws \in Workspace /\ ProjectOf[run[r].ws] \in Project /\ "done" \in RunPC
  BY ConstantsAssumption DEF HasWorkspace, RunPC
<1>. QED  BY <1>1, FinalizeType, ReleaseType, GotoType DEF Finish

\* A call that has left "idle" works in a project.
LEMMA ProjectOfCall ==
  ASSUME TypeOK, HasWorkspace
  PROVE  /\ \A r \in Runner : run[r].pc # "idle" =>
                run[r].ws \in Workspace /\ ProjectOf[run[r].ws] \in Project
         /\ \A d \in Deleter : del[d].pc # "idle" =>
                del[d].ws \in Workspace /\ ProjectOf[del[d].ws] \in Project
BY ConstantsAssumption DEF HasWorkspace

LEMMA DirOfCall ==
  ASSUME TypeOK, HasWorkspace
  PROVE  \A r \in Runner : run[r].pc # "idle" => JobDir(r) \in Directory
BY DEF HasWorkspace, JobDir, Directory

\* The parts of the type invariant that the actions rewrite one by one.
TableType == /\ row \in [Workspace -> {"none", "live", "deleting", "deleted", "closed"}]
             /\ record \subseteq Workspace /\ disk \subseteq Directory
             /\ path \in [Workspace -> Path]
ManagerType == /\ job \in [Workspace -> Job]
               /\ promise \in [Workspace -> Runner \cup {None}]
               /\ resolved \subseteq Runner
               /\ cancelled \subseteq Workspace
HistoryType == /\ told \subseteq Runner /\ raced \subseteq Workspace /\ lost \subseteq Directory
               /\ maker \in [Directory -> Runner \cup {None}]
               /\ restarted \in BOOLEAN

LEMMA Parts ==
  TypeOK <=> /\ TableType /\ ManagerType /\ LockType /\ HistoryType
             /\ context \subseteq Workspace
             /\ run \in [Runner -> RunType] /\ del \in [Deleter -> DelType]
BY DEF TypeOK, TableType, ManagerType, LockType, HistoryType, RunType, DelType

LEMMA StartJobType ==
  ASSUME TypeOK, NEW r \in Runner, NEW w \in Workspace, NEW p \in Path, NEW step \in Step,
         StartJob(r, w, p, step)
  PROVE  ManagerType' /\ HistoryType'
<1>1. [step |-> step, created |-> FALSE] \in Job
  BY DEF Job
<1>. QED  BY <1>1 DEF StartJob, TypeOK, ManagerType, HistoryType

LEMMA FailType ==
  ASSUME TypeOK, HasWorkspace, NEW r \in Runner, run[r].pc # "idle", Fail(r)
  PROVE  /\ ManagerType' /\ LockType'
         /\ run' \in [Runner -> RunType]
         /\ \A q \in Runner : /\ run'[q].ws = run[q].ws
                              /\ run'[q].path = run[q].path
                              /\ q # r => run'[q].pc = run[q].pc
         /\ run'[r].pc = "done"
<1>1. run[r].ws \in Workspace
  BY ProjectOfCall
<1>2. Progress(run[r].ws, "failed") \in Job
  BY <1>1, JobType DEF Step
<1>. QED  BY <1>1, <1>2, FinishType DEF Fail, TypeOK, ManagerType

LEMMA ReadyOrCleanUpType ==
  ASSUME TypeOK, HasWorkspace, NEW r \in Runner, run[r].pc # "idle",
         Ready(r) \/ StatusThrows(r) \/ CleanUp(r)
  PROVE  /\ ManagerType' /\ LockType'
         /\ run' \in [Runner -> RunType]
         /\ \A q \in Runner : /\ run'[q].ws = run[q].ws
                              /\ run'[q].path = run[q].path
                              /\ q # r => run'[q].pc = run[q].pc
         /\ run'[r].pc \in {"done", "cleanup", "undo"}
<1>1. run[r].ws \in Workspace
  BY ProjectOfCall
<1>2. /\ Marked(run[r].ws, "ready") \in Job
      /\ Marked(run[r].ws, "working") \in Job
      /\ Marked(run[r].ws, job[run[r].ws].step) \in Job
  BY <1>1, JobType DEF Step
<1>3. CASE Ready(r)
  BY <1>1, <1>2, <1>3, FinishType DEF Ready, TypeOK, ManagerType
<1>4. CASE CleanUp(r)
  <2>1. "cleanup" \in RunPC
    BY DEF RunPC
  <2>. QED  BY <1>1, <1>2, <1>4, <2>1, GotoType DEF CleanUp, TypeOK, ManagerType, LockType, locks
<1>5. CASE StatusThrows(r)
  <2>1. CASE Fail(r)
    BY <2>1, FailType
  <2>2. CASE ~Fail(r)
    <3>1. "undo" \in RunPC
      BY DEF RunPC
    <3>. QED  BY <1>1, <1>2, <1>5, <2>2, <3>1, GotoType
              DEF StatusThrows, TypeOK, ManagerType, LockType, locks
  <2>. QED  BY <2>1, <2>2
<1>. QED  BY <1>3, <1>4, <1>5

\* Every step of a call keeps the types and the workspaces of the calls.
LEMMA RunStepType ==
  ASSUME TypeOK, HasWorkspace, NEW r \in Runner, RunStep(r)
  PROVE  TypeOK' /\ HasWorkspace'
<1>. DEFINE w == run[r].ws
<1>p. /\ TableType /\ ManagerType /\ LockType /\ HistoryType
      /\ context \subseteq Workspace
      /\ run \in [Runner -> RunType] /\ del \in [Deleter -> DelType]
  BY Parts
<1>. SUFFICES /\ TableType' /\ ManagerType' /\ LockType' /\ HistoryType'
              /\ context' \subseteq Workspace
              /\ run' \in [Runner -> RunType] /\ del' \in [Deleter -> DelType]
              /\ HasWorkspace'
  BY DEF TypeOK, TableType, ManagerType, LockType, HistoryType, RunType, DelType
<1>i. run[r].pc # "idle"
  BY DEF RunStep, NextOf, CreateStart, CreateThrows, RetryStart, RetryThrows, InitLocked,
         InitCancelledAtLock, ConfigDone, ConfigDoneAdopt, Advance, AdvanceCancelled,
         NoReference, WorktreeCreated, Throw, CleanupDone, UndoDone, RepoReady, RepoFails
<1>w. w \in Workspace /\ ProjectOf[w] \in Project /\ run[r].path \in Path /\ JobDir(r) \in Directory
  BY <1>i, ProjectOfCall DEF HasWorkspace, JobDir, Directory
<1>l. "lock" \in RunPC /\ "done" \in RunPC /\ "config" \in RunPC /\ "undo" \in RunPC
  BY DEF RunPC
<1>1. CASE CreateStart(r)
  BY <1>1, <1>p, <1>i, <1>w, <1>l, StartJobType, AcquireType, GotoType
     DEF CreateStart, HasWorkspace, TableType, ManagerType, LockType, HistoryType, table, manager, locks, history, Step
<1>2. CASE CreateThrows(r)
  BY <1>2, <1>p, <1>i, <1>w, <1>l, GotoType
     DEF CreateThrows, HasWorkspace, TableType, ManagerType, LockType, HistoryType, table, manager, locks, history
<1>3. ASSUME NEW p \in Path, RetryStart(r, p)
      PROVE  /\ TableType' /\ ManagerType' /\ LockType' /\ HistoryType'
             /\ context' \subseteq Workspace
             /\ run' \in [Runner -> RunType] /\ del' \in [Deleter -> DelType]
             /\ HasWorkspace'
  <2>1. TableType'
    BY <1>3, <1>p DEF RetryStart, MoveRecord, TableType
  <2>2. ManagerType' /\ LockType' /\ HistoryType'
    BY <1>3, <1>w, StartJobType, AcquireType DEF RetryStart, Step
  <2>3. run' \in [Runner -> RunType] /\ HasWorkspace'
    BY <1>3, <1>p, <1>w, <1>l DEF RetryStart, HasWorkspace, RunType
  <2>. QED  BY <1>3, <1>p, <2>1, <2>2, <2>3 DEF RetryStart
<1>17. CASE RetryThrows(r)
  BY <1>17, <1>p, <1>i, <1>w, <1>l, GotoType
     DEF RetryThrows, HasWorkspace, TableType, ManagerType, LockType, HistoryType, table, manager, locks, history
<1>4. CASE InitLocked(r)
  BY <1>4, <1>p, <1>i, <1>w, <1>l, GotoType
     DEF InitLocked, HasWorkspace, TableType, ManagerType, LockType, HistoryType, table, manager, locks, history
<1>5. CASE InitCancelledAtLock(r)
  BY <1>5, <1>p, <1>i, <1>w, <1>l, FinishType
     DEF InitCancelledAtLock, HasWorkspace, TableType, ManagerType, LockType, HistoryType, table, manager, locks, history
<1>6. CASE ConfigDone(r)
  <2>1. Progress(w, "working") \in Job
    BY <1>w, JobType DEF Step
  <2>2. PICK loc \in RunPC : loc # "idle" /\ Goto(r, loc)
    BY <1>6 DEF ConfigDone, RunPC
  <2>3. /\ run' \in [Runner -> RunType]
        /\ \A q \in Runner : /\ run'[q].ws = run[q].ws /\ run'[q].path = run[q].path
                             /\ run'[q].pc = IF q = r THEN loc ELSE run[q].pc
    BY <2>2, GotoType
  <2>4. HasWorkspace'
    BY <1>6, <1>i, <2>2, <2>3 DEF ConfigDone, HasWorkspace
  <2>. QED  BY <1>6, <1>p, <1>w, <2>1, <2>3, <2>4
    DEF ConfigDone, TableType, ManagerType, LockType, HistoryType, table, locks, history
<1>7. CASE ConfigDoneAdopt(r)
  BY <1>7, <1>p, <1>i, <1>w, <1>l, ReadyOrCleanUpType
     DEF ConfigDoneAdopt, HasWorkspace, TableType, ManagerType, LockType, HistoryType, table, manager, locks, history
<1>8. CASE Advance(r)
  <2>1. Progress(w, "working") \in Job
    BY <1>w, JobType DEF Step
  <2>2. PICK loc \in RunPC : loc # "idle" /\ Goto(r, loc)
    BY <1>8 DEF Advance, NextOf, RunPC
  <2>3. /\ run' \in [Runner -> RunType]
        /\ \A q \in Runner : /\ run'[q].ws = run[q].ws /\ run'[q].path = run[q].path
                             /\ run'[q].pc = IF q = r THEN loc ELSE run[q].pc
    BY <2>2, GotoType
  <2>4. HasWorkspace'
    BY <1>8, <1>i, <2>2, <2>3 DEF Advance, HasWorkspace
  <2>. QED  BY <1>8, <1>p, <1>w, <2>1, <2>3, <2>4
    DEF Advance, TableType, ManagerType, LockType, HistoryType, table, locks, history
<1>9. CASE AdvanceCancelled(r)
  BY <1>9, <1>p, <1>i, <1>w, <1>l, FinishType
     DEF AdvanceCancelled, HasWorkspace, TableType, ManagerType, LockType, HistoryType, table, manager, locks, history
<1>10. CASE NoReference(r)
  BY <1>10, <1>p, <1>i, <1>w, <1>l, FailType
     DEF NoReference, HasWorkspace, TableType, ManagerType, LockType, HistoryType, table, manager, locks, history
<1>11. CASE WorktreeCreated(r)
  BY <1>11, <1>p, <1>i, <1>w, <1>l, ReadyOrCleanUpType
     DEF WorktreeCreated, HasWorkspace, TableType, ManagerType, LockType, HistoryType, table, manager, locks, history
<1>12. CASE Throw(r)
  <2>1. TableType' /\ HistoryType' /\ context' = context /\ del' = del
    BY <1>12, <1>p, <1>w DEF Throw, TableType, HistoryType
  <2>2. CASE job[w].created
    <3>1. Goto(r, "undo") /\ UNCHANGED <<job, promise, resolved, cancelled, locks>>
      BY <1>12, <2>2 DEF Throw
    <3>. QED  BY <1>p, <1>i, <1>l, <2>1, <3>1, GotoType
              DEF HasWorkspace, ManagerType, LockType, locks
  <2>3. CASE ~job[w].created
    <3>1. Fail(r)
      BY <1>12, <2>3 DEF Throw
    <3>. QED  BY <1>p, <1>i, <2>1, <3>1, FailType DEF HasWorkspace
  <2>. QED  BY <2>2, <2>3
<1>13. CASE CleanupDone(r)
  BY <1>13, <1>p, <1>i, <1>w, <1>l, FinishType
     DEF CleanupDone, HasWorkspace, TableType, ManagerType, LockType, HistoryType, table, manager, locks, history
<1>14. CASE UndoDone(r)
  BY <1>14, <1>p, <1>i, <1>w, <1>l, FailType
     DEF UndoDone, HasWorkspace, TableType, ManagerType, LockType, HistoryType, table, manager, locks, history
<1>15. CASE RepoReady(r)
  BY <1>15, <1>p, <1>i, <1>w, <1>l, FinalizeType, GotoType, JobType
     DEF RepoReady, HasWorkspace, TableType, ManagerType, LockType, HistoryType, table, manager, locks, history, Step
<1>16. CASE RepoFails(r)
  <2>1. Marked(w, "failed") \in Job /\ Progress(w, "failed") \in Job
    BY <1>w, JobType DEF Step
  <2>2. job' \in [Workspace -> Job]
    BY <1>16, <1>p, <1>w, <2>1 DEF RepoFails, ManagerType
  <2>3. ManagerType'
    BY <1>16, <1>p, <1>w, <2>2, FinalizeType DEF RepoFails, ManagerType
  <2>4. TableType' /\ LockType' /\ HistoryType' /\ context' = context /\ del' = del
    BY <1>16, <1>p, <1>w DEF RepoFails, TableType, LockType, HistoryType, locks, history
  <2>5. Goto(r, "done")
    BY <1>16 DEF RepoFails
  <2>. QED  BY <1>p, <1>i, <1>l, <2>3, <2>4, <2>5, GotoType DEF HasWorkspace
<1>. QED  BY <1>1, <1>2, <1>3, <1>4, <1>5, <1>6, <1>7, <1>8, <1>9, <1>10, <1>11, <1>12, <1>13, <1>14, <1>15, <1>16, <1>17 DEF RunStep

LEMMA ToTeardownType ==
  ASSUME TypeOK, NEW d \in Deleter, NEW w \in Workspace, ToTeardown(d, w)
  PROVE  /\ del' \in [Deleter -> DelType]
         /\ \A e \in Deleter : e # d => del'[e] = del[e]
         /\ del'[d].ws = w /\ del'[d].pc \in {"teardown", "kill"}
BY DEF ToTeardown, TeardownPC, TypeOK, DelType, DelPC

LEMMA DelStepType ==
  ASSUME TypeOK, HasWorkspace, NEW d \in Deleter, DelStep(d)
  PROVE  TypeOK' /\ HasWorkspace'
<1>. DEFINE w == del[d].ws
<1>p. /\ TableType /\ ManagerType /\ LockType /\ HistoryType
      /\ context \subseteq Workspace
      /\ run \in [Runner -> RunType] /\ del \in [Deleter -> DelType]
  BY Parts
<1>. SUFFICES /\ TableType' /\ ManagerType' /\ LockType' /\ HistoryType'
              /\ context' \subseteq Workspace
              /\ run' \in [Runner -> RunType] /\ del' \in [Deleter -> DelType]
              /\ HasWorkspace'
  BY DEF TypeOK, TableType, ManagerType, LockType, HistoryType, RunType, DelType
<1>i. del[d].pc # "idle"
  BY DEF DelStep, WaitDone, WaitTimeout, TeardownFails, TeardownDone, DeleteLocked,
         RemoveDone, RemoveFails, DeleteDone, CloseDone, DeleteWorktreeLocked,
         DeleteWorktreeDone, DeleteWorktreeFails
<1>w. w \in Workspace /\ ProjectOf[w] \in Project
  BY <1>i, ProjectOfCall
<1>l. {"done", "lock", "branch", "remove", "wtRemove"} \subseteq DelPC
  BY DEF DelPC
<1>n. NoJob \in Job
  BY DEF Job
<1>1. CASE WaitDone(d)
  BY <1>1, <1>p, <1>i, <1>w, <1>l, ToTeardownType
     DEF WaitDone, HasWorkspace, TableType, ManagerType, LockType, HistoryType, table, manager, locks, history
<1>2. CASE WaitTimeout(d)
  BY <1>2, <1>p, <1>i, <1>w, <1>l, ToTeardownType
     DEF WaitTimeout, HasWorkspace, TableType, ManagerType, LockType, HistoryType, table, manager, locks, history
<1>3. CASE TeardownFails(d)
  BY <1>3, <1>p, <1>i, <1>w, <1>l, DelGotoType
     DEF TeardownFails, HasWorkspace, TableType, ManagerType, LockType, HistoryType, table, manager, locks, history, Unhide, HasRow
<1>4. CASE TeardownDone(d)
  BY <1>4, <1>p, <1>i, <1>w, <1>l, DelGotoType, AcquireType
     DEF TeardownDone, HasWorkspace, TableType, ManagerType, LockType, HistoryType, table, manager, locks, history
<1>5. CASE DeleteLocked(d)
  BY <1>5, <1>p, <1>i, <1>w, <1>l, DelGotoType
     DEF DeleteLocked, HasWorkspace, TableType, ManagerType, LockType, HistoryType, table, manager, locks, history
<1>6. CASE RemoveDone(d)
  BY <1>6, <1>p, <1>i, <1>w, <1>l, DelGotoType, ReleaseType
     DEF RemoveDone, HasWorkspace, TableType, ManagerType, LockType, HistoryType, table, manager, locks, history
<1>7. CASE RemoveFails(d)
  BY <1>7, <1>p, <1>i, <1>w, <1>l, DelGotoType, ReleaseType
     DEF RemoveFails, HasWorkspace, TableType, ManagerType, LockType, HistoryType, table, manager, locks, history, Unhide, HasRow
<1>8. CASE DeleteDone(d)
  BY <1>8, <1>p, <1>i, <1>w, <1>l, <1>n, DelGotoType
     DEF DeleteDone, HasWorkspace, TableType, ManagerType, LockType, HistoryType, table, manager, locks, history, ClearJob, HasRow
<1>9. CASE CloseDone(d)
  BY <1>9, <1>p, <1>i, <1>w, <1>l, DelGotoType
     DEF CloseDone, HasWorkspace, TableType, ManagerType, LockType, HistoryType, table, manager, locks, history, HasRow
<1>10. CASE DeleteWorktreeLocked(d)
  BY <1>10, <1>p, <1>i, <1>w, <1>l, DelGotoType
     DEF DeleteWorktreeLocked, HasWorkspace, TableType, ManagerType, LockType, HistoryType, table, manager, locks, history
<1>11. CASE DeleteWorktreeDone(d)
  BY <1>11, <1>p, <1>i, <1>w, <1>l, DelGotoType, ReleaseType
     DEF DeleteWorktreeDone, HasWorkspace, TableType, ManagerType, LockType, HistoryType, table, manager, locks, history
<1>12. CASE DeleteWorktreeFails(d)
  BY <1>12, <1>p, <1>i, <1>w, <1>l, DelGotoType, ReleaseType
     DEF DeleteWorktreeFails, HasWorkspace, TableType, ManagerType, LockType, HistoryType, table, manager, locks, history
<1>. QED  BY <1>1, <1>2, <1>3, <1>4, <1>5, <1>6, <1>7, <1>8, <1>9, <1>10, <1>11, <1>12 DEF DelStep

LEMMA UserStepType ==
  ASSUME TypeOK, HasWorkspace, NEW w \in Workspace, UserStep(w)
  PROVE  TypeOK' /\ HasWorkspace'
<1>p. /\ TableType /\ ManagerType /\ LockType /\ HistoryType
      /\ context \subseteq Workspace
      /\ run \in [Runner -> RunType] /\ del \in [Deleter -> DelType]
  BY Parts
<1>. SUFFICES /\ TableType' /\ ManagerType' /\ LockType' /\ HistoryType'
              /\ context' \subseteq Workspace
              /\ run' \in [Runner -> RunType] /\ del' \in [Deleter -> DelType]
              /\ HasWorkspace'
  BY DEF TypeOK, TableType, ManagerType, LockType, HistoryType, RunType, DelType
<1>w. ProjectOf[w] \in Project
  BY ConstantsAssumption
<1>f. FirstPath[w] \in Path /\ \A p \in Path : <<w, p>> \in Directory
  BY ConstantsAssumption DEF Directory
<1>1. ASSUME NEW r \in Runner, NEW mode \in Mode, CreateRow(r, w, mode)
      PROVE  /\ TableType' /\ ManagerType' /\ LockType' /\ HistoryType'
             /\ context' \subseteq Workspace
             /\ run' \in [Runner -> RunType] /\ del' \in [Deleter -> DelType]
             /\ HasWorkspace'
  BY <1>1, <1>p, <1>f DEF CreateRow, HasWorkspace, TableType, ManagerType, LockType, HistoryType, table, manager, locks, history, RunType, RunPC
<1>2. ASSUME NEW r \in Runner, RetryCheck(r, w)
      PROVE  /\ TableType' /\ ManagerType' /\ LockType' /\ HistoryType'
             /\ context' \subseteq Workspace
             /\ run' \in [Runner -> RunType] /\ del' \in [Deleter -> DelType]
             /\ HasWorkspace'
  BY <1>2, <1>p DEF RetryCheck, HasWorkspace, TableType, ManagerType, LockType, HistoryType, table, manager, locks, history, RunType, RunPC, Mode
<1>3. ASSUME NEW r \in Runner, RepoStart(r, w), path' \in [Workspace -> Path]
      PROVE  /\ ManagerType' /\ LockType' /\ HistoryType'
             /\ disk' \subseteq Directory /\ context' \subseteq Workspace
             /\ run' \in [Runner -> RunType] /\ del' \in [Deleter -> DelType]
             /\ HasWorkspace'
  BY <1>3, <1>p, <1>f, StartJobType DEF RepoStart, HasWorkspace, TableType, ManagerType, LockType, HistoryType, table, manager, locks, history, RunType, RunPC, Mode, Step
<1>4. ASSUME NEW r \in Runner, AgentCreate(r, w)
      PROVE  /\ TableType' /\ ManagerType' /\ LockType' /\ HistoryType'
             /\ context' \subseteq Workspace
             /\ run' \in [Runner -> RunType] /\ del' \in [Deleter -> DelType]
             /\ HasWorkspace'
  BY <1>3, <1>4, <1>p, <1>f DEF AgentCreate, TableType
<1>5. ASSUME NEW r \in Runner, AgentRetry(r, w)
      PROVE  /\ TableType' /\ ManagerType' /\ LockType' /\ HistoryType'
             /\ context' \subseteq Workspace
             /\ run' \in [Runner -> RunType] /\ del' \in [Deleter -> DelType]
             /\ HasWorkspace'
  BY <1>3, <1>5, <1>p DEF AgentRetry, TableType
<1>6. ASSUME NEW d \in Deleter, DeleteStart(d, w)
      PROVE  /\ TableType' /\ ManagerType' /\ LockType' /\ HistoryType'
             /\ context' \subseteq Workspace
             /\ run' \in [Runner -> RunType] /\ del' \in [Deleter -> DelType]
             /\ HasWorkspace'
  <2>1. /\ del' \in [Deleter -> DelType]
        /\ \A e \in Deleter : e # d => del'[e] = del[e]
        /\ del'[d].ws = w
    <3>1. CASE ToTeardown(d, w)
      BY <3>1, ToTeardownType
    <3>2. CASE /\ promise[w] # None
               /\ del' = [del EXCEPT ![d] = [ws |-> w, path |-> None, token |-> promise[w],
                                             rec |-> FALSE, pc |-> "wait"]]
      BY <3>2, <1>p DEF ManagerType, DelType, DelPC
    <3>. QED  BY <1>6, <3>1, <3>2 DEF DeleteStart, CancelAndWait
  <2>2. ManagerType' /\ HistoryType'
    BY <1>6, <1>p DEF DeleteStart, CancelAndWait, ManagerType, HistoryType, WorkingOn
  <2>. QED  BY <1>6, <1>p, <2>1, <2>2
            DEF DeleteStart, HasWorkspace, TableType, LockType, locks
<1>7. ASSUME NEW d \in Deleter, CloseStart(d, w)
      PROVE  /\ TableType' /\ ManagerType' /\ LockType' /\ HistoryType'
             /\ context' \subseteq Workspace
             /\ run' \in [Runner -> RunType] /\ del' \in [Deleter -> DelType]
             /\ HasWorkspace'
  BY <1>7, <1>p DEF CloseStart, HasWorkspace, TableType, ManagerType, LockType, HistoryType, table, manager, locks, history, DelType, DelPC
<1>8. ASSUME NEW d \in Deleter, DeleteWorktreeStart(d, w)
      PROVE  /\ TableType' /\ ManagerType' /\ LockType' /\ HistoryType'
             /\ context' \subseteq Workspace
             /\ run' \in [Runner -> RunType] /\ del' \in [Deleter -> DelType]
             /\ HasWorkspace'
  <2>1. /\ \A e \in Deleter \ {d} : del'[e] = del[e]
        /\ del'[d].ws = w
    BY <1>8, <1>p DEF DeleteWorktreeStart, DelType
  <2>2. del' \in [Deleter -> DelType]
    <3>1. path[w] \in Path
      BY <1>p DEF TableType
    <3>2. [del[d] EXCEPT !.ws = w, !.path = path[w], !.pc = "wtLock"] \in DelType
      BY <3>1, <1>p DEF DelType, DelPC
    <3>. QED  BY <1>8, <1>p, <3>2 DEF DeleteWorktreeStart
  <2>3. LockType'
    BY <1>8, <1>p, <1>w, AcquireType DEF DeleteWorktreeStart
  <2>4. HasWorkspace'
    BY <1>8, <2>1, <1>p DEF DeleteWorktreeStart, TableType, DelType, HasWorkspace
  <2>. QED  BY <1>8, <1>p, <2>2, <2>3, <2>4
            DEF DeleteWorktreeStart, TableType, ManagerType, HistoryType, table, manager, history
<1>. QED  BY <1>1, <1>2, <1>4, <1>5, <1>6, <1>7, <1>8 DEF UserStep

LEMMA ReadyTimerType ==
  ASSUME TypeOK, HasWorkspace, NEW w \in Workspace, ReadyTimer(w)
  PROVE  TypeOK' /\ HasWorkspace'
<1>1. NoJob \in Job
  BY DEF Job
<1>. QED  BY <1>1 DEF ReadyTimer, TypeOK, HasWorkspace, table, locks, history

LEMMA RestartType ==
  ASSUME TypeOK, HasWorkspace, Restart
  PROVE  TypeOK' /\ HasWorkspace'
<1>1. NoJob \in Job /\ "done" \in RunPC /\ "done" \in DelPC /\ <<>> \in Seq(Runner \cup Deleter)
  BY DEF Job, RunPC, DelPC
<1>2. disk' \subseteq Directory
  BY DEF Restart, TypeOK, HasWorkspace, JobDir, Directory
<1>3. run' \in [Runner -> RunType] /\ del' \in [Deleter -> DelType]
  BY <1>1 DEF Restart, TypeOK, RunType, DelType
<1>4. HasWorkspace'
  BY DEF Restart, TypeOK, HasWorkspace
<1>5. /\ row' = row /\ record' = record /\ path' = path /\ told' = told
      /\ raced' = raced /\ lost' = lost /\ maker' = maker /\ restarted' = TRUE
      /\ job' = [w \in Workspace |-> NoJob]
      /\ promise' = [w \in Workspace |-> None]
      /\ resolved' = {} /\ cancelled' = {} /\ context' = {}
      /\ lock' = [p \in Project |-> None] /\ queue' = [p \in Project |-> <<>>]
  BY DEF Restart
<1>. QED  BY <1>1, <1>2, <1>3, <1>4, <1>5 DEF TypeOK, RunType, DelType

LEMMA TypeInit == Init => TypeOK /\ HasWorkspace
<1>. SUFFICES ASSUME Init PROVE TypeOK /\ HasWorkspace
  OBVIOUS
<1>1. NoJob \in Job /\ <<>> \in Seq(Runner \cup Deleter)
  BY DEF Job
<1>. QED  BY <1>1, ConstantsAssumption DEF Init, TypeOK, HasWorkspace, Mode, RunPC, DelPC

LEMMA TypeNext == TypeOK /\ HasWorkspace /\ [Next]_vars => TypeOK' /\ HasWorkspace'
<1>. SUFFICES ASSUME TypeOK, HasWorkspace, [Next]_vars
              PROVE  TypeOK' /\ HasWorkspace'
  OBVIOUS
<1>1. CASE UNCHANGED vars
  BY <1>1 DEF vars, TypeOK, HasWorkspace
<1>. QED  BY <1>1, UserStepType, ReadyTimerType, RunStepType, DelStepType, RestartType DEF Next

\* Every reachable state has the types of the manager's maps, of the tables and
\* of the calls, and a call past its first segment knows its workspace.
THEOREM TypeCorrect == Spec => []TypeOK
<1>1. Spec => [](TypeOK /\ HasWorkspace)
  BY TypeInit, TypeNext, PTL DEF Spec
<1>. QED  BY <1>1, PTL

------------------------------------------------------------------------------
(* One git operation per project                                           *)
(*                                                                         *)
(* releaseProjectLock does not ask who holds the lock, and acquire awaits  *)
(* whatever promise the map holds.  Exclusion rests on a fact about the    *)
(* calls: whoever is inside a protected section is the holder, so that a   *)
(* release is always the holder's own.                                     *)

GitHoldsLock ==
  \A t \in Runner \cup Deleter : InGit(t) => lock[ProjectOfTask(t)] = t

GitInv == TypeOK /\ HasWorkspace /\ GitHoldsLock

RunGit == {"config", "sync", "verify", "fetch", "create", "cleanup", "undo"}
DelGit == {"remove", "wtRemove"}

\* The invariant, for the two kinds of calls.
LEMMA GitByKind ==
  GitHoldsLock <=>
    /\ \A r \in Runner : run[r].pc \in RunGit => lock[ProjectOf[run[r].ws]] = r
    /\ \A d \in Deleter : del[d].pc \in DelGit => lock[ProjectOf[del[d].ws]] = d
BY ConstantsAssumption DEF GitHoldsLock, InGit, ProjectOfTask, RunGit, DelGit

\* A step of r that takes no lock from anybody keeps the invariant if r does not
\* enter a protected section, or holds the lock.
LEMMA RunKeepsLock ==
  ASSUME GitInv, NEW r \in Runner, del' = del,
         \A q \in Runner \ {r} : run'[q] = run[q],
         \A p \in Project : lock[p] # None => lock'[p] = lock[p],
         run'[r].pc \in RunGit =>
           /\ run'[r].ws = run[r].ws /\ run[r].pc # "idle"
           /\ run[r].pc \in RunGit \/ lock[ProjectOf[run[r].ws]] = r
  PROVE  GitHoldsLock'
<1>1. /\ \A q \in Runner : q # None /\ run[q].pc \in RunGit => lock[ProjectOf[run[q].ws]] = q
      /\ \A d \in Deleter : d # None /\ del[d].pc \in DelGit => lock[ProjectOf[del[d].ws]] = d
  BY GitByKind DEF GitInv
<1>2. \A t \in Runner \cup Deleter : t # None
  BY ConstantsAssumption
<1>3. ASSUME NEW q \in Runner, run'[q].pc \in RunGit
      PROVE  lock'[ProjectOf[run'[q].ws]] = q
  <2>1. run'[q].ws = run[q].ws /\ run[q].pc # "idle" /\ lock[ProjectOf[run[q].ws]] = q
    BY <1>1, <1>2, <1>3 DEF RunGit
  <2>2. ProjectOf[run[q].ws] \in Project
    BY <2>1, ProjectOfCall DEF GitInv
  <2>. QED  BY <1>2, <2>1, <2>2
<1>4. ASSUME NEW d \in Deleter, del'[d].pc \in DelGit
      PROVE  lock'[ProjectOf[del'[d].ws]] = d
  <2>1. ProjectOf[del[d].ws] \in Project
    BY <1>4, ProjectOfCall DEF GitInv, DelGit
  <2>. QED  BY <1>1, <1>2, <1>4, <2>1
<1>. QED  BY <1>3, <1>4, ConstantsAssumption DEF GitHoldsLock, InGit, ProjectOfTask, RunGit, DelGit

\* The holder r releases its lock and leaves.
LEMMA RunReleases ==
  ASSUME GitInv, NEW r \in Runner, del' = del, run[r].pc # "idle",
         \A q \in Runner \ {r} : run'[q] = run[q],
         run'[r].pc \notin RunGit,
         lock[ProjectOf[run[r].ws]] = r, Release(ProjectOf[run[r].ws])
  PROVE  GitHoldsLock'
<1>1. /\ \A q \in Runner : run[q].pc \in RunGit => lock[ProjectOf[run[q].ws]] = q
      /\ \A d \in Deleter : del[d].pc \in DelGit => lock[ProjectOf[del[d].ws]] = d
  BY GitByKind DEF GitInv
<1>2. \A p \in Project : p # ProjectOf[run[r].ws] => lock'[p] = lock[p]
  BY DEF Release, GitInv, TypeOK
<1>3. \A q \in Runner : run'[q].pc \in RunGit => lock'[ProjectOf[run'[q].ws]] = q
  BY <1>1, <1>2, ProjectOfCall DEF GitInv, RunGit
<1>4. \A d \in Deleter : del'[d].pc \in DelGit => lock'[ProjectOf[del'[d].ws]] = d
  BY <1>1, <1>2, ProjectOfCall, ConstantsAssumption DEF GitInv, DelGit
<1>. QED  BY <1>3, <1>4, ConstantsAssumption DEF GitHoldsLock, InGit, ProjectOfTask, RunGit, DelGit

\* The same for the calls that remove.
LEMMA DelKeepsLock ==
  ASSUME GitInv, NEW d \in Deleter, run' = run,
         \A e \in Deleter \ {d} : del'[e] = del[e],
         \A p \in Project : lock[p] # None => lock'[p] = lock[p],
         del'[d].pc \in DelGit =>
           /\ del'[d].ws = del[d].ws /\ del[d].pc # "idle"
           /\ lock[ProjectOf[del[d].ws]] = d
  PROVE  GitHoldsLock'
<1>1. /\ \A q \in Runner : run[q].pc \in RunGit => lock[ProjectOf[run[q].ws]] = q
      /\ \A e \in Deleter : del[e].pc \in DelGit => lock[ProjectOf[del[e].ws]] = e
  BY GitByKind DEF GitInv
<1>2. \A t \in Runner \cup Deleter : t # None
  BY ConstantsAssumption
<1>3. ASSUME NEW q \in Runner, run'[q].pc \in RunGit
      PROVE  lock'[ProjectOf[run'[q].ws]] = q
  <2>1. ProjectOf[run[q].ws] \in Project
    BY <1>3, ProjectOfCall DEF GitInv, RunGit
  <2>. QED  BY <1>1, <1>2, <1>3, <2>1
<1>4. ASSUME NEW e \in Deleter, del'[e].pc \in DelGit
      PROVE  lock'[ProjectOf[del'[e].ws]] = e
  <2>1. del'[e].ws = del[e].ws /\ del[e].pc # "idle" /\ lock[ProjectOf[del[e].ws]] = e
    BY <1>1, <1>4 DEF DelGit
  <2>2. ProjectOf[del[e].ws] \in Project
    BY <2>1, ProjectOfCall DEF GitInv
  <2>. QED  BY <1>2, <2>1, <2>2
<1>. QED  BY <1>3, <1>4, ConstantsAssumption DEF GitHoldsLock, InGit, ProjectOfTask, RunGit, DelGit

LEMMA DelReleases ==
  ASSUME GitInv, NEW d \in Deleter, run' = run, del[d].pc \in DelGit,
         \A e \in Deleter \ {d} : del'[e] = del[e],
         del'[d].pc \notin DelGit, Release(ProjectOf[del[d].ws])
  PROVE  GitHoldsLock'
<1>1. /\ \A q \in Runner : run[q].pc \in RunGit => lock[ProjectOf[run[q].ws]] = q
      /\ \A e \in Deleter : del[e].pc \in DelGit => lock[ProjectOf[del[e].ws]] = e
  BY GitByKind DEF GitInv
<1>2. \A p \in Project : p # ProjectOf[del[d].ws] => lock'[p] = lock[p]
  BY DEF Release, GitInv, TypeOK
<1>3. \A q \in Runner : run'[q].pc \in RunGit => lock'[ProjectOf[run'[q].ws]] = q
  BY <1>1, <1>2, ProjectOfCall, ConstantsAssumption DEF GitInv, RunGit
<1>4. \A e \in Deleter : del'[e].pc \in DelGit => lock'[ProjectOf[del'[e].ws]] = e
  BY <1>1, <1>2, ProjectOfCall DEF GitInv, DelGit
<1>. QED  BY <1>3, <1>4, ConstantsAssumption DEF GitHoldsLock, InGit, ProjectOfTask, RunGit, DelGit

\* Taking a place at the lock takes it from nobody.
LEMMA AcquireKeeps ==
  ASSUME GitInv, NEW p \in Project, NEW t \in Runner \cup Deleter, Acquire(p, t)
  PROVE  \A q \in Project : lock[q] # None => lock'[q] = lock[q]
BY DEF Acquire, GitInv, TypeOK

LEMMA RunStepGit ==
  ASSUME GitInv, NEW r \in Runner, RunStep(r)
  PROVE  GitHoldsLock'
<1>. DEFINE w == run[r].ws
<1>t. TypeOK /\ HasWorkspace
  BY DEF GitInv
<1>i. run[r].pc # "idle"
  BY DEF RunStep, NextOf, CreateStart, CreateThrows, RetryStart, RetryThrows, InitLocked,
         InitCancelledAtLock, ConfigDone, ConfigDoneAdopt, Advance, AdvanceCancelled,
         NoReference, WorktreeCreated, Throw, CleanupDone, UndoDone, RepoReady, RepoFails
<1>w. w \in Workspace /\ ProjectOf[w] \in Project
  BY <1>i, <1>t, ProjectOfCall
<1>h. run[r].pc \in RunGit => lock[ProjectOf[w]] = r
  BY GitByKind DEF GitInv
<1>g. ASSUME NEW loc, Goto(r, loc)
      PROVE  /\ \A q \in Runner \ {r} : run'[q] = run[q]
             /\ run'[r].ws = w /\ run'[r].pc = loc
  BY <1>g, <1>t DEF Goto, TypeOK
<1>f. ASSUME Finish(r), del' = del, lock[ProjectOf[w]] = r
      PROVE  GitHoldsLock'
  BY <1>f, <1>g, <1>i, RunReleases DEF Finish, RunGit
<1>1. CASE CreateStart(r)
  BY <1>1, <1>w, <1>g, AcquireKeeps, RunKeepsLock
     DEF CreateStart, RunGit
<1>2. CASE CreateThrows(r)
  BY <1>2, <1>g, RunKeepsLock
     DEF CreateThrows, RunGit, locks
<1>3. ASSUME NEW p \in Path, RetryStart(r, p)
      PROVE  GitHoldsLock'
  <2>1. /\ \A q \in Runner \ {r} : run'[q] = run[q]
        /\ run'[r].ws = w /\ run'[r].pc = "lock"
    BY <1>3, <1>t DEF RetryStart, TypeOK
  <2>. QED  BY <1>3, <1>w, <2>1, AcquireKeeps, RunKeepsLock
            DEF RetryStart, RunGit
<1>17. CASE RetryThrows(r)
  BY <1>17, <1>g, RunKeepsLock
     DEF RetryThrows, RunGit, locks
<1>4. CASE InitLocked(r)
  BY <1>4, <1>i, <1>g, RunKeepsLock
     DEF InitLocked, RunGit, locks
<1>5. CASE InitCancelledAtLock(r)
  BY <1>5, <1>f
     DEF InitCancelledAtLock
<1>6. CASE ConfigDone(r)
  BY <1>6, <1>g, RunKeepsLock
     DEF ConfigDone, RunGit, locks
<1>7. CASE ConfigDoneAdopt(r)
  BY <1>7, <1>h, <1>f, <1>g, RunKeepsLock
     DEF ConfigDoneAdopt, Ready, StatusThrows, Fail, CleanUp, RunGit, locks
<1>8. CASE Advance(r)
  BY <1>8, <1>g, RunKeepsLock
     DEF Advance, RunGit, NextOf, locks
<1>9. CASE AdvanceCancelled(r)
  BY <1>9, <1>h, <1>f
     DEF AdvanceCancelled, RunGit, NextOf
<1>10. CASE NoReference(r)
  BY <1>10, <1>h, <1>f
     DEF NoReference, Fail, RunGit
<1>11. CASE WorktreeCreated(r)
  BY <1>11, <1>h, <1>f, <1>g, RunKeepsLock
     DEF WorktreeCreated, Ready, StatusThrows, Fail, CleanUp, RunGit, locks
<1>12. CASE Throw(r)
  BY <1>12, <1>h, <1>f, <1>g, RunKeepsLock
     DEF Throw, Fail, RunGit, locks
<1>13. CASE CleanupDone(r)
  BY <1>13, <1>h, <1>f
     DEF CleanupDone, RunGit
<1>14. CASE UndoDone(r)
  BY <1>14, <1>h, <1>f
     DEF UndoDone, Fail, RunGit
<1>15. CASE RepoReady(r)
  BY <1>15, <1>g, RunKeepsLock
     DEF RepoReady, RunGit, locks
<1>16. CASE RepoFails(r)
  BY <1>16, <1>g, RunKeepsLock
     DEF RepoFails, RunGit, locks
<1>. QED  BY <1>1, <1>2, <1>3, <1>4, <1>5, <1>6, <1>7, <1>8, <1>9, <1>10, <1>11, <1>12, <1>13, <1>14, <1>15, <1>16, <1>17 DEF RunStep

LEMMA DelStepGit ==
  ASSUME GitInv, NEW d \in Deleter, DelStep(d)
  PROVE  GitHoldsLock'
<1>. DEFINE w == del[d].ws
<1>t. TypeOK /\ HasWorkspace
  BY DEF GitInv
<1>i. del[d].pc # "idle"
  BY DEF DelStep, WaitDone, WaitTimeout, TeardownFails, TeardownDone, DeleteLocked,
         RemoveDone, RemoveFails, DeleteDone, CloseDone, DeleteWorktreeLocked,
         DeleteWorktreeDone, DeleteWorktreeFails
<1>w. w \in Workspace /\ ProjectOf[w] \in Project
  BY <1>i, <1>t, ProjectOfCall
<1>g. ASSUME NEW loc, DelGoto(d, loc)
      PROVE  /\ \A e \in Deleter \ {d} : del'[e] = del[e]
             /\ del'[d].ws = w /\ del'[d].pc = loc
  BY <1>g, <1>t DEF DelGoto, TypeOK
<1>k. ASSUME ToTeardown(d, w)
      PROVE  /\ \A e \in Deleter \ {d} : del'[e] = del[e]
             /\ del'[d].pc \notin DelGit
  BY <1>k, <1>t, <1>w, ToTeardownType DEF DelGit
<1>1. CASE WaitDone(d)
  BY <1>1, <1>k, DelKeepsLock
     DEF WaitDone, locks
<1>2. CASE WaitTimeout(d)
  BY <1>2, <1>k, DelKeepsLock
     DEF WaitTimeout, locks
<1>3. CASE TeardownFails(d)
  BY <1>3, <1>g, DelKeepsLock
     DEF TeardownFails, DelGit, locks
<1>4. CASE TeardownDone(d)
  BY <1>4, <1>g, <1>w, AcquireKeeps, DelKeepsLock
     DEF TeardownDone, DelGit, locks
<1>5. CASE DeleteLocked(d)
  BY <1>5, <1>i, <1>g, DelKeepsLock
     DEF DeleteLocked, DelGit, locks
<1>6. CASE RemoveDone(d)
  BY <1>6, <1>g, DelReleases
     DEF RemoveDone, DelGit
<1>7. CASE RemoveFails(d)
  BY <1>7, <1>g, DelReleases
     DEF RemoveFails, DelGit
<1>8. CASE DeleteDone(d)
  BY <1>8, <1>g, DelKeepsLock
     DEF DeleteDone, DelGit, locks
<1>9. CASE CloseDone(d)
  BY <1>9, <1>g, DelKeepsLock
     DEF CloseDone, DelGit, locks
<1>10. CASE DeleteWorktreeLocked(d)
  BY <1>10, <1>i, <1>g, DelKeepsLock
     DEF DeleteWorktreeLocked, DelGit, locks
<1>11. CASE DeleteWorktreeDone(d)
  BY <1>11, <1>g, DelReleases
     DEF DeleteWorktreeDone, DelGit
<1>12. CASE DeleteWorktreeFails(d)
  BY <1>12, <1>g, DelReleases
     DEF DeleteWorktreeFails, DelGit
<1>. QED  BY <1>1, <1>2, <1>3, <1>4, <1>5, <1>6, <1>7, <1>8, <1>9, <1>10, <1>11, <1>12 DEF DelStep

LEMMA UserStepGit ==
  ASSUME GitInv, NEW w \in Workspace, UserStep(w)
  PROVE  GitHoldsLock'
<1>t. TypeOK /\ HasWorkspace /\ ProjectOf[w] \in Project
  BY ConstantsAssumption DEF GitInv
<1>1. ASSUME NEW r \in Runner, NEW mode \in Mode, CreateRow(r, w, mode)
      PROVE  GitHoldsLock'
  BY <1>1, <1>t, RunKeepsLock DEF CreateRow, TypeOK, RunGit, locks
<1>2. ASSUME NEW r \in Runner, RetryCheck(r, w)
      PROVE  GitHoldsLock'
  BY <1>2, <1>t, RunKeepsLock DEF RetryCheck, TypeOK, RunGit, locks
<1>3. ASSUME NEW r \in Runner, RepoStart(r, w)
      PROVE  GitHoldsLock'
  BY <1>3, <1>t, RunKeepsLock DEF RepoStart, TypeOK, RunGit, locks
<1>4. ASSUME NEW d \in Deleter, DeleteStart(d, w)
      PROVE  GitHoldsLock'
  <2>1. /\ \A e \in Deleter \ {d} : del'[e] = del[e]
        /\ del'[d].pc \notin DelGit
    <3>1. CASE ToTeardown(d, w)
      BY <3>1, <1>t, ToTeardownType DEF DelGit
    <3>2. CASE del' = [del EXCEPT ![d] = [ws |-> w, path |-> None, token |-> promise[w],
                                          rec |-> FALSE, pc |-> "wait"]]
      BY <3>2, <1>t DEF TypeOK, DelGit
    <3>. QED  BY <1>4, <3>1, <3>2 DEF DeleteStart, CancelAndWait
  <2>. QED  BY <1>4, <2>1, DelKeepsLock DEF DeleteStart, locks
<1>5. ASSUME NEW d \in Deleter, CloseStart(d, w)
      PROVE  GitHoldsLock'
  BY <1>5, <1>t, DelKeepsLock DEF CloseStart, TypeOK, DelGit, locks
<1>6. ASSUME NEW d \in Deleter, DeleteWorktreeStart(d, w)
      PROVE  GitHoldsLock'
  <2>1. /\ \A e \in Deleter \ {d} : del'[e] = del[e]
        /\ del'[d].pc = "wtLock"
    BY <1>6, <1>t DEF DeleteWorktreeStart, TypeOK
  <2>. QED  BY <1>6, <1>t, <2>1, AcquireKeeps, DelKeepsLock DEF DeleteWorktreeStart, DelGit
<1>. QED  BY <1>1, <1>2, <1>3, <1>4, <1>5, <1>6 DEF UserStep, AgentCreate, AgentRetry

LEMMA RestartGit ==
  ASSUME GitInv, Restart
  PROVE  GitHoldsLock'
BY DEF Restart, GitInv, TypeOK, GitHoldsLock, InGit

LEMMA GitNext == GitInv /\ [Next]_vars => GitInv'
<1>. SUFFICES ASSUME GitInv, [Next]_vars PROVE GitInv'
  OBVIOUS
<1>1. TypeOK' /\ HasWorkspace'
  BY TypeNext DEF GitInv
<1>2. GitHoldsLock'
  <2>1. CASE UNCHANGED vars
    BY <2>1 DEF vars, GitInv, GitHoldsLock, InGit, ProjectOfTask
  <2>2. ASSUME NEW w \in Workspace, ReadyTimer(w) PROVE GitHoldsLock'
    BY <2>2 DEF ReadyTimer, locks, GitInv, GitHoldsLock, InGit, ProjectOfTask
  <2>. QED  BY <2>1, <2>2, UserStepGit, RunStepGit, DelStepGit, RestartGit DEF Next
<1>. QED  BY <1>1, <1>2 DEF GitInv

LEMMA GitInit == Init => GitInv
<1>. SUFFICES ASSUME Init PROVE GitInv
  OBVIOUS
<1>1. GitHoldsLock
  BY DEF Init, GitHoldsLock, InGit
<1>. QED  BY <1>1, TypeInit DEF GitInv

\* Two calls never work on the repository of one project at the same time, for
\* any number of calls and whatever fails, is cancelled or times out.
THEOREM Exclusion == Spec => []OneGitOperation
<1>1. GitInv => OneGitOperation
  BY DEF GitInv, GitHoldsLock, OneGitOperation
<1>. QED  BY <1>1, GitInit, GitNext, PTL DEF Spec

------------------------------------------------------------------------------
(***************************************************************************)
(* What the tables and the jobs of a workspace tell the user: a hidden     *)
(* workspace is being deleted, and one that is shown as initializing has a *)
(* job at work.                                                            *)
(***************************************************************************)

------------------------------------------------------------------------------
(* Hidden workspaces                                                       *)

HiddenInv == TypeOK /\ HasWorkspace /\ HiddenOnlyWhileDeleting

\* A step that hides no workspace and ends no deletion.
LEMMA KeepsHidden ==
  ASSUME HiddenInv, restarted' = restarted,
         \A w \in Workspace : row'[w] = "deleting" => row[w] = "deleting",
         \A d \in Deleter : Deleting(d) => Deleting(d)' /\ del'[d].ws = del[d].ws
  PROVE  HiddenOnlyWhileDeleting'
BY DEF HiddenInv, HiddenOnlyWhileDeleting, DeletingOf

\* The steps of the calls that initialise touch neither the deletions nor row,
\* except for the new row of a workspace.
LEMMA RunStepHidden ==
  ASSUME HiddenInv, NEW r \in Runner, RunStep(r)
  PROVE  HiddenOnlyWhileDeleting'
<1>1. row' = row /\ del' = del /\ restarted' = restarted
  BY DEF RunStep, CreateStart, CreateThrows, RetryStart, RetryThrows, StartJob, InitLocked,
         InitCancelledAtLock, ConfigDone, ConfigDoneAdopt, Advance, AdvanceCancelled,
         NoReference, WorktreeCreated, Throw, CleanupDone, UndoDone, RepoReady,
         RepoFails, table, history
<1>. QED  BY <1>1 DEF HiddenInv, HiddenOnlyWhileDeleting, DeletingOf, Deleting

\* A deletion ends by making its workspace visible, or by removing its row.
LEMMA DelStepHidden ==
  ASSUME HiddenInv, NEW d \in Deleter, DelStep(d)
  PROVE  HiddenOnlyWhileDeleting'
<1>t. TypeOK /\ HasWorkspace
  BY DEF HiddenInv
<1>w. del[d].pc # "idle" => del[d].ws \in Workspace
  BY <1>t, ProjectOfCall
<1>r. restarted' = restarted
  BY DEF DelStep, WaitDone, WaitTimeout, TeardownFails, TeardownDone, DeleteLocked,
         RemoveDone, RemoveFails, DeleteDone, CloseDone, DeleteWorktreeLocked,
         DeleteWorktreeDone, DeleteWorktreeFails, history
<1>g. ASSUME NEW loc, DelGoto(d, loc)
      PROVE  /\ \A e \in Deleter \ {d} : del'[e] = del[e]
             /\ del'[d].ws = del[d].ws /\ del'[d].pc = loc
  BY <1>g, <1>t DEF DelGoto, TypeOK
<1>k. ASSUME ToTeardown(d, del[d].ws), del[d].ws \in Workspace
      PROVE  /\ \A e \in Deleter \ {d} : del'[e] = del[e]
             /\ del'[d].ws = del[d].ws /\ del'[d].pc \in {"teardown", "kill"}
  BY <1>k, <1>t, ToTeardownType
\* The ways in which a call of delete ends.
<1>e. ASSUME \A e \in Deleter \ {d} : del'[e] = del[e], del[d].ws \in Workspace,
             \A w \in Workspace : w # del[d].ws => row'[w] = row[w],
             row'[del[d].ws] # "deleting"
      PROVE  HiddenOnlyWhileDeleting'
  BY <1>e, <1>r DEF HiddenInv, HiddenOnlyWhileDeleting, DeletingOf, Deleting
<1>1. CASE WaitDone(d)
  BY <1>1, <1>t, <1>w, <1>r, <1>k, KeepsHidden
     DEF WaitDone, Deleting, table
<1>2. CASE WaitTimeout(d)
  BY <1>2, <1>t, <1>w, <1>r, <1>k, KeepsHidden
     DEF WaitTimeout, Deleting, table
<1>3. CASE TeardownFails(d)
  BY <1>3, <1>t, <1>w, <1>r, <1>g, <1>e
     DEF TeardownFails, Unhide, HasRow, TypeOK
<1>4. CASE TeardownDone(d)
  BY <1>4, <1>t, <1>w, <1>r, <1>g, KeepsHidden
     DEF TeardownDone, Deleting, table
<1>5. CASE DeleteLocked(d)
  BY <1>5, <1>t, <1>w, <1>r, <1>g, KeepsHidden
     DEF DeleteLocked, Deleting, table
<1>6. CASE RemoveDone(d)
  BY <1>6, <1>t, <1>w, <1>r, <1>g, KeepsHidden
     DEF RemoveDone, Deleting, table
<1>7. CASE RemoveFails(d)
  BY <1>7, <1>t, <1>w, <1>r, <1>g, <1>e
     DEF RemoveFails, Unhide, HasRow, TypeOK
<1>8. CASE DeleteDone(d)
  BY <1>8, <1>t, <1>w, <1>r, <1>g, <1>e
     DEF DeleteDone, HasRow, TypeOK
<1>9. CASE CloseDone(d)
  BY <1>9, <1>t, <1>w, <1>r, <1>g, <1>e
     DEF CloseDone, HasRow, TypeOK
<1>10. CASE DeleteWorktreeLocked(d)
  BY <1>10, <1>t, <1>w, <1>r, <1>g, KeepsHidden
     DEF DeleteWorktreeLocked, Deleting, table
<1>11. CASE DeleteWorktreeDone(d)
  BY <1>11, <1>t, <1>w, <1>r, <1>g, KeepsHidden
     DEF DeleteWorktreeDone, Deleting, table
<1>12. CASE DeleteWorktreeFails(d)
  BY <1>12, <1>t, <1>w, <1>r, <1>g, KeepsHidden
     DEF DeleteWorktreeFails, Deleting, table
<1>. QED  BY <1>1, <1>2, <1>3, <1>4, <1>5, <1>6, <1>7, <1>8, <1>9, <1>10, <1>11, <1>12 DEF DelStep

LEMMA UserStepHidden ==
  ASSUME HiddenInv, NEW w \in Workspace, UserStep(w)
  PROVE  HiddenOnlyWhileDeleting'
<1>t. TypeOK /\ HasWorkspace
  BY DEF HiddenInv
<1>1. ASSUME NEW r \in Runner, NEW mode \in Mode, CreateRow(r, w, mode)
      PROVE  HiddenOnlyWhileDeleting'
  BY <1>1, <1>t, KeepsHidden DEF CreateRow, Deleting, TypeOK, history
<1>2. ASSUME NEW r \in Runner, RetryCheck(r, w)
      PROVE  HiddenOnlyWhileDeleting'
  BY <1>2, KeepsHidden DEF RetryCheck, Deleting, table, history
<1>3. ASSUME NEW r \in Runner, AgentCreate(r, w)
      PROVE  HiddenOnlyWhileDeleting'
  BY <1>3, <1>t, KeepsHidden DEF AgentCreate, RepoStart, StartJob, Deleting, TypeOK
<1>4. ASSUME NEW r \in Runner, AgentRetry(r, w)
      PROVE  HiddenOnlyWhileDeleting'
  BY <1>4, KeepsHidden DEF AgentRetry, RepoStart, StartJob, Deleting
<1>5. ASSUME NEW d \in Deleter, DeleteStart(d, w)
      PROVE  HiddenOnlyWhileDeleting'
  <2>1. /\ \A e \in Deleter \ {d} : del'[e] = del[e]
        /\ del'[d].ws = w /\ del'[d].pc \in {"wait", "teardown", "kill"}
    <3>1. CASE ToTeardown(d, w)
      BY <3>1, <1>t, ToTeardownType
    <3>2. CASE del' = [del EXCEPT ![d] = [ws |-> w, path |-> None, token |-> promise[w],
                                          rec |-> FALSE, pc |-> "wait"]]
      BY <3>2, <1>t DEF TypeOK
    <3>. QED  BY <1>5, <3>1, <3>2 DEF DeleteStart, CancelAndWait
  <2>2. Deleting(d)' /\ ~Deleting(d)
    BY <1>5, <2>1 DEF DeleteStart, Deleting
  <2>3. \A v \in Workspace : v # w => row'[v] = row[v]
    BY <1>5, <1>t DEF DeleteStart, TypeOK
  <2>4. restarted' = restarted
    BY <1>5 DEF DeleteStart
  <2>5. \A e \in Deleter : Deleting(e) => Deleting(e)' /\ del'[e] = del[e]
    BY <2>1, <2>2 DEF Deleting
  <2>. QED  BY <2>1, <2>2, <2>3, <2>4, <2>5 DEF HiddenInv, HiddenOnlyWhileDeleting, DeletingOf
<1>6. ASSUME NEW d \in Deleter, CloseStart(d, w)
      PROVE  HiddenOnlyWhileDeleting'
  BY <1>6, <1>t, KeepsHidden DEF CloseStart, Deleting, TypeOK, table, history
<1>7. ASSUME NEW d \in Deleter, DeleteWorktreeStart(d, w)
      PROVE  HiddenOnlyWhileDeleting'
  BY <1>7, <1>t, KeepsHidden DEF DeleteWorktreeStart, Deleting, TypeOK, table, history
<1>. QED  BY <1>1, <1>2, <1>3, <1>4, <1>5, <1>6, <1>7 DEF UserStep

LEMMA HiddenNext == HiddenInv /\ [Next]_vars => HiddenInv'
<1>. SUFFICES ASSUME HiddenInv, [Next]_vars PROVE HiddenInv'
  OBVIOUS
<1>1. TypeOK' /\ HasWorkspace'
  BY TypeNext DEF HiddenInv
<1>2. HiddenOnlyWhileDeleting'
  <2>1. CASE UNCHANGED vars
    BY <2>1, KeepsHidden DEF vars, Deleting
  <2>2. ASSUME NEW w \in Workspace, ReadyTimer(w) PROVE HiddenOnlyWhileDeleting'
    BY <2>2, KeepsHidden DEF ReadyTimer, Deleting, table, history
  <2>3. CASE Restart
    BY <2>3 DEF Restart, HiddenOnlyWhileDeleting
  <2>. QED  BY <2>1, <2>2, <2>3, UserStepHidden, RunStepHidden, DelStepHidden DEF Next
<1>. QED  BY <1>1, <1>2 DEF HiddenInv

\* A workspace is hidden only while a call of delete is at work on it, however
\* its teardown, its wait or its removal ends, until the app is killed.
THEOREM HiddenMeansDeleting == Spec => []HiddenOnlyWhileDeleting
<1>1. Init => HiddenInv
  <2>. SUFFICES ASSUME Init PROVE HiddenInv
    OBVIOUS
  <2>1. HiddenOnlyWhileDeleting
    BY DEF Init, HiddenOnlyWhileDeleting
  <2>. QED  BY <2>1, TypeInit DEF HiddenInv
<1>2. HiddenInv => HiddenOnlyWhileDeleting
  BY DEF HiddenInv
<1>. QED  BY <1>1, <1>2, HiddenNext, PTL DEF Spec

------------------------------------------------------------------------------
(* Initializing workspaces                                                 *)
(*                                                                         *)
(* The property as it stands is not inductive: a job that only removes its *)
(* worktree will not report another step.  It is in that state because it  *)
(* was cancelled, so a workspace that is not cancelled has another job.    *)

JobAtWork ==
  \A w \in Workspace :
    IsInitializing(w) /\ w \notin cancelled =>
      \E r \in Runner : Working(r) /\ run[r].ws = w /\ run[r].pc # "cleanup"

WorkInv == TypeOK /\ HasWorkspace /\ JobAtWork

\* What r reports about its own workspace is backed by r itself while it is at
\* work, and the other workspaces are as before.
LEMMA ReportsOwn ==
  ASSUME WorkInv, NEW r \in Runner, NEW u \in Workspace,
         \A q \in Runner \ {r} : run'[q] = run[q],
         \/ run[r].ws = u /\ run'[r].ws = u
         \/ ~Working(r) /\ run'[r].ws = u
         \/ ~Working(r) /\ ~Working(r)',
         \A v \in Workspace \ {u} : job'[v] = job[v] /\ (v \in cancelled => v \in cancelled'),
         \/ Working(r)' /\ run'[r].pc # "cleanup" /\ run'[r].ws = u
         \/ ~IsInitializing(u)'
         \/ u \in cancelled'
         \/ /\ ~Working(r) /\ job'[u] = job[u] /\ (u \in cancelled => u \in cancelled')
  PROVE  JobAtWork'
<1>. SUFFICES ASSUME NEW v \in Workspace, IsInitializing(v)', v \notin cancelled'
              PROVE  \E q \in Runner : Working(q)' /\ run'[q].ws = v /\ run'[q].pc # "cleanup"
  BY DEF JobAtWork, IsInitializing, Working
<1>1. CASE v # u
  <2>1. IsInitializing(v) /\ v \notin cancelled
    BY <1>1 DEF IsInitializing
  <2>2. PICK q \in Runner : Working(q) /\ run[q].ws = v /\ run[q].pc # "cleanup"
    BY <2>1 DEF WorkInv, JobAtWork
  <2>3. q # r
    BY <1>1, <2>2
  <2>. QED  BY <2>2, <2>3 DEF Working
<1>2. CASE v = u
  <2>1. CASE Working(r)' /\ run'[r].pc # "cleanup" /\ run'[r].ws = u
    BY <1>2, <2>1
  <2>2. CASE /\ ~Working(r) /\ job'[u] = job[u] /\ (u \in cancelled => u \in cancelled')
    <3>1. IsInitializing(v) /\ v \notin cancelled
      BY <1>2, <2>2 DEF IsInitializing
    <3>2. PICK q \in Runner : Working(q) /\ run[q].ws = v /\ run[q].pc # "cleanup"
      BY <3>1 DEF WorkInv, JobAtWork
    <3>. QED  BY <2>2, <3>2 DEF Working
  <2>. QED  BY <1>2, <2>1, <2>2 DEF IsInitializing
<1>. QED  BY <1>1, <1>2

LEMMA RunStepWork ==
  ASSUME WorkInv, NEW r \in Runner, RunStep(r)
  PROVE  JobAtWork'
<1>. DEFINE w == run[r].ws
<1>t. TypeOK /\ HasWorkspace
  BY DEF WorkInv
<1>i. run[r].pc # "idle"
  BY DEF RunStep, NextOf, CreateStart, CreateThrows, RetryStart, RetryThrows, InitLocked,
         InitCancelledAtLock, ConfigDone, ConfigDoneAdopt, Advance, AdvanceCancelled,
         NoReference, WorktreeCreated, Throw, CleanupDone, UndoDone, RepoReady, RepoFails
<1>w. w \in Workspace
  BY <1>i, <1>t, ProjectOfCall
<1>g. ASSUME NEW loc, Goto(r, loc)
      PROVE  /\ \A q \in Runner \ {r} : run'[q] = run[q]
             /\ run'[r].ws = w /\ run'[r].pc = loc
  BY <1>g, <1>t DEF Goto, TypeOK
<1>s. ASSUME NEW p, NEW step \in Step, StartJob(r, w, p, step),
             \A q \in Runner \ {r} : run'[q] = run[q],
             run'[r].ws = w, run'[r].pc = "lock"
      PROVE  JobAtWork'
  BY <1>s, <1>w, <1>t, ReportsOwn DEF StartJob, TypeOK, Working
\* A job that is cancelled may leave the progress as it is.
<1>c. ASSUME Finish(r), UNCHANGED <<job, cancelled>>, w \in cancelled
      PROVE  JobAtWork'
  BY <1>c, <1>w, <1>g, ReportsOwn DEF Finish
\* A job that is not has set a final step.
<1>f. ASSUME NEW step \in {"ready", "failed"}, Goto(r, "done"), cancelled' = cancelled,
             \/ job' = [job EXCEPT ![w] = Marked(w, step)]
             \/ job' = [job EXCEPT ![w] = Progress(w, step)]
      PROVE  JobAtWork'
  <2>1. job'[w].step \notin {"pending", "working"}
    BY <1>f, <1>w, <1>t DEF Marked, Progress, NoJob, TypeOK, Job
  <2>2. \A v \in Workspace \ {w} : job'[v] = job[v]
    BY <1>f, <1>t DEF TypeOK
  <2>. QED  BY <1>f, <1>w, <1>g, <2>1, <2>2, ReportsOwn DEF IsInitializing
\* While it goes on, it backs whatever it reports.
<1>o. ASSUME NEW loc, Goto(r, loc), cancelled' = cancelled,
             loc \in {"config", "sync", "verify", "fetch", "create", "undo"},
             \A v \in Workspace \ {w} : job'[v] = job[v]
      PROVE  JobAtWork'
  BY <1>o, <1>w, <1>g, ReportsOwn DEF Working
<1>d. Fail(r) => JobAtWork'
  BY <1>f DEF Fail, Finish
<1>u. ASSUME Ready(r) \/ StatusThrows(r) \/ CleanUp(r)
      PROVE  JobAtWork'
  <2>1. CASE Ready(r)
    BY <2>1, <1>f DEF Ready, Finish
  <2>2. CASE CleanUp(r)
    <3>1. \A v \in Workspace \ {w} : job'[v] = job[v]
      BY <2>2, <1>t DEF CleanUp, TypeOK
    <3>. QED  BY <2>2, <3>1, <1>w, <1>g, ReportsOwn DEF CleanUp
  <2>3. CASE StatusThrows(r)
    <3>1. CASE Fail(r)
      BY <3>1, <1>d
    <3>2. CASE ~Fail(r)
      <4>1. \A v \in Workspace \ {w} : job'[v] = job[v]
        BY <2>3, <3>2, <1>t DEF StatusThrows, TypeOK
      <4>. QED  BY <2>3, <3>2, <4>1, <1>o DEF StatusThrows
    <3>. QED  BY <3>1, <3>2
  <2>. QED  BY <1>u, <2>1, <2>2, <2>3
<1>1. CASE CreateStart(r)
  BY <1>1, <1>s, <1>g
     DEF CreateStart, Step
<1>2. CASE CreateThrows(r)
  BY <1>2, <1>g, <1>w, ReportsOwn
     DEF CreateThrows, manager, Working
<1>3. ASSUME NEW p \in Path, RetryStart(r, p)
      PROVE  JobAtWork'
  <2>1. /\ \A q \in Runner \ {r} : run'[q] = run[q]
        /\ run'[r].ws = w /\ run'[r].pc = "lock"
    BY <1>3, <1>t DEF RetryStart, TypeOK
  <2>. QED  BY <1>3, <2>1, <1>s
            DEF RetryStart, Step
<1>17. CASE RetryThrows(r)
  BY <1>17, <1>g, <1>w, ReportsOwn
     DEF RetryThrows, manager, Working
<1>4. CASE InitLocked(r)
  BY <1>4, <1>o
     DEF InitLocked, manager
<1>5. CASE InitCancelledAtLock(r)
  BY <1>5, <1>c
     DEF InitCancelledAtLock
<1>6. CASE ConfigDone(r)
  BY <1>6, <1>o, <1>t
     DEF ConfigDone, TypeOK
<1>7. CASE ConfigDoneAdopt(r)
  BY <1>7, <1>u
     DEF ConfigDoneAdopt
<1>8. CASE Advance(r)
  BY <1>8, <1>o, <1>t
     DEF Advance, TypeOK, NextOf
<1>9. CASE AdvanceCancelled(r)
  BY <1>9, <1>c
     DEF AdvanceCancelled
<1>10. CASE NoReference(r)
  BY <1>10, <1>d
     DEF NoReference
<1>11. CASE WorktreeCreated(r)
  BY <1>11, <1>u
     DEF WorktreeCreated
<1>12. CASE Throw(r)
  BY <1>12, <1>d, <1>o
     DEF Throw
<1>13. CASE CleanupDone(r)
  <2>1. /\ \A q \in Runner : run[q].pc # "cleanup" => run'[q] = run[q]
        /\ job' = job /\ cancelled' = cancelled
    BY <1>13, <1>g DEF CleanupDone, Finish
  <2>. QED  BY <2>1 DEF WorkInv, JobAtWork, IsInitializing, Working
<1>14. CASE UndoDone(r)
  BY <1>14, <1>d
     DEF UndoDone
<1>15. CASE RepoReady(r)
  BY <1>15, <1>f
     DEF RepoReady
<1>16. CASE RepoFails(r)
  BY <1>16, <1>f
     DEF RepoFails
<1>. QED  BY <1>1, <1>2, <1>3, <1>4, <1>5, <1>6, <1>7, <1>8, <1>9, <1>10, <1>11, <1>12, <1>13, <1>14, <1>15, <1>16, <1>17 DEF RunStep

LEMMA DelStepWork ==
  ASSUME WorkInv, NEW d \in Deleter, DelStep(d)
  PROVE  JobAtWork'
<1>t. TypeOK /\ HasWorkspace
  BY DEF WorkInv
<1>r. run' = run
  BY DEF DelStep, WaitDone, WaitTimeout, TeardownFails, TeardownDone, DeleteLocked,
         RemoveDone, RemoveFails, DeleteDone, CloseDone, DeleteWorktreeLocked,
         DeleteWorktreeDone, DeleteWorktreeFails
<1>1. CASE DeleteDone(d)
  <2>1. del[d].ws \in Workspace
    BY <1>1, <1>t, ProjectOfCall DEF DeleteDone
  <2>2. job'[del[d].ws] = NoJob
    BY <1>1, <1>t, <2>1 DEF DeleteDone, ClearJob, TypeOK
  <2>3. \A v \in Workspace \ {del[d].ws} : job'[v] = job[v] /\ (v \in cancelled => v \in cancelled')
    BY <1>1, <1>t DEF DeleteDone, ClearJob, TypeOK
  <2>. QED  BY <1>r, <2>2, <2>3 DEF WorkInv, JobAtWork, IsInitializing, Working, NoJob
<1>2. CASE job' = job /\ cancelled' = cancelled
  BY <1>r, <1>2 DEF WorkInv, JobAtWork, IsInitializing, Working
<1>. QED
  BY <1>1, <1>2 DEF DelStep, WaitDone, WaitTimeout, TeardownFails, TeardownDone,
     DeleteLocked, RemoveDone, RemoveFails, CloseDone, DeleteWorktreeLocked,
     DeleteWorktreeDone, DeleteWorktreeFails, manager, history

LEMMA UserStepWork ==
  ASSUME WorkInv, NEW w \in Workspace, UserStep(w)
  PROVE  JobAtWork'
<1>t. TypeOK /\ HasWorkspace
  BY DEF WorkInv
<1>1. ASSUME NEW r \in Runner, NEW mode \in Mode, CreateRow(r, w, mode)
      PROVE  JobAtWork'
  BY <1>1, <1>t, ReportsOwn DEF CreateRow, TypeOK, Working, manager
<1>2. ASSUME NEW r \in Runner, RetryCheck(r, w)
      PROVE  JobAtWork'
  BY <1>2, <1>t, ReportsOwn DEF RetryCheck, TypeOK, Working, manager
<1>3. ASSUME NEW r \in Runner, run[r].pc = "idle", RepoStart(r, w)
      PROVE  JobAtWork'
  BY <1>3, <1>t, ReportsOwn DEF RepoStart, StartJob, TypeOK, Working
<1>4. ASSUME run' = run, job' = job, cancelled \subseteq cancelled'
      PROVE  JobAtWork'
  BY <1>4 DEF WorkInv, JobAtWork, IsInitializing, Working
<1>. QED  BY <1>1, <1>2, <1>3, <1>4 DEF UserStep, AgentCreate, AgentRetry, DeleteStart,
     CancelAndWait, CloseStart, DeleteWorktreeStart, manager

LEMMA WorkNext == WorkInv /\ [Next]_vars => WorkInv'
<1>. SUFFICES ASSUME WorkInv, [Next]_vars PROVE WorkInv'
  OBVIOUS
<1>1. TypeOK' /\ HasWorkspace'
  BY TypeNext DEF WorkInv
<1>2. JobAtWork'
  <2>1. CASE UNCHANGED vars
    BY <2>1 DEF vars, WorkInv, JobAtWork, IsInitializing, Working
  <2>2. ASSUME NEW w \in Workspace, ReadyTimer(w) PROVE JobAtWork'
    <3>1. \A v \in Workspace : job'[v] = job[v] \/ job'[v] = NoJob
      BY <2>2 DEF ReadyTimer, WorkInv, TypeOK
    <3>2. run' = run /\ cancelled' = cancelled
      BY <2>2 DEF ReadyTimer
    <3>. QED  BY <3>1, <3>2 DEF WorkInv, JobAtWork, IsInitializing, Working, NoJob
  <2>3. CASE Restart
    BY <2>3 DEF Restart, JobAtWork, IsInitializing, NoJob
  <2>. QED  BY <2>1, <2>2, <2>3, UserStepWork, RunStepWork, DelStepWork DEF Next
<1>. QED  BY <1>1, <1>2 DEF WorkInv

\* A workspace that is shown as initializing has a job at work on it, or its
\* cancellation has been asked for.
THEOREM InitializingMeansJob == Spec => []InitializingHasJob
<1>1. Init => WorkInv
  <2>. SUFFICES ASSUME Init PROVE WorkInv
    OBVIOUS
  <2>1. JobAtWork
    BY DEF Init, JobAtWork, IsInitializing, NoJob
  <2>. QED  BY <2>1, TypeInit DEF WorkInv
<1>2. WorkInv => InitializingHasJob
  BY DEF WorkInv, JobAtWork, InitializingHasJob, WorkingOn
<1>. QED  BY <1>1, <1>2, WorkNext, PTL DEF Spec

------------------------------------------------------------------------------
(* Done promises                                                           *)
(*                                                                         *)
(* finalizeJob resolves whatever promise the map holds for the workspace,  *)
(* which may be the one of another job.  The maps are keyed by workspace,  *)
(* so the promise in the map was made for a job of that workspace, and two *)
(* jobs of one workspace are an overlap.                                   *)

Early == {"idle", "inserted", "checked"}

TwoJobsAreRaced ==
  \A r, q \in Runner :
    Working(r) /\ Working(q) /\ run[r].ws = run[q].ws /\ r # q => run[r].ws \in raced
PromiseOfCall ==
  \A w \in Workspace : \A r \in Runner :
    promise[w] = r => run[r].ws = w /\ run[r].pc \notin Early
ResolvedCalls == \A r \in resolved : run[r].pc \notin Early

PromiseInv == /\ TypeOK /\ HasWorkspace
              /\ TwoJobsAreRaced /\ PromiseOfCall /\ ResolvedCalls /\ ResolvedAtTheEnd
PromiseFacts == TwoJobsAreRaced /\ PromiseOfCall /\ ResolvedCalls /\ ResolvedAtTheEnd

\* No job starts or ends, and no promise is resolved.
LEMMA NoPromiseResolved ==
  ASSUME PromiseInv, NEW r \in Runner,
         \A q \in Runner \ {r} : run'[q] = run[q],
         \/ Working(r) /\ Working(r)' /\ run'[r].ws = run[r].ws
         \/ run[r].pc \in Early /\ ~Working(r)',
         resolved' = resolved, promise' = promise, raced' = raced
  PROVE  PromiseFacts'
<1>1. \A q \in Runner : Working(q)' => Working(q) /\ run'[q].ws = run[q].ws
  BY DEF Working, Early
<1>2. \A q \in Runner : run[q].pc \notin Early => run'[q].pc \notin Early /\ run'[q].ws = run[q].ws
  BY DEF Working, Early
<1>3. TwoJobsAreRaced'
  BY <1>1 DEF PromiseInv, TwoJobsAreRaced
<1>4. PromiseOfCall'
  BY <1>2 DEF PromiseInv, PromiseOfCall
<1>5. resolved \subseteq Runner
  BY DEF PromiseInv, TypeOK
<1>6. ResolvedCalls'
  BY <1>2, <1>5 DEF PromiseInv, ResolvedCalls
<1>7. ResolvedAtTheEnd'
  BY <1>1, <1>5 DEF PromiseInv, ResolvedAtTheEnd
<1>. QED  BY <1>3, <1>4, <1>6, <1>7 DEF PromiseFacts

\* A job starts.
LEMMA PromiseMade ==
  ASSUME PromiseInv, NEW r \in Runner, NEW w \in Workspace, NEW step,
         NEW p, StartJob(r, w, p, step),
         \A q \in Runner \ {r} : run'[q] = run[q],
         run[r].pc \in Early, Working(r)', run'[r].ws = w
  PROVE  PromiseFacts'
<1>1. w \in raced' \/ \A q \in Runner : ~(Working(q) /\ run[q].ws = w)
  BY DEF StartJob, Overlaps, WorkingOn
<1>2. raced \subseteq raced' /\ resolved' = resolved
  BY DEF StartJob
<1>3. promise'[w] = r /\ \A v \in Workspace \ {w} : promise'[v] = promise[v]
  BY DEF StartJob, PromiseInv, TypeOK
<1>4. \A q \in Runner \ {r} : Working(q)' <=> Working(q)
  BY DEF Working
<1>5. TwoJobsAreRaced'
  BY <1>1, <1>2, <1>4 DEF PromiseInv, TwoJobsAreRaced, Working
<1>6. PromiseOfCall'
  BY <1>3 DEF PromiseInv, PromiseOfCall, Working, Early
<1>7. ResolvedCalls' /\ ResolvedAtTheEnd'
  BY <1>2, <1>4 DEF PromiseInv, ResolvedCalls, ResolvedAtTheEnd, Early, Working, TypeOK
<1>. QED  BY <1>5, <1>6, <1>7 DEF PromiseFacts

\* The job of r ends and finalizes whatever promise its workspace has.
LEMMA PromiseResolved ==
  ASSUME PromiseInv, NEW r \in Runner, Working(r), Finalize(run[r].ws), Goto(r, "done"),
         raced' = raced
  PROVE  PromiseFacts'
<1>. DEFINE w == run[r].ws
<1>0. TypeOK /\ HasWorkspace
  BY DEF PromiseInv
<1>1. w \in Workspace
  BY <1>0, ProjectOfCall DEF Working
<1>2. /\ \A q \in Runner \ {r} : run'[q] = run[q]
      /\ run'[r].ws = w /\ run'[r].pc = "done"
  BY <1>0 DEF Goto, TypeOK
<1>3. \A q \in Runner : Working(q)' => Working(q) /\ q # r /\ run'[q] = run[q]
  BY <1>2 DEF Working
<1>4. \A v \in Workspace : \A q \in Runner : promise'[v] = q => promise[v] = q
  BY <1>0, <1>1, ConstantsAssumption DEF Finalize, TypeOK
<1>5. \A q \in resolved' : q \in Runner /\ (q \in resolved \/ promise[w] = q)
  BY <1>0, <1>1 DEF Finalize, TypeOK
<1>6. TwoJobsAreRaced'
  BY <1>3 DEF PromiseInv, TwoJobsAreRaced
<1>7. PromiseOfCall'
  BY <1>2, <1>4 DEF PromiseInv, PromiseOfCall, Early
<1>8. ResolvedCalls'
  BY <1>1, <1>2, <1>5 DEF PromiseInv, ResolvedCalls, PromiseOfCall, Early
<1>9. ASSUME NEW q \in resolved', Working(q)'
      PROVE  run'[q].ws \in raced'
  <2>1. q \in Runner /\ Working(q) /\ q # r /\ run'[q] = run[q]
    BY <1>3, <1>5, <1>9
  <2>2. CASE q \in resolved
    BY <2>1, <2>2 DEF PromiseInv, ResolvedAtTheEnd
  <2>3. CASE promise[w] = q
    <3>1. run[q].ws = run[r].ws
      BY <1>1, <2>1, <2>3 DEF PromiseInv, PromiseOfCall
    <3>. QED  BY <2>1, <3>1 DEF PromiseInv, TwoJobsAreRaced
  <2>. QED  BY <1>5, <1>9, <2>2, <2>3
<1>. QED  BY <1>6, <1>7, <1>8, <1>9 DEF PromiseFacts, ResolvedAtTheEnd

LEMMA RunStepPromise ==
  ASSUME PromiseInv, NEW r \in Runner, RunStep(r)
  PROVE  PromiseFacts'
<1>. DEFINE w == run[r].ws
<1>t. TypeOK /\ HasWorkspace
  BY DEF PromiseInv
<1>w. run[r].pc # "idle" => w \in Workspace
  BY <1>t, ProjectOfCall
<1>g. ASSUME NEW loc, Goto(r, loc)
      PROVE  /\ \A q \in Runner \ {r} : run'[q] = run[q]
             /\ run'[r].ws = w /\ run'[r].pc = loc
  BY <1>g, <1>t DEF Goto, TypeOK
<1>m. ASSUME Working(r), NEW loc, Goto(r, loc), loc \notin Early \cup {"done"},
             UNCHANGED <<promise, resolved, raced>>
      PROVE  PromiseFacts'
  BY <1>m, <1>g, NoPromiseResolved DEF Working, Early
<1>1. CASE CreateStart(r)
  BY <1>1, <1>w, <1>g, PromiseMade
     DEF CreateStart, Working, Early
<1>2. CASE CreateThrows(r)
  BY <1>2, <1>g, NoPromiseResolved
     DEF CreateThrows, Working, Early, manager, history
<1>3. ASSUME NEW p \in Path, RetryStart(r, p)
      PROVE  PromiseFacts'
  <2>1. /\ \A q \in Runner \ {r} : run'[q] = run[q]
        /\ run'[r].ws = w /\ run'[r].pc = "lock"
    BY <1>3, <1>t DEF RetryStart, TypeOK
  <2>. QED  BY <1>3, <1>w, <2>1, PromiseMade
            DEF RetryStart, Working, Early
<1>17. CASE RetryThrows(r)
  BY <1>17, <1>g, NoPromiseResolved
     DEF RetryThrows, Working, Early, manager, history
<1>4. CASE InitLocked(r)
  BY <1>4, <1>m
     DEF InitLocked, Working, Early, manager, history
<1>5. CASE InitCancelledAtLock(r)
  BY <1>5, PromiseResolved
     DEF InitCancelledAtLock, Working, Finish, history
<1>6. CASE ConfigDone(r)
  BY <1>6, <1>m
     DEF ConfigDone, Working, Early, history
<1>7. CASE ConfigDoneAdopt(r)
  BY <1>7, <1>m, PromiseResolved
     DEF ConfigDoneAdopt, Working, Early, Ready, StatusThrows, Fail, CleanUp, Finish, history
<1>8. CASE Advance(r)
  BY <1>8, <1>m
     DEF Advance, Working, Early, NextOf, history
<1>9. CASE AdvanceCancelled(r)
  BY <1>9, PromiseResolved
     DEF AdvanceCancelled, Working, NextOf, Finish, history
<1>10. CASE NoReference(r)
  BY <1>10, PromiseResolved
     DEF NoReference, Working, Fail, Finish, history
<1>11. CASE WorktreeCreated(r)
  BY <1>11, <1>m, PromiseResolved
     DEF WorktreeCreated, Working, Early, Ready, StatusThrows, Fail, CleanUp, Finish
<1>12. CASE Throw(r)
  BY <1>12, <1>m, PromiseResolved
     DEF Throw, Working, Early, Fail, Finish
<1>13. CASE CleanupDone(r)
  BY <1>13, PromiseResolved
     DEF CleanupDone, Working, Finish, history
<1>14. CASE UndoDone(r)
  BY <1>14, PromiseResolved
     DEF UndoDone, Working, Fail, Finish, history
<1>15. CASE RepoReady(r)
  BY <1>15, PromiseResolved
     DEF RepoReady, Working, history
<1>16. CASE RepoFails(r)
  BY <1>16, PromiseResolved
     DEF RepoFails, Working, history
<1>. QED  BY <1>1, <1>2, <1>3, <1>4, <1>5, <1>6, <1>7, <1>8, <1>9, <1>10, <1>11, <1>12, <1>13, <1>14, <1>15, <1>16, <1>17 DEF RunStep

\* The other calls start and end no job; a delete may drop a promise.
LEMMA PromiseDropped ==
  ASSUME PromiseInv, run' = run, resolved' = resolved, raced \subseteq raced',
         \A w \in Workspace : promise'[w] \in {promise[w], None}
  PROVE  PromiseFacts'
BY ConstantsAssumption
   DEF PromiseInv, PromiseFacts, TwoJobsAreRaced, PromiseOfCall, ResolvedCalls,
       ResolvedAtTheEnd, Working

LEMMA DelStepPromise ==
  ASSUME PromiseInv, NEW d \in Deleter, DelStep(d)
  PROVE  PromiseFacts'
<1>t. TypeOK /\ HasWorkspace
  BY DEF PromiseInv
<1>1. CASE DeleteDone(d)
  <2>1. \A w \in Workspace : promise'[w] \in {promise[w], None}
    BY <1>1, <1>t DEF DeleteDone, ClearJob, TypeOK
  <2>. QED  BY <1>1, <2>1, PromiseDropped DEF DeleteDone, ClearJob, history
<1>2. CASE run' = run /\ resolved' = resolved /\ raced \subseteq raced' /\ promise' = promise
  BY <1>2, PromiseDropped
<1>. QED
  BY <1>1, <1>2 DEF DelStep, WaitDone, WaitTimeout, TeardownFails, TeardownDone,
     DeleteLocked, RemoveDone, RemoveFails, CloseDone, DeleteWorktreeLocked,
     DeleteWorktreeDone, DeleteWorktreeFails, manager, history

LEMMA UserStepPromise ==
  ASSUME PromiseInv, NEW w \in Workspace, UserStep(w)
  PROVE  PromiseFacts'
<1>t. TypeOK /\ HasWorkspace
  BY DEF PromiseInv
<1>1. ASSUME NEW r \in Runner, NEW mode \in Mode, CreateRow(r, w, mode)
      PROVE  PromiseFacts'
  BY <1>1, <1>t, NoPromiseResolved DEF CreateRow, TypeOK, Working, Early, manager, history
<1>2. ASSUME NEW r \in Runner, RetryCheck(r, w)
      PROVE  PromiseFacts'
  BY <1>2, <1>t, NoPromiseResolved DEF RetryCheck, TypeOK, Working, Early, manager, history
<1>3. ASSUME NEW r \in Runner, run[r].pc = "idle", RepoStart(r, w)
      PROVE  PromiseFacts'
  <2>1. /\ \A q \in Runner \ {r} : run'[q] = run[q]
        /\ run'[r].ws = w /\ run'[r].pc = "repo"
    BY <1>3, <1>t DEF RepoStart, TypeOK
  <2>. QED  BY <1>3, <2>1, PromiseMade DEF RepoStart, Working, Early
<1>4. ASSUME UNCHANGED <<run, promise, resolved, raced>>
      PROVE  PromiseFacts'
  BY <1>4, PromiseDropped
<1>. QED  BY <1>1, <1>2, <1>3, <1>4 DEF UserStep, AgentCreate, AgentRetry, DeleteStart,
     CloseStart, DeleteWorktreeStart, manager, history

LEMMA PromiseNext == PromiseInv /\ [Next]_vars => PromiseInv'
<1>. SUFFICES ASSUME PromiseInv, [Next]_vars PROVE PromiseInv'
  OBVIOUS
<1>1. TypeOK' /\ HasWorkspace'
  BY TypeNext DEF PromiseInv
<1>2. PromiseFacts'
  <2>1. CASE UNCHANGED vars
    BY <2>1, PromiseDropped DEF vars
  <2>2. ASSUME NEW w \in Workspace, ReadyTimer(w) PROVE PromiseFacts'
    BY <2>2, PromiseDropped DEF ReadyTimer, history
  <2>3. CASE Restart
    <3>1. /\ resolved' = {} /\ raced' = raced /\ \A w \in Workspace : promise'[w] = None
          /\ \A r \in Runner : ~Working(r)'
      BY <2>3 DEF Restart, Working
    <3>. QED  BY <3>1, ConstantsAssumption
              DEF PromiseFacts, TwoJobsAreRaced, PromiseOfCall, ResolvedCalls, ResolvedAtTheEnd
  <2>. QED  BY <2>1, <2>2, <2>3, UserStepPromise, RunStepPromise, DelStepPromise DEF Next
<1>. QED  BY <1>1, <1>2 DEF PromiseInv, PromiseFacts

\* The promise that a delete waits for is resolved at the end of the job, cleanup
\* included, unless two jobs of the workspace overlapped.
THEOREM ResolvedMeansEnded == Spec => []ResolvedAtTheEnd
<1>1. Init => PromiseInv
  <2>. SUFFICES ASSUME Init PROVE PromiseInv
    OBVIOUS
  <2>1. PromiseFacts
    BY ConstantsAssumption DEF Init, PromiseFacts, TwoJobsAreRaced, PromiseOfCall,
       ResolvedCalls, ResolvedAtTheEnd, Working
  <2>. QED  BY <2>1, TypeInit DEF PromiseInv, PromiseFacts
<1>2. PromiseInv => ResolvedAtTheEnd
  BY DEF PromiseInv
<1>. QED  BY <1>1, <1>2, PromiseNext, PTL DEF Spec

------------------------------------------------------------------------------
(* The line at the project lock                                            *)
(*                                                                         *)
(* A delete that gave up waiting for a job removes the worktree only after *)
(* the job is through: the job asked for the lock before the delete was    *)
(* even called, and those who await the lock get it in order.              *)

AtLock == {"lock", "wtLock"}

DeletersInLine ==
  \A d \in Deleter : \A p \in Project :
    /\ lock[p] = d => /\ p = ProjectOf[del[d].ws]
                      /\ del[d].pc \in AtLock \cup DelGit
                      /\ \A i \in 1..Len(queue[p]) : queue[p][i] # d
    /\ \A i \in 1..Len(queue[p]) :
         queue[p][i] = d => p = ProjectOf[del[d].ws] /\ del[d].pc \in AtLock
    /\ \A i, j \in 1..Len(queue[p]) : queue[p][i] = d /\ queue[p][j] = d => i = j

RunnersInLine ==
  \A r \in Runner :
    LET p == ProjectOf[run[r].ws] IN
    run[r].pc = "lock" =>
      \/ lock[p] = r
      \/ lock[p] # None /\ \E i \in 1..Len(queue[p]) : queue[p][i] = r

\* Behind(d, r): d does not hold the lock and stands behind r.
Behind(d, r) ==
  LET p == ProjectOf[run[r].ws] IN
  /\ lock[p] # d
  /\ \A j \in 1..Len(queue[p]) :
       queue[p][j] = d => lock[p] = r \/ \E i \in 1..(j - 1) : queue[p][i] = r

DeleteWaitsForJob ==
  \A d \in Deleter : \A r \in Runner :
    /\ run[r].pc = "lock" /\ run[r].ws = del[d].ws /\ run[r].ws \notin raced
    => /\ del[d].pc # "remove"
       /\ del[d].pc = "lock" => Behind(d, r)

LineInv == GitInv /\ DeletersInLine /\ RunnersInLine /\ DeleteWaitsForJob
LineFacts == DeletersInLine /\ RunnersInLine /\ DeleteWaitsForJob

\* What Acquire and Release do to the line.
LEMMA AcquireLine ==
  ASSUME TypeOK, NEW p \in Project, NEW t \in Runner \cup Deleter, Acquire(p, t)
  PROVE  /\ \A q \in Project \ {p} : lock'[q] = lock[q] /\ queue'[q] = queue[q]
         /\ \/ lock[p] = None /\ lock'[p] = t /\ queue'[p] = queue[p]
            \/ /\ lock[p] # None /\ lock'[p] = lock[p]
               /\ Len(queue[p]) \in Nat /\ Len(queue'[p]) = Len(queue[p]) + 1
               /\ queue'[p][Len(queue[p]) + 1] = t
               /\ \A i \in 1..Len(queue[p]) : queue'[p][i] = queue[p][i]
<1>1. queue[p] \in Seq(Runner \cup Deleter)
  BY DEF TypeOK
<1>2. CASE lock[p] = None
  BY <1>2 DEF Acquire, TypeOK
<1>3. CASE lock[p] # None
  <2>1. lock' = lock /\ queue'[p] = Append(queue[p], t)
        /\ \A q \in Project \ {p} : queue'[q] = queue[q]
    BY <1>3 DEF Acquire, TypeOK
  <2>2. /\ Len(queue[p]) \in Nat /\ Len(Append(queue[p], t)) = Len(queue[p]) + 1
        /\ Append(queue[p], t)[Len(queue[p]) + 1] = t
        /\ \A i \in 1..Len(queue[p]) : Append(queue[p], t)[i] = queue[p][i]
    BY <1>1
  <2>. QED  BY <1>3, <2>1, <2>2
<1>. QED  BY <1>2, <1>3

LEMMA ReleaseLine ==
  ASSUME TypeOK, NEW p \in Project, Release(p)
  PROVE  /\ \A q \in Project \ {p} : lock'[q] = lock[q] /\ queue'[q] = queue[q]
         /\ \/ Len(queue[p]) = 0 /\ lock'[p] = None /\ queue'[p] = queue[p]
            \/ /\ Len(queue[p]) \in Nat \ {0} /\ Len(queue'[p]) = Len(queue[p]) - 1
               /\ lock'[p] = queue[p][1] /\ lock'[p] # None
               /\ \A i \in 1..(Len(queue[p]) - 1) : queue'[p][i] = queue[p][i + 1]
<1>1. queue[p] \in Seq(Runner \cup Deleter)
  BY DEF TypeOK
<1>2. CASE queue[p] = <<>>
  BY <1>2 DEF Release, TypeOK
<1>3. CASE queue[p] # <<>>
  <2>1. /\ lock'[p] = Head(queue[p]) /\ queue'[p] = Tail(queue[p])
        /\ \A q \in Project \ {p} : lock'[q] = lock[q] /\ queue'[q] = queue[q]
    BY <1>3 DEF Release, TypeOK
  <2>2. /\ Len(queue[p]) \in Nat \ {0} /\ Len(Tail(queue[p])) = Len(queue[p]) - 1
        /\ Head(queue[p]) = queue[p][1] /\ Head(queue[p]) \in Runner \cup Deleter
        /\ \A i \in 1..(Len(queue[p]) - 1) : Tail(queue[p])[i] = queue[p][i + 1]
    BY <1>1, <1>3
  <2>. QED  BY <2>1, <2>2, ConstantsAssumption
<1>. QED  BY <1>2, <1>3

\* Acquire takes no lock and no place from anybody, and gives t one of them.
LEMMA AcquirePlaces ==
  ASSUME TypeOK, NEW p \in Project, NEW t \in Runner \cup Deleter, Acquire(p, t)
  PROVE  /\ \A q \in Project :
              /\ Len(queue[q]) \in Nat
              /\ lock[q] # None => lock'[q] = lock[q]
              /\ lock'[q] # lock[q] => q = p /\ lock'[p] = t /\ queue'[p] = queue[p]
              /\ \A i \in 1..Len(queue[q]) :
                   i \in 1..Len(queue'[q]) /\ queue'[q][i] = queue[q][i]
              /\ \A i \in 1..Len(queue'[q]) :
                   \/ i \in 1..Len(queue[q])
                   \/ /\ q = p /\ i = Len(queue[p]) + 1
                      /\ queue'[p][i] = t /\ lock[p] # None
         /\ \/ lock[p] = None /\ lock'[p] = t
            \/ /\ lock[p] # None /\ lock'[p] = lock[p]
               /\ Len(queue[p]) + 1 \in 1..Len(queue'[p])
               /\ queue'[p][Len(queue[p]) + 1] = t
<1>0. \A q \in Project : Len(queue[q]) \in Nat
  BY DEF TypeOK
<1>1. CASE lock[p] = None
  <2>1. \A q \in Project : queue'[q] = queue[q]
    BY <1>1, AcquireLine
  <2>2. lock'[p] = t /\ \A q \in Project \ {p} : lock'[q] = lock[q]
    BY <1>1, AcquireLine
  <2>. QED  BY <1>0, <1>1, <2>1, <2>2
<1>2. CASE lock[p] # None
  <2>1. /\ \A q \in Project \ {p} : lock'[q] = lock[q] /\ queue'[q] = queue[q]
        /\ lock'[p] = lock[p] /\ Len(queue'[p]) = Len(queue[p]) + 1
        /\ queue'[p][Len(queue[p]) + 1] = t
        /\ \A i \in 1..Len(queue[p]) : queue'[p][i] = queue[p][i]
    BY <1>2, AcquireLine
  <2>2. \A i \in 1..Len(queue'[p]) : i \in 1..Len(queue[p]) \/ i = Len(queue[p]) + 1
    BY <1>0, <2>1
  <2>3. \A i \in 1..Len(queue[p]) : i \in 1..Len(queue'[p])
    BY <1>0, <2>1
  <2>4. Len(queue[p]) + 1 \in 1..Len(queue'[p])
    BY <1>0, <2>1
  <2>. QED  BY <1>0, <1>2, <2>1, <2>2, <2>3, <2>4
<1>. QED  BY <1>1, <1>2

\* Nobody moves in the line; a call that holds a lock may go on.
LEMMA LineStays ==
  ASSUME LineInv, UNCHANGED locks, raced \subseteq raced',
         \A r \in Runner : run'[r].pc = "lock" =>
           run[r].pc = "lock" /\ run'[r].ws = run[r].ws,
         \A d \in Deleter :
           \/ del'[d] = del[d]
           \/ /\ del'[d].ws = del[d].ws /\ lock[ProjectOf[del[d].ws]] = d
              /\ \/ del[d].pc = "lock" /\ del'[d].pc = "remove"
                 \/ del[d].pc = "wtLock" /\ del'[d].pc = "wtRemove"
           \/ /\ del[d].pc \notin AtLock \cup DelGit
              /\ del'[d].pc \notin AtLock \cup DelGit
  PROVE  LineFacts'
<1>. USE DEF locks
<1>1. DeletersInLine'
  <2>. SUFFICES ASSUME NEW d \in Deleter, NEW p \in Project
                PROVE  /\ lock[p] = d => /\ p = ProjectOf[del'[d].ws]
                                         /\ del'[d].pc \in AtLock \cup DelGit
                                         /\ \A i \in 1..Len(queue[p]) : queue[p][i] # d
                       /\ \A i \in 1..Len(queue[p]) :
                            queue[p][i] = d => p = ProjectOf[del'[d].ws] /\ del'[d].pc \in AtLock
                       /\ \A i, j \in 1..Len(queue[p]) : queue[p][i] = d /\ queue[p][j] = d => i = j
    BY DEF DeletersInLine
  <2>1. CASE del'[d] = del[d]
    BY <2>1 DEF LineInv, DeletersInLine
  <2>2. CASE /\ del'[d].ws = del[d].ws /\ lock[ProjectOf[del[d].ws]] = d
             /\ del'[d].pc \in DelGit /\ del[d].pc \in AtLock
    BY <2>2 DEF LineInv, DeletersInLine
  <2>3. CASE /\ del[d].pc \notin AtLock \cup DelGit
             /\ del'[d].pc \notin AtLock \cup DelGit
    BY <2>3 DEF LineInv, DeletersInLine
  <2>. QED  BY <2>1, <2>2, <2>3 DEF AtLock, DelGit
<1>2. RunnersInLine'
  BY DEF LineInv, RunnersInLine
<1>3. DeleteWaitsForJob'
  BY DEF LineInv, DeleteWaitsForJob, Behind, AtLock, DelGit
<1>. QED  BY <1>1, <1>2, <1>3 DEF LineFacts

\* A job asks for the lock.  It is behind every delete that is there already, and
\* then its workspace is raced.
LEMMA RunnerJoins ==
  ASSUME LineInv, NEW r \in Runner, run[r].pc \in Early, run[r].ws \in Workspace,
         Acquire(ProjectOf[run[r].ws], r),
         del' = del, \A q \in Runner \ {r} : run'[q] = run[q],
         run'[r].ws = run[r].ws, raced \subseteq raced',
         \A d \in Deleter : Deleting(d) /\ del[d].ws = run[r].ws => run[r].ws \in raced'
  PROVE  LineFacts'
<1>. DEFINE p == ProjectOf[run[r].ws]
<1>t. TypeOK /\ GitInv /\ p \in Project /\ r \notin Deleter /\ r # None
  BY ConstantsAssumption DEF LineInv, GitInv
<1>a. /\ \A q \in Project :
           /\ Len(queue[q]) \in Nat
           /\ lock[q] # None => lock'[q] = lock[q]
           /\ lock'[q] # lock[q] => q = p /\ lock'[p] = r /\ queue'[p] = queue[p]
           /\ \A i \in 1..Len(queue[q]) :
                i \in 1..Len(queue'[q]) /\ queue'[q][i] = queue[q][i]
           /\ \A i \in 1..Len(queue'[q]) :
                \/ i \in 1..Len(queue[q])
                \/ /\ q = p /\ i = Len(queue[p]) + 1
                   /\ queue'[p][i] = r /\ lock[p] # None
      /\ \/ lock[p] = None /\ lock'[p] = r
         \/ /\ lock[p] # None /\ lock'[p] = lock[p]
            /\ Len(queue[p]) + 1 \in 1..Len(queue'[p])
            /\ queue'[p][Len(queue[p]) + 1] = r
  BY <1>t, AcquirePlaces
<1>1. DeletersInLine'
  <2>1. \A d \in Deleter : \A q \in Project :
          /\ lock'[q] = d => lock[q] = d
          /\ \A i \in 1..Len(queue'[q]) : queue'[q][i] = d => i \in 1..Len(queue[q]) /\ queue[q][i] = d
    BY <1>t, <1>a
  <2>. QED  BY <2>1 DEF LineInv, DeletersInLine
<1>2. RunnersInLine'
  <2>1. ASSUME NEW q \in Runner, run'[q].pc = "lock"
        PROVE  \/ lock'[ProjectOf[run'[q].ws]] = q
               \/ /\ lock'[ProjectOf[run'[q].ws]] # None
                  /\ \E i \in 1..Len(queue'[ProjectOf[run'[q].ws]]) :
                       queue'[ProjectOf[run'[q].ws]][i] = q
    <3>1. CASE q = r
      <4>1. CASE lock'[p] = r
        BY <3>1, <4>1
      <4>2. CASE lock'[p] # r
        <5>1. Len(queue[p]) + 1 \in 1..Len(queue'[p])
          BY <1>a, <4>2
        <5>. QED  BY <1>a, <3>1, <4>2, <5>1
      <4>. QED  BY <4>1, <4>2
    <3>2. CASE q # r
      <4>1. run'[q] = run[q] /\ ProjectOf[run[q].ws] \in Project
        BY <2>1, <3>2, <1>t, ProjectOfCall DEF GitInv
      <4>2. \/ lock[ProjectOf[run[q].ws]] = q
            \/ /\ lock[ProjectOf[run[q].ws]] # None
               /\ \E i \in 1..Len(queue[ProjectOf[run[q].ws]]) :
                    queue[ProjectOf[run[q].ws]][i] = q
        BY <2>1, <4>1 DEF LineInv, RunnersInLine
      <4>3. q # None
        BY ConstantsAssumption
      <4>. QED  BY <1>a, <4>1, <4>2, <4>3
    <3>. QED  BY <3>1, <3>2
  <2>. QED  BY <2>1 DEF RunnersInLine
<1>3. DeleteWaitsForJob'
  <2>1. ASSUME NEW d \in Deleter, NEW q \in Runner,
               run'[q].pc = "lock", run'[q].ws = del[d].ws, run'[q].ws \notin raced'
        PROVE  del[d].pc # "remove" /\ (del[d].pc = "lock" => Behind(d, q)')
    <3>1. CASE q = r
      BY <2>1, <3>1 DEF Deleting
    <3>2. CASE q # r
      <4>. DEFINE o == ProjectOf[run[q].ws]
      <4>1. run'[q] = run[q] /\ o \in Project
        BY <2>1, <3>2, <1>t, ProjectOfCall DEF GitInv
      <4>2. del[d].pc # "remove" /\ (del[d].pc = "lock" => Behind(d, q))
        BY <2>1, <4>1 DEF LineInv, DeleteWaitsForJob
      <4>3. ASSUME Behind(d, q)
            PROVE  Behind(d, q)'
        <5>1. CASE o # p
          BY <1>a, <4>1, <4>3, <5>1 DEF Behind
        <5>2. CASE o = p
          <6>1. lock'[p] # d
            BY <1>a, <1>t, <4>3, <5>2 DEF Behind
          <6>2. ASSUME NEW j \in 1..Len(queue'[p]), queue'[p][j] = d
                PROVE  lock'[p] = q \/ \E i \in 1..(j - 1) : queue'[p][i] = q
            <7>1. j \in 1..Len(queue[p]) /\ queue[p][j] = d
              BY <1>a, <1>t, <6>2
            <7>2. lock[p] = q \/ \E i \in 1..(j - 1) : queue[p][i] = q
              BY <4>3, <5>2, <7>1 DEF Behind
            <7>3. q # None
              BY ConstantsAssumption
            <7>4. \A i \in 1..(j - 1) : i \in 1..Len(queue[p])
              BY <1>a, <1>t, <7>1
            <7>. QED  BY <1>a, <1>t, <7>2, <7>3, <7>4
          <6>. QED  BY <4>1, <5>2, <6>1, <6>2 DEF Behind
        <5>. QED  BY <5>1, <5>2
      <4>. QED  BY <4>2, <4>3
    <3>. QED  BY <3>1, <3>2
  <2>. QED  BY <2>1 DEF DeleteWaitsForJob
<1>. QED  BY <1>1, <1>2, <1>3 DEF LineFacts

\* A delete or deleteWorktree asks for the lock and stands behind all that are there.
LEMMA DeleterJoins ==
  ASSUME LineInv, NEW d \in Deleter, NEW w \in Workspace,
         del[d].pc \notin AtLock \cup DelGit, Acquire(ProjectOf[w], d),
         run' = run, \A e \in Deleter \ {d} : del'[e] = del[e],
         del'[d].ws = w, del'[d].pc \in AtLock, raced \subseteq raced'
  PROVE  LineFacts'
<1>. DEFINE p == ProjectOf[w]
<1>t. TypeOK /\ GitInv /\ p \in Project /\ d \notin Runner /\ d # None
  BY ConstantsAssumption DEF LineInv, GitInv
<1>a. /\ \A q \in Project :
           /\ Len(queue[q]) \in Nat
           /\ lock[q] # None => lock'[q] = lock[q]
           /\ lock'[q] # lock[q] => q = p /\ lock'[p] = d /\ queue'[p] = queue[p]
           /\ \A i \in 1..Len(queue[q]) :
                i \in 1..Len(queue'[q]) /\ queue'[q][i] = queue[q][i]
           /\ \A i \in 1..Len(queue'[q]) :
                \/ i \in 1..Len(queue[q])
                \/ /\ q = p /\ i = Len(queue[p]) + 1
                   /\ queue'[p][i] = d /\ lock[p] # None
      /\ \/ lock[p] = None /\ lock'[p] = d
         \/ /\ lock[p] # None /\ lock'[p] = lock[p]
            /\ Len(queue[p]) + 1 \in 1..Len(queue'[p])
            /\ queue'[p][Len(queue[p]) + 1] = d
  BY <1>t, AcquirePlaces
\* So far d is nowhere in a line.
<1>n. \A q \in Project : lock[q] # d /\ \A i \in 1..Len(queue[q]) : queue[q][i] # d
  BY DEF LineInv, DeletersInLine
<1>1. DeletersInLine'
  <2>1. ASSUME NEW e \in Deleter, e # d
        PROVE  \A q \in Project :
          /\ lock'[q] = e => lock[q] = e
          /\ \A i \in 1..Len(queue'[q]) : queue'[q][i] = e => i \in 1..Len(queue[q]) /\ queue[q][i] = e
    BY <1>t, <1>a, <2>1
  <2>2. \A q \in Project :
          /\ lock'[q] = d => q = p /\ queue'[p] = queue[p]
          /\ \A i \in 1..Len(queue'[q]) : queue'[q][i] = d => q = p /\ i = Len(queue[p]) + 1
    BY <1>t, <1>a, <1>n
  <2>3. ASSUME NEW e \in Deleter, NEW q \in Project
        PROVE  /\ lock'[q] = e => /\ q = ProjectOf[del'[e].ws]
                                  /\ del'[e].pc \in AtLock \cup DelGit
                                  /\ \A i \in 1..Len(queue'[q]) : queue'[q][i] # e
               /\ \A i \in 1..Len(queue'[q]) :
                    queue'[q][i] = e => q = ProjectOf[del'[e].ws] /\ del'[e].pc \in AtLock
               /\ \A i, j \in 1..Len(queue'[q]) : queue'[q][i] = e /\ queue'[q][j] = e => i = j
    <3>1. CASE e = d
      <4>1. lock'[q] = d => \A i \in 1..Len(queue'[q]) : queue'[q][i] # d
        BY <1>n, <2>2
      <4>. QED  BY <2>2, <3>1, <4>1
    <3>2. CASE e # d
      BY <2>1, <3>2 DEF LineInv, DeletersInLine
    <3>. QED  BY <3>1, <3>2
  <2>. QED  BY <2>3 DEF DeletersInLine
<1>2. RunnersInLine'
  <2>1. ASSUME NEW q \in Runner, run[q].pc = "lock"
        PROVE  \/ lock'[ProjectOf[run[q].ws]] = q
               \/ /\ lock'[ProjectOf[run[q].ws]] # None
                  /\ \E i \in 1..Len(queue'[ProjectOf[run[q].ws]]) :
                       queue'[ProjectOf[run[q].ws]][i] = q
    <3>1. ProjectOf[run[q].ws] \in Project
      BY <2>1, <1>t, ProjectOfCall DEF GitInv
    <3>2. \/ lock[ProjectOf[run[q].ws]] = q
          \/ /\ lock[ProjectOf[run[q].ws]] # None
             /\ \E i \in 1..Len(queue[ProjectOf[run[q].ws]]) :
                  queue[ProjectOf[run[q].ws]][i] = q
      BY <2>1 DEF LineInv, RunnersInLine
    <3>3. q # None
      BY ConstantsAssumption
    <3>. QED  BY <1>a, <3>1, <3>2, <3>3
  <2>. QED  BY <2>1 DEF RunnersInLine
<1>3. DeleteWaitsForJob'
  <2>1. ASSUME NEW e \in Deleter, NEW q \in Runner,
               run[q].pc = "lock", run[q].ws = del'[e].ws, run[q].ws \notin raced'
        PROVE  del'[e].pc # "remove" /\ (del'[e].pc = "lock" => Behind(e, q)')
    <3>. DEFINE o == ProjectOf[run[q].ws]
    <3>0. o \in Project /\ q # None
      BY <2>1, <1>t, ProjectOfCall, ConstantsAssumption DEF GitInv
    <3>1. CASE e = d
      <4>1. o = p
        BY <2>1, <3>1
      <4>2. lock[p] = q \/ (lock[p] # None /\ \E i \in 1..Len(queue[p]) : queue[p][i] = q)
        BY <2>1, <4>1 DEF LineInv, RunnersInLine
      <4>3. lock'[p] = lock[p] /\ lock[p] # d
        BY <1>t, <1>a, <1>n, <3>0, <4>2
      <4>4. ASSUME NEW j \in 1..Len(queue'[p]), queue'[p][j] = d
            PROVE  lock'[p] = q \/ \E i \in 1..(j - 1) : queue'[p][i] = q
        <5>1. j = Len(queue[p]) + 1
          BY <1>t, <1>a, <1>n, <4>2, <4>3, <4>4, <3>0
        <5>. QED  BY <1>t, <1>a, <4>2, <4>3, <5>1, <3>0
      <4>. QED  BY <3>1, <4>1, <4>3, <4>4 DEF Behind, AtLock
    <3>2. CASE e # d
      <4>1. del'[e] = del[e] /\ e # None
        BY <3>2, ConstantsAssumption
      <4>2. del[e].pc # "remove" /\ (del[e].pc = "lock" => Behind(e, q))
        BY <2>1, <4>1 DEF LineInv, DeleteWaitsForJob
      <4>3. ASSUME Behind(e, q)
            PROVE  Behind(e, q)'
        <5>1. CASE o # p
          BY <1>a, <3>0, <4>3, <5>1 DEF Behind
        <5>2. CASE o = p
          <6>1. lock'[p] # e
            BY <1>a, <1>t, <3>2, <4>3, <5>2 DEF Behind
          <6>2. ASSUME NEW j \in 1..Len(queue'[p]), queue'[p][j] = e
                PROVE  lock'[p] = q \/ \E i \in 1..(j - 1) : queue'[p][i] = q
            <7>1. j \in 1..Len(queue[p]) /\ queue[p][j] = e
              BY <1>a, <1>t, <3>2, <6>2
            <7>2. lock[p] = q \/ \E i \in 1..(j - 1) : queue[p][i] = q
              BY <4>3, <5>2, <7>1 DEF Behind
            <7>4. \A i \in 1..(j - 1) : i \in 1..Len(queue[p])
              BY <1>a, <1>t, <7>1
            <7>. QED  BY <1>a, <1>t, <3>0, <7>2, <7>4
          <6>. QED  BY <5>2, <6>1, <6>2 DEF Behind
        <5>. QED  BY <5>1, <5>2
      <4>. QED  BY <4>1, <4>2, <4>3
    <3>. QED  BY <3>1, <3>2
  <2>. QED  BY <2>1 DEF DeleteWaitsForJob
<1>. QED  BY <1>1, <1>2, <1>3 DEF LineFacts

\* The holder t leaves and hands the lock to the head of the line.
LEMMA HolderLeaves ==
  ASSUME LineInv, NEW p \in Project, NEW t \in Runner \cup Deleter,
         lock[p] = t, Release(p), raced \subseteq raced',
         \A r \in Runner : run'[r].pc = "lock" =>
           r # t /\ run[r].pc = "lock" /\ run'[r].ws = run[r].ws,
         \A d \in Deleter \ {t} : del'[d] = del[d],
         t \in Deleter => del'[t].pc \notin AtLock \cup DelGit
  PROVE  LineFacts'
<1>t. TypeOK /\ GitInv /\ t # None /\ Len(queue[p]) \in Nat
  BY ConstantsAssumption DEF LineInv, GitInv, TypeOK
<1>a. /\ \A q \in Project \ {p} : lock'[q] = lock[q] /\ queue'[q] = queue[q]
      /\ \/ Len(queue[p]) = 0 /\ lock'[p] = None /\ queue'[p] = queue[p]
         \/ /\ Len(queue[p]) \in Nat \ {0} /\ Len(queue'[p]) = Len(queue[p]) - 1
            /\ lock'[p] = queue[p][1] /\ lock'[p] # None
            /\ \A i \in 1..(Len(queue[p]) - 1) : queue'[p][i] = queue[p][i + 1]
  BY <1>t, ReleaseLine
\* The place of whoever is in the line of p, one step further.
<1>s. /\ \A i \in 1..Len(queue'[p]) : i + 1 \in 1..Len(queue[p]) /\ queue'[p][i] = queue[p][i + 1]
      /\ \A i \in 1..Len(queue[p]) : i # 1 => i - 1 \in 1..Len(queue'[p]) /\ queue'[p][i - 1] = queue[p][i]
      /\ \A u \in Runner \cup Deleter : lock'[p] = u => 1 \in 1..Len(queue[p]) /\ queue[p][1] = u
  <2>1. CASE Len(queue[p]) = 0
    BY <1>a, <2>1, ConstantsAssumption
  <2>2. CASE Len(queue[p]) # 0
    BY <1>t, <1>a, <2>2
  <2>. QED  BY <2>1, <2>2
<1>1. DeletersInLine'
  <2>. SUFFICES ASSUME NEW d \in Deleter, NEW q \in Project
                PROVE  /\ lock'[q] = d => /\ q = ProjectOf[del'[d].ws]
                                          /\ del'[d].pc \in AtLock \cup DelGit
                                          /\ \A i \in 1..Len(queue'[q]) : queue'[q][i] # d
                       /\ \A i \in 1..Len(queue'[q]) :
                            queue'[q][i] = d => q = ProjectOf[del'[d].ws] /\ del'[d].pc \in AtLock
                       /\ \A i, j \in 1..Len(queue'[q]) : queue'[q][i] = d /\ queue'[q][j] = d => i = j
    BY DEF DeletersInLine
  <2>o. /\ \A o \in Project : lock[o] = d =>
             /\ o = ProjectOf[del[d].ws] /\ del[d].pc \in AtLock \cup DelGit
             /\ \A i \in 1..Len(queue[o]) : queue[o][i] # d
        /\ \A o \in Project : \A i \in 1..Len(queue[o]) :
             queue[o][i] = d => o = ProjectOf[del[d].ws] /\ del[d].pc \in AtLock
        /\ \A o \in Project : \A i, j \in 1..Len(queue[o]) :
             queue[o][i] = d /\ queue[o][j] = d => i = j
    BY DEF LineInv, DeletersInLine
  <2>1. CASE d = t
    <3>1. \A o \in Project : \A i \in 1..Len(queue[o]) : queue[o][i] # d
      BY <2>1, <2>o
    <3>2. lock'[q] # d
      <4>1. CASE q = p
        BY <1>s, <3>1, <4>1
      <4>2. CASE q # p
        BY <1>a, <2>1, <2>o, <4>2
      <4>. QED  BY <4>1, <4>2
    <3>3. \A i \in 1..Len(queue'[q]) : queue'[q][i] # d
      BY <1>a, <1>s, <3>1
    <3>. QED  BY <3>2, <3>3
  <2>2. CASE d # t /\ q # p
    BY <1>a, <2>2, <2>o
  <2>3. CASE d # t /\ q = p
    <3>1. ASSUME lock'[p] = d
          PROVE  /\ p = ProjectOf[del'[d].ws] /\ del'[d].pc \in AtLock
                 /\ \A i \in 1..Len(queue'[p]) : queue'[p][i] # d
      <4>1. 1 \in 1..Len(queue[p]) /\ queue[p][1] = d
        BY <1>s, <3>1
      <4>2. \A i \in 1..Len(queue'[p]) : i + 1 # 1
        BY <1>t
      <4>. QED  BY <1>s, <2>3, <2>o, <4>1, <4>2
    <3>2. \A i \in 1..Len(queue'[p]) :
            queue'[p][i] = d => p = ProjectOf[del'[d].ws] /\ del'[d].pc \in AtLock
      BY <1>s, <2>3, <2>o
    <3>3. ASSUME NEW i \in 1..Len(queue'[p]), NEW j \in 1..Len(queue'[p]),
                 queue'[p][i] = d, queue'[p][j] = d
          PROVE  i = j
      <4>1. /\ i + 1 \in 1..Len(queue[p]) /\ queue[p][i + 1] = d
            /\ j + 1 \in 1..Len(queue[p]) /\ queue[p][j + 1] = d
        BY <1>s, <3>3
      <4>2. i + 1 = j + 1
        BY <2>o, <4>1
      <4>. QED  BY <4>2
    <3>. QED  BY <2>3, <3>1, <3>2, <3>3
  <2>. QED  BY <2>1, <2>2, <2>3
<1>2. RunnersInLine'
  <2>1. ASSUME NEW r \in Runner, run'[r].pc = "lock"
        PROVE  \/ lock'[ProjectOf[run'[r].ws]] = r
               \/ /\ lock'[ProjectOf[run'[r].ws]] # None
                  /\ \E i \in 1..Len(queue'[ProjectOf[run'[r].ws]]) :
                       queue'[ProjectOf[run'[r].ws]][i] = r
    <3>. DEFINE o == ProjectOf[run[r].ws]
    <3>1. r # t /\ run[r].pc = "lock" /\ run'[r].ws = run[r].ws /\ o \in Project
      BY <2>1, <1>t, ProjectOfCall DEF GitInv
    <3>2. lock[o] = r \/ (lock[o] # None /\ \E i \in 1..Len(queue[o]) : queue[o][i] = r)
      BY <3>1 DEF LineInv, RunnersInLine
    <3>3. CASE o # p
      BY <1>a, <3>1, <3>2, <3>3
    <3>4. CASE o = p
      <4>1. PICK i \in 1..Len(queue[p]) : queue[p][i] = r
        BY <3>1, <3>2, <3>4
      <4>2. lock'[p] # None
        BY <1>a, <4>1
      <4>3. CASE i = 1
        BY <1>a, <1>t, <3>1, <3>4, <4>1, <4>3
      <4>4. CASE i # 1
        BY <1>s, <3>1, <3>4, <4>1, <4>2, <4>4
      <4>. QED  BY <4>3, <4>4
    <3>. QED  BY <3>3, <3>4
  <2>. QED  BY <2>1 DEF RunnersInLine
<1>3. DeleteWaitsForJob'
  <2>1. ASSUME NEW d \in Deleter, NEW r \in Runner,
               run'[r].pc = "lock", run'[r].ws = del'[d].ws, run'[r].ws \notin raced'
        PROVE  del'[d].pc # "remove" /\ (del'[d].pc = "lock" => Behind(d, r)')
    <3>. DEFINE o == ProjectOf[run[r].ws]
    <3>1. r # t /\ run[r].pc = "lock" /\ run'[r].ws = run[r].ws /\ o \in Project
      BY <2>1, <1>t, ProjectOfCall DEF GitInv
    <3>2. CASE d = t
      BY <3>2 DEF AtLock, DelGit
    <3>3. CASE d # t
      <4>1. del'[d] = del[d]
        BY <3>3
      <4>2. del[d].pc # "remove" /\ (del[d].pc = "lock" => Behind(d, r))
        BY <2>1, <3>1, <4>1 DEF LineInv, DeleteWaitsForJob
      <4>3. ASSUME Behind(d, r)
            PROVE  Behind(d, r)'
        <5>1. CASE o # p
          BY <1>a, <3>1, <4>3, <5>1 DEF Behind
        <5>2. CASE o = p
          <6>0. \A j \in 1..Len(queue[p]) : queue[p][j] = d => \E i \in 1..(j - 1) : queue[p][i] = r
            BY <3>1, <4>3, <5>2 DEF Behind
          <6>1. lock'[p] # d
            <7>1. SUFFICES ASSUME lock'[p] = d PROVE FALSE
              OBVIOUS
            <7>2. 1 \in 1..Len(queue[p]) /\ queue[p][1] = d
              BY <1>s, <7>1
            <7>. QED  BY <6>0, <7>2
          <6>2. ASSUME NEW j \in 1..Len(queue'[p]), queue'[p][j] = d
                PROVE  lock'[p] = r \/ \E i \in 1..(j - 1) : queue'[p][i] = r
            <7>1. j + 1 \in 1..Len(queue[p]) /\ queue[p][j + 1] = d
              BY <1>s, <6>2
            <7>2. PICK i \in 1..j : queue[p][i] = r
              BY <6>0, <7>1
            <7>3. i \in 1..Len(queue[p])
              BY <1>t, <7>1
            <7>4. CASE i = 1
              BY <1>a, <1>t, <7>1, <7>2, <7>4
            <7>5. CASE i # 1
              <8>1. i - 1 \in 1..(j - 1) /\ queue'[p][i - 1] = r
                BY <1>s, <7>2, <7>3, <7>5
              <8>. QED  BY <8>1
            <7>. QED  BY <7>4, <7>5
          <6>. QED  BY <3>1, <5>2, <6>1, <6>2 DEF Behind
        <5>. QED  BY <5>1, <5>2
      <4>. QED  BY <4>1, <4>2, <4>3
    <3>. QED  BY <3>2, <3>3
  <2>. QED  BY <2>1 DEF DeleteWaitsForJob
<1>. QED  BY <1>1, <1>2, <1>3 DEF LineFacts

\* What the steps of a job do, as far as the lock, the tables and the directories
\* are concerned: the job joins the line, goes on or hands the lock over.
\* A job begins at the path of its call, which is in the record unless it is gone.
JobBegins(r) ==
  LET w == run[r].ws IN
  /\ run[r].pc \in {"inserted", "checked"} /\ run'[r].pc = "lock"
  /\ Acquire(ProjectOf[w], r) /\ StartJob(r, w, run'[r].path, "pending")
  /\ disk' = disk /\ \A v \in Workspace \ {w} : path'[v] = path[v]
  /\ w \notin record => path' = path

InPlace(r) == path' = path /\ lost' = lost /\ run'[r].path = run[r].path

JobStep(r) ==
  LET p == ProjectOf[run[r].ws] IN
  /\ del' = del /\ row' = row /\ record' = record
  /\ \A q \in Runner \ {r} : run'[q] = run[q]
  /\ run'[r].ws = run[r].ws
  /\ \/ disk' \subseteq disk
     \/ run[r].pc = "create" /\ disk' \subseteq disk \cup {JobDir(r)}
  /\ JobBegins(r) \/ InPlace(r)
  /\ \/ JobBegins(r)
     \/ /\ UNCHANGED locks /\ raced' = raced /\ run'[r].pc # "lock"
        /\ run[r].pc \in {"inserted", "checked", "repo"} => run'[r].pc = "done"
     \/ /\ run[r].pc \in RunGit \cup {"lock"} /\ run'[r].pc = "done"
        /\ lock[p] = r /\ Release(p) /\ raced' = raced

LEMMA RunStepIsJobStep ==
  ASSUME GitInv, NEW r \in Runner, RunStep(r)
  PROVE  JobStep(r) /\ run[r].pc \notin {"idle", "done"}
<1>. DEFINE w == run[r].ws
<1>t. TypeOK /\ HasWorkspace
  BY DEF GitInv
<1>i. run[r].pc \notin {"idle", "done"}
  BY DEF RunStep, NextOf, CreateStart, CreateThrows, RetryStart, RetryThrows, InitLocked,
         InitCancelledAtLock, ConfigDone, ConfigDoneAdopt, Advance, AdvanceCancelled,
         NoReference, WorktreeCreated, Throw, CleanupDone, UndoDone, RepoReady, RepoFails
<1>h. run[r].pc \in RunGit => lock[ProjectOf[w]] = r
  BY GitByKind DEF GitInv
<1>g. ASSUME NEW loc, Goto(r, loc)
      PROVE  /\ \A q \in Runner \ {r} : run'[q] = run[q]
             /\ run'[r].ws = w /\ run'[r].pc = loc /\ run'[r].path = run[r].path
  BY <1>g, <1>t DEF Goto, TypeOK
<1>f. ASSUME Finish(r), lock[ProjectOf[w]] = r, del' = del, row' = row, record' = record,
             \/ disk' \subseteq disk
             \/ run[r].pc = "create" /\ disk' \subseteq disk \cup {JobDir(r)},
             UNCHANGED <<path, raced, lost>>, run[r].pc \in RunGit \cup {"lock"}
      PROVE  JobStep(r)
  BY <1>f, <1>g DEF Finish, JobStep, InPlace
<1>o. ASSUME NEW loc, Goto(r, loc), del' = del, row' = row, record' = record,
             \/ disk' \subseteq disk
             \/ run[r].pc = "create" /\ disk' \subseteq disk \cup {JobDir(r)},
             UNCHANGED locks, UNCHANGED <<path, raced, lost>>, loc # "lock",
             run[r].pc \in {"inserted", "checked", "repo"} => loc = "done"
      PROVE  JobStep(r)
  BY <1>o, <1>g DEF JobStep, InPlace
<1>1. CASE CreateStart(r)
  <2>1. JobBegins(r)
    BY <1>1, <1>g DEF CreateStart, JobBegins, table
  <2>. QED  BY <1>1, <1>g, <2>1 DEF CreateStart, JobStep, table
<1>2. CASE CreateThrows(r)
  BY <1>2, <1>o
     DEF CreateThrows, table, history
<1>3. ASSUME NEW p \in Path, RetryStart(r, p)
      PROVE  JobStep(r)
  <2>1. /\ \A q \in Runner \ {r} : run'[q] = run[q]
        /\ run'[r].ws = w /\ run'[r].pc = "lock" /\ run'[r].path = p
    BY <1>3, <1>t DEF RetryStart, TypeOK
  <2>2. /\ \A v \in Workspace \ {w} : path'[v] = path[v]
        /\ w \notin record => path' = path
    BY <1>3, <1>t DEF RetryStart, MoveRecord, TypeOK
  <2>3. JobBegins(r)
    BY <1>3, <2>1, <2>2 DEF RetryStart, JobBegins
  <2>. QED  BY <1>3, <2>1, <2>3 DEF RetryStart, JobStep
<1>17. CASE RetryThrows(r)
  BY <1>17, <1>o
     DEF RetryThrows, table, history
<1>4. CASE InitLocked(r)
  BY <1>4, <1>o
     DEF InitLocked, table, history
<1>5. CASE InitCancelledAtLock(r)
  BY <1>5, <1>f
     DEF InitCancelledAtLock, table, history
<1>6. CASE ConfigDone(r)
  BY <1>6, <1>o
     DEF ConfigDone, table, history
<1>7. CASE ConfigDoneAdopt(r)
  BY <1>7, <1>h, <1>f, <1>o
     DEF ConfigDoneAdopt, Ready, StatusThrows, Fail, CleanUp, RunGit, table, history
<1>8. CASE Advance(r)
  BY <1>8, <1>o
     DEF Advance, NextOf, table, history
<1>9. CASE AdvanceCancelled(r)
  BY <1>9, <1>h, <1>f
     DEF AdvanceCancelled, RunGit, NextOf, table, history
<1>10. CASE NoReference(r)
  BY <1>10, <1>h, <1>f
     DEF NoReference, Fail, RunGit, table, history
<1>11. CASE WorktreeCreated(r)
  BY <1>11, <1>h, <1>f, <1>o
     DEF WorktreeCreated, Ready, StatusThrows, Fail, CleanUp, RunGit
<1>12. CASE Throw(r)
  BY <1>12, <1>h, <1>f, <1>o
     DEF Throw, Fail, RunGit
<1>13. CASE CleanupDone(r)
  BY <1>13, <1>h, <1>f
     DEF CleanupDone, RunGit, history
<1>14. CASE UndoDone(r)
  BY <1>14, <1>h, <1>f
     DEF UndoDone, Fail, RunGit, history
<1>15. CASE RepoReady(r)
  BY <1>15, <1>o
     DEF RepoReady, table, history
<1>16. CASE RepoFails(r)
  BY <1>16, <1>o
     DEF RepoFails, history
<1>. QED  BY <1>i, <1>1, <1>2, <1>3, <1>4, <1>5, <1>6, <1>7, <1>8, <1>9, <1>10, <1>11, <1>12, <1>13, <1>14, <1>15, <1>16, <1>17 DEF RunStep

LEMMA RunStepLine ==
  ASSUME LineInv, NEW r \in Runner, RunStep(r)
  PROVE  LineFacts'
<1>. DEFINE p == ProjectOf[run[r].ws]
<1>t. GitInv /\ TypeOK /\ HasWorkspace /\ JobStep(r) /\ run[r].pc # "idle"
  BY RunStepIsJobStep DEF LineInv, GitInv
<1>w. run[r].ws \in Workspace /\ p \in Project
  BY <1>t, ProjectOfCall
<1>b. JobBegins(r) => run'[r].pc = "lock"
  BY DEF JobBegins
<1>1. CASE run'[r].pc = "lock"
  <2>1. \A d \in Deleter : Deleting(d) /\ del[d].ws = run[r].ws => run[r].ws \in raced'
    BY <1>1, <1>t DEF JobStep, JobBegins, StartJob, Overlaps, DeletingOf
  <2>2. raced \subseteq raced'
    BY <1>1, <1>t DEF JobStep, JobBegins, StartJob
  <2>. QED  BY <1>1, <1>t, <1>w, <2>1, <2>2, RunnerJoins DEF JobStep, JobBegins, Early
<1>2. CASE UNCHANGED locks /\ run'[r].pc # "lock" /\ raced' = raced
  BY <1>2, <1>t, LineStays DEF JobStep
<1>3. CASE run'[r].pc = "done" /\ lock[p] = r /\ Release(p) /\ raced' = raced
  BY <1>3, <1>t, <1>w, HolderLeaves, ConstantsAssumption DEF JobStep
<1>. QED  BY <1>1, <1>2, <1>3, <1>b, <1>t DEF JobStep

LEMMA DelStepLine ==
  ASSUME LineInv, NEW d \in Deleter, DelStep(d)
  PROVE  LineFacts'
<1>. DEFINE w == del[d].ws
<1>t. GitInv /\ TypeOK /\ HasWorkspace
  BY DEF LineInv, GitInv
<1>i. del[d].pc # "idle"
  BY DEF DelStep, WaitDone, WaitTimeout, TeardownFails, TeardownDone, DeleteLocked,
         RemoveDone, RemoveFails, DeleteDone, CloseDone, DeleteWorktreeLocked,
         DeleteWorktreeDone, DeleteWorktreeFails
<1>w. w \in Workspace /\ ProjectOf[w] \in Project
  BY <1>i, <1>t, ProjectOfCall
<1>h. del[d].pc \in DelGit => lock[ProjectOf[w]] = d
  BY <1>t, GitByKind DEF GitInv
<1>g. ASSUME NEW loc, DelGoto(d, loc)
      PROVE  /\ \A e \in Deleter \ {d} : del'[e] = del[e]
             /\ del'[d].ws = w /\ del'[d].pc = loc
  BY <1>g, <1>t DEF DelGoto, TypeOK
<1>k. ASSUME ToTeardown(d, w)
      PROVE  /\ \A e \in Deleter \ {d} : del'[e] = del[e]
             /\ del'[d].pc \in {"teardown", "kill"}
  BY <1>k, <1>t, <1>w, ToTeardownType
<1>o. ASSUME \A e \in Deleter \ {d} : del'[e] = del[e], run' = run, raced' = raced,
             UNCHANGED locks, del[d].pc \notin AtLock \cup DelGit,
             del'[d].pc \notin AtLock \cup DelGit
      PROVE  LineFacts'
  BY <1>o, LineStays
<1>f. ASSUME DelGoto(d, "done") \/ DelGoto(d, "branch"), run' = run, raced \subseteq raced',
             del[d].pc \in DelGit, Release(ProjectOf[w])
      PROVE  LineFacts'
  BY <1>f, <1>g, <1>h, <1>w, HolderLeaves, ConstantsAssumption DEF AtLock, DelGit
<1>1. CASE WaitDone(d)
  BY <1>1, <1>k, <1>o
     DEF WaitDone, AtLock, DelGit, history
<1>2. CASE WaitTimeout(d)
  BY <1>2, <1>k, <1>o
     DEF WaitTimeout, AtLock, DelGit, history
<1>3. CASE TeardownFails(d)
  BY <1>3, <1>g, <1>o
     DEF TeardownFails, AtLock, DelGit, history
<1>4. CASE TeardownDone(d)
  BY <1>4, <1>g, <1>o, <1>w, DeleterJoins
     DEF TeardownDone, AtLock, DelGit, history
<1>5. CASE DeleteLocked(d)
  BY <1>5, <1>g, LineStays
     DEF DeleteLocked, history
<1>6. CASE RemoveDone(d)
  BY <1>6, <1>f
     DEF RemoveDone, DelGit, history
<1>7. CASE RemoveFails(d)
  BY <1>7, <1>f
     DEF RemoveFails, DelGit, history
<1>8. CASE DeleteDone(d)
  BY <1>8, <1>g, <1>o
     DEF DeleteDone, AtLock, DelGit, history
<1>9. CASE CloseDone(d)
  BY <1>9, <1>g, <1>o
     DEF CloseDone, AtLock, DelGit, history
<1>10. CASE DeleteWorktreeLocked(d)
  BY <1>10, <1>g, LineStays
     DEF DeleteWorktreeLocked, history
<1>11. CASE DeleteWorktreeDone(d)
  BY <1>11, <1>f
     DEF DeleteWorktreeDone, DelGit
<1>12. CASE DeleteWorktreeFails(d)
  BY <1>12, <1>f
     DEF DeleteWorktreeFails, DelGit, history
<1>. QED  BY <1>1, <1>2, <1>3, <1>4, <1>5, <1>6, <1>7, <1>8, <1>9, <1>10, <1>11, <1>12 DEF DelStep

LEMMA UserStepLine ==
  ASSUME LineInv, NEW w \in Workspace, UserStep(w)
  PROVE  LineFacts'
<1>t. GitInv /\ TypeOK /\ HasWorkspace /\ ProjectOf[w] \in Project
  BY ConstantsAssumption DEF LineInv, GitInv
<1>1. ASSUME NEW r \in Runner, NEW mode \in Mode, CreateRow(r, w, mode)
      PROVE  LineFacts'
  BY <1>1, <1>t, LineStays DEF CreateRow, TypeOK
<1>2. ASSUME NEW r \in Runner, RetryCheck(r, w)
      PROVE  LineFacts'
  BY <1>2, <1>t, LineStays DEF RetryCheck, TypeOK, history
<1>3. ASSUME NEW r \in Runner, RepoStart(r, w)
      PROVE  LineFacts'
  BY <1>3, <1>t, LineStays DEF RepoStart, StartJob, TypeOK
<1>4. ASSUME NEW d \in Deleter, DeleteStart(d, w)
      PROVE  LineFacts'
  <2>1. /\ \A e \in Deleter \ {d} : del'[e] = del[e]
        /\ del'[d].pc \notin AtLock \cup DelGit
    <3>1. CASE ToTeardown(d, w)
      BY <3>1, <1>t, ToTeardownType DEF AtLock, DelGit
    <3>2. CASE del' = [del EXCEPT ![d] = [ws |-> w, path |-> None, token |-> promise[w],
                                          rec |-> FALSE, pc |-> "wait"]]
      BY <3>2, <1>t DEF TypeOK, AtLock, DelGit
    <3>. QED  BY <1>4, <3>1, <3>2 DEF DeleteStart, CancelAndWait
  <2>. QED  BY <1>4, <2>1, LineStays DEF DeleteStart, AtLock, DelGit
<1>5. ASSUME NEW d \in Deleter, CloseStart(d, w)
      PROVE  LineFacts'
  BY <1>5, <1>t, LineStays DEF CloseStart, TypeOK, AtLock, DelGit, history
<1>6. ASSUME NEW d \in Deleter, DeleteWorktreeStart(d, w)
      PROVE  LineFacts'
  <2>1. /\ \A e \in Deleter \ {d} : del'[e] = del[e]
        /\ del'[d].ws = w /\ del'[d].pc = "wtLock"
    BY <1>6, <1>t DEF DeleteWorktreeStart, TypeOK
  <2>. QED  BY <1>6, <2>1, DeleterJoins DEF DeleteWorktreeStart, AtLock, DelGit, history
<1>. QED  BY <1>1, <1>2, <1>3, <1>4, <1>5, <1>6 DEF UserStep, AgentCreate, AgentRetry

LEMMA LineNext == LineInv /\ [Next]_vars => LineInv'
<1>. SUFFICES ASSUME LineInv, [Next]_vars PROVE LineInv'
  OBVIOUS
<1>1. GitInv'
  BY GitNext DEF LineInv
<1>2. LineFacts'
  <2>1. CASE UNCHANGED vars
    BY <2>1, LineStays DEF vars, locks
  <2>2. ASSUME NEW w \in Workspace, ReadyTimer(w) PROVE LineFacts'
    BY <2>2, LineStays DEF ReadyTimer, locks, history
  <2>3. CASE Restart
    <3>1. /\ \A p \in Project : lock'[p] = None /\ queue'[p] = <<>>
          /\ \A r \in Runner : run'[r].pc # "lock"
      BY <2>3 DEF Restart
    <3>2. Len(<<>>) = 0
      OBVIOUS
    <3>. QED  BY <3>1, <3>2, ConstantsAssumption
              DEF LineFacts, DeletersInLine, RunnersInLine, DeleteWaitsForJob
  <2>. QED  BY <2>1, <2>2, <2>3, UserStepLine, RunStepLine, DelStepLine DEF Next
<1>. QED  BY <1>1, <1>2 DEF LineInv, LineFacts

LEMMA LineInit == Init => LineInv
<1>. SUFFICES ASSUME Init PROVE LineInv
  OBVIOUS
<1>1. Len(<<>>) = 0
  OBVIOUS
<1>2. LineFacts
  BY <1>1, ConstantsAssumption
     DEF Init, LineFacts, DeletersInLine, RunnersInLine, DeleteWaitsForJob
<1>. QED  BY <1>2, GitInit DEF LineInv, LineFacts

------------------------------------------------------------------------------
(* Where directories, jobs and removals are                                *)
(*                                                                         *)
(* Only a retry to a deduplicated branch changes the path in a record, and *)
(* only when it starts its job: from then on what is at the old path is    *)
(* lost.  So a directory is at the path in the record or lost, and a job   *)
(* or a removal has the path in the record, unless jobs overlapped.        *)

\* A record has a row, and a row that was never inserted has the first path.
RecordHasRow == \A w \in Workspace : row[w] = "none" => w \notin record
FreshPath == \A w \in Workspace : row[w] = "none" => path[w] = FirstPath[w]

DiskInPlace ==
  \A w \in Workspace \ raced, p \in Path :
    <<w, p>> \in disk => p = path[w] \/ <<w, p>> \in lost

JobsInPlace ==
  \A r \in Runner :
    Working(r) /\ run[r].ws \notin raced => run[r].path = path[run[r].ws]

\* The calls that remove and have read the record.
RemovalPC == {"teardown", "kill", "lock", "remove", "wtLock", "wtRemove"}

RemovalsInPlace ==
  \A d \in Deleter :
    del[d].pc \in RemovalPC /\ del[d].ws \notin raced => del[d].path = path[del[d].ws]

PlaceFacts == RecordHasRow /\ FreshPath /\ DiskInPlace /\ JobsInPlace /\ RemovalsInPlace
PlaceInv == GitInv /\ PlaceFacts

LEMMA RunStepPlace ==
  ASSUME PlaceInv, NEW r \in Runner, RunStep(r)
  PROVE  PlaceFacts'
<1>. DEFINE w == run[r].ws
<1>t. GitInv /\ TypeOK /\ HasWorkspace /\ JobStep(r) /\ run[r].pc \notin {"idle", "done"}
  BY RunStepIsJobStep DEF PlaceInv, GitInv
<1>w. w \in Workspace
  BY <1>t, ProjectOfCall
<1>1. RecordHasRow'
  BY <1>t DEF JobStep, PlaceInv, PlaceFacts, RecordHasRow
<1>2. CASE JobBegins(r)
  <2>1. /\ del' = del /\ row' = row /\ disk' = disk /\ run'[r].ws = w
        /\ \A q \in Runner \ {r} : run'[q] = run[q]
        /\ \A v \in Workspace \ {w} : path'[v] = path[v]
        /\ StartJob(r, w, run'[r].path, "pending")
    BY <1>2, <1>t DEF JobStep, JobBegins
  <2>2. raced \subseteq raced'
    BY <2>1 DEF StartJob
  <2>3. w \notin raced' => ~Overlaps(w, run'[r].path)
    BY <2>1, <1>w DEF StartJob
  <2>4. FreshPath'
    BY <1>2, <2>1, <1>1 DEF JobBegins, PlaceInv, PlaceFacts, FreshPath, RecordHasRow
  <2>5. DiskInPlace'
    <3>1. ASSUME NEW v \in Workspace \ {w}, NEW p \in Path, <<v, p>> \in lost
          PROVE  <<v, p>> \in lost'
      BY <2>1, <3>1 DEF StartJob
    <3>2. ASSUME NEW p \in Path, <<w, p>> \in disk, w \notin raced'
          PROVE  p = path'[w] \/ <<w, p>> \in lost'
      <4>1. path'[w] = run'[r].path
        BY <2>3, <3>2 DEF Overlaps
      <4>. QED  BY <2>1, <3>2, <4>1 DEF StartJob
    <3>. QED  BY <2>1, <2>2, <3>1, <3>2 DEF PlaceInv, PlaceFacts, DiskInPlace
  <2>6. JobsInPlace'
    <3>1. ASSUME NEW q \in Runner \ {r}, Working(q)', run'[q].ws \notin raced'
          PROVE  run'[q].path = path'[run'[q].ws]
      <4>1. Working(q) /\ run'[q] = run[q]
        BY <2>1, <3>1 DEF Working
      <4>2. run[q].ws \in Workspace
        BY <4>1, <1>t, ProjectOfCall DEF Working
      <4>3. run[q].ws # w
        BY <2>3, <3>1, <4>1 DEF Overlaps, WorkingOn
      <4>. QED  BY <2>1, <2>2, <3>1, <4>1, <4>2, <4>3
                DEF PlaceInv, PlaceFacts, JobsInPlace
    <3>2. run'[r].ws \notin raced' => run'[r].path = path'[run'[r].ws]
      BY <2>1, <2>3 DEF Overlaps
    <3>. QED  BY <3>1, <3>2 DEF JobsInPlace
  <2>7. RemovalsInPlace'
    <3>1. ASSUME NEW d \in Deleter, del[d].pc \in RemovalPC, del[d].ws \notin raced'
          PROVE  del[d].path = path'[del[d].ws]
      <4>1. del[d].ws # w
        BY <2>3, <3>1 DEF Overlaps, DeletingOf, Deleting, DeletingWorktree, RemovalPC
      <4>2. del[d].ws \in Workspace
        BY <3>1, <1>t, ProjectOfCall DEF RemovalPC
      <4>. QED  BY <2>1, <2>2, <3>1, <4>1, <4>2 DEF PlaceInv, PlaceFacts, RemovalsInPlace
    <3>. QED  BY <2>1, <3>1 DEF RemovalsInPlace
  <2>. QED  BY <1>1, <2>4, <2>5, <2>6, <2>7 DEF PlaceFacts
<1>3. CASE ~JobBegins(r)
  <2>1. /\ InPlace(r) /\ raced' = raced /\ del' = del /\ row' = row /\ run'[r].ws = w
        /\ \A q \in Runner \ {r} : run'[q] = run[q]
        /\ Working(r)' => Working(r)
    BY <1>3, <1>t DEF JobStep, Working, RunGit
  <2>2. FreshPath' /\ RemovalsInPlace'
    BY <2>1 DEF InPlace, PlaceInv, PlaceFacts, FreshPath, RemovalsInPlace
  <2>3. JobsInPlace'
    BY <2>1 DEF InPlace, PlaceInv, PlaceFacts, JobsInPlace, Working
  <2>4. DiskInPlace'
    <3>1. CASE disk' \subseteq disk
      BY <2>1, <3>1 DEF InPlace, PlaceInv, PlaceFacts, DiskInPlace
    <3>2. CASE run[r].pc = "create" /\ disk' \subseteq disk \cup {JobDir(r)}
      <4>1. w \notin raced => run[r].path = path[w]
        BY <3>2 DEF Working, PlaceInv, PlaceFacts, JobsInPlace
      <4>. QED  BY <2>1, <3>2, <4>1 DEF InPlace, JobDir, PlaceInv, PlaceFacts, DiskInPlace
    <3>. QED  BY <1>t, <3>1, <3>2 DEF JobStep
  <2>. QED  BY <1>1, <2>2, <2>3, <2>4 DEF PlaceFacts
<1>. QED  BY <1>2, <1>3

\* The steps that start no job.
LEMMA PlaceStays ==
  ASSUME PlaceInv, UNCHANGED <<path, lost>>, raced \subseteq raced', disk' \subseteq disk,
         \A w \in Workspace : row'[w] = "none" =>
            row[w] = "none" /\ (w \in record' => w \in record),
         \A r \in Runner : Working(r)' =>
            Working(r) /\ run'[r].ws = run[r].ws /\ run'[r].path = run[r].path
  PROVE  RecordHasRow' /\ FreshPath' /\ DiskInPlace' /\ JobsInPlace'
BY DEF PlaceInv, PlaceFacts, RecordHasRow, FreshPath, DiskInPlace, JobsInPlace

LEMMA DelStepPlace ==
  ASSUME PlaceInv, NEW d \in Deleter, DelStep(d)
  PROVE  PlaceFacts'
<1>. DEFINE w == del[d].ws
<1>t. TypeOK /\ HasWorkspace
  BY DEF PlaceInv, GitInv
<1>1. /\ UNCHANGED <<path, lost, run>> /\ raced \subseteq raced' /\ disk' \subseteq disk
      /\ record' \subseteq record /\ del[d].pc # "idle"
  BY DEF DelStep, WaitDone, WaitTimeout, TeardownFails, TeardownDone, DeleteLocked,
     RemoveDone, RemoveFails, DeleteDone, CloseDone, DeleteWorktreeLocked,
     DeleteWorktreeDone, DeleteWorktreeFails, table, history
<1>2. row' = row \/ Unhide(w) \/ \E s \in {"deleted", "closed"} : row' = [row EXCEPT ![w] = s]
  BY DEF DelStep, WaitDone, WaitTimeout, TeardownFails, TeardownDone, DeleteLocked,
     RemoveDone, RemoveFails, DeleteDone, CloseDone, DeleteWorktreeLocked,
     DeleteWorktreeDone, DeleteWorktreeFails, table
<1>3. \A v \in Workspace : row'[v] = "none" => row[v] = "none"
  BY <1>2, <1>t DEF Unhide, TypeOK
<1>4. RecordHasRow' /\ FreshPath' /\ DiskInPlace' /\ JobsInPlace'
  BY <1>1, <1>3, PlaceStays DEF Working
<1>5. \/ ToTeardown(d, w)
      \/ \E loc \in {"done", "lock", "branch"} : DelGoto(d, loc) /\ (loc = "lock" => del[d].pc \in RemovalPC)
      \/ DelGoto(d, "remove") /\ del[d].pc \in RemovalPC
      \/ DelGoto(d, "wtRemove") /\ del[d].pc \in RemovalPC
  BY DEF DelStep, WaitDone, WaitTimeout, TeardownFails, TeardownDone, DeleteLocked,
     RemoveDone, RemoveFails, DeleteDone, CloseDone, DeleteWorktreeLocked,
     DeleteWorktreeDone, DeleteWorktreeFails, RemovalPC
<1>6. RemovalsInPlace'
  <2>1. CASE ToTeardown(d, w)
    BY <2>1, <1>1, <1>t DEF ToTeardown, PlaceInv, PlaceFacts, RemovalsInPlace, TypeOK
  <2>2. ASSUME NEW loc, DelGoto(d, loc), loc \in RemovalPC => del[d].pc \in RemovalPC
        PROVE  RemovalsInPlace'
    BY <2>2, <1>1, <1>t DEF DelGoto, PlaceInv, PlaceFacts, RemovalsInPlace, TypeOK
  <2>. QED  BY <1>5, <2>1, <2>2 DEF RemovalPC
<1>. QED  BY <1>4, <1>6 DEF PlaceFacts

LEMMA UserStepPlace ==
  ASSUME PlaceInv, NEW w \in Workspace, UserStep(w)
  PROVE  PlaceFacts'
<1>t. TypeOK /\ HasWorkspace /\ path[w] \in Path /\ FirstPath[w] \in Path
  BY ConstantsAssumption DEF PlaceInv, GitInv, TypeOK
\* A row, with the path that it had already.
<1>n. ASSUME row[w] = "none", path' = [path EXCEPT ![w] = FirstPath[w]],
             row' = [row EXCEPT ![w] = "live"], record' = record \cup {w}
      PROVE  path' = path /\ RecordHasRow' /\ FreshPath'
  <2>1. path' = path
    BY <1>n, <1>t DEF PlaceInv, PlaceFacts, FreshPath, TypeOK
  <2>. QED  BY <1>n, <2>1, <1>t DEF PlaceInv, PlaceFacts, RecordHasRow, FreshPath, TypeOK
<1>1. ASSUME NEW r \in Runner, NEW mode \in Mode, CreateRow(r, w, mode)
      PROVE  PlaceFacts'
  <2>1. path' = path /\ RecordHasRow' /\ FreshPath'
    BY <1>1, <1>n DEF CreateRow
  <2>2. DiskInPlace'
    BY <1>1, <1>t, <2>1
       DEF CreateRow, history, PlaceInv, PlaceFacts, FreshPath, DiskInPlace
  <2>3. JobsInPlace' /\ RemovalsInPlace'
    BY <1>1, <1>t, <2>1 DEF CreateRow, history, PlaceInv, PlaceFacts, JobsInPlace,
       RemovalsInPlace, Working, TypeOK
  <2>. QED  BY <2>1, <2>2, <2>3 DEF PlaceFacts
<1>2. ASSUME NEW r \in Runner, RetryCheck(r, w)
      PROVE  PlaceFacts'
  BY <1>2, <1>t DEF RetryCheck, table, history, PlaceInv, PlaceFacts, RecordHasRow,
     FreshPath, DiskInPlace, JobsInPlace, RemovalsInPlace, Working, TypeOK
\* An agent's job.
<1>3. ASSUME NEW r \in Runner, run[r].pc = "idle", RepoStart(r, w), path' = path,
             RecordHasRow', FreshPath'
      PROVE  PlaceFacts'
  <2>1. /\ StartJob(r, w, path[w], "working") /\ disk' = disk \cup {<<w, path[w]>>} /\ del' = del
        /\ run' = [run EXCEPT ![r] = [ws |-> w, path |-> path[w], mode |-> "new", pc |-> "repo"]]
    BY <1>3 DEF RepoStart
  <2>2. raced \subseteq raced'
    BY <2>1 DEF StartJob
  <2>3. DiskInPlace'
    <3>1. ASSUME NEW v \in Workspace \ {w}, NEW p \in Path, <<v, p>> \in lost
          PROVE  <<v, p>> \in lost'
      BY <2>1, <3>1 DEF StartJob
    <3>2. ASSUME NEW p \in Path, <<w, p>> \in disk'
          PROVE  p = path[w] \/ <<w, p>> \in lost'
      BY <2>1, <3>2 DEF StartJob
    <3>. QED  BY <1>3, <2>1, <2>2, <3>1, <3>2 DEF PlaceInv, PlaceFacts, DiskInPlace
  <2>4. JobsInPlace'
    BY <1>3, <2>1, <2>2, <1>t DEF PlaceInv, PlaceFacts, JobsInPlace, Working, TypeOK
  <2>5. RemovalsInPlace'
    BY <1>3, <2>1, <2>2 DEF PlaceInv, PlaceFacts, RemovalsInPlace
  <2>. QED  BY <1>3, <2>3, <2>4, <2>5 DEF PlaceFacts
<1>4. ASSUME NEW r \in Runner, AgentCreate(r, w)
      PROVE  PlaceFacts'
  BY <1>4, <1>n, <1>3 DEF AgentCreate
<1>5. ASSUME NEW r \in Runner, AgentRetry(r, w)
      PROVE  PlaceFacts'
  <2>1. RecordHasRow' /\ FreshPath'
    BY <1>5 DEF AgentRetry, PlaceInv, PlaceFacts, RecordHasRow, FreshPath
  <2>. QED  BY <1>5, <1>3, <2>1 DEF AgentRetry
\* A call that removes begins.
<1>d. ASSUME NEW d \in Deleter, \A e \in Deleter \ {d} : del'[e] = del[e],
             del'[d].pc \in RemovalPC => del'[d].path = path[del'[d].ws],
             UNCHANGED <<record, path, disk, run, raced, lost>>,
             row' = row \/ (row[w] # "none" /\ row' = [row EXCEPT ![w] = "deleting"])
      PROVE  PlaceFacts'
  <2>1. \A v \in Workspace : row'[v] = "none" => row[v] = "none"
    BY <1>d, <1>t DEF TypeOK
  <2>2. RecordHasRow' /\ FreshPath' /\ DiskInPlace' /\ JobsInPlace'
    BY <1>d, <2>1, PlaceStays DEF Working
  <2>3. RemovalsInPlace'
    BY <1>d DEF PlaceInv, PlaceFacts, RemovalsInPlace
  <2>. QED  BY <2>2, <2>3 DEF PlaceFacts
<1>6. ASSUME NEW d \in Deleter, DeleteStart(d, w)
      PROVE  PlaceFacts'
  <2>1. /\ UNCHANGED <<record, path, disk, run, raced, lost>>
        /\ row[w] # "none" /\ row' = [row EXCEPT ![w] = "deleting"]
    BY <1>6 DEF DeleteStart, HasRow
  <2>2. /\ \A e \in Deleter \ {d} : del'[e] = del[e]
        /\ del'[d].pc \in RemovalPC => del'[d].path = path[del'[d].ws]
    BY <1>6, <1>t DEF DeleteStart, CancelAndWait, ToTeardown, RemovalPC, TypeOK
  <2>. QED  BY <2>1, <2>2, <1>d
<1>7. ASSUME NEW d \in Deleter, CloseStart(d, w) \/ DeleteWorktreeStart(d, w)
      PROVE  PlaceFacts'
  <2>1. UNCHANGED <<row, record, path, disk, run, raced, lost>>
    BY <1>7 DEF CloseStart, DeleteWorktreeStart, table, history
  <2>2. /\ \A e \in Deleter \ {d} : del'[e] = del[e]
        /\ del'[d].pc \in RemovalPC => del'[d].path = path[del'[d].ws]
    <3>1. CASE CloseStart(d, w)
      BY <3>1, <1>t DEF CloseStart, RemovalPC, TypeOK
    <3>2. CASE DeleteWorktreeStart(d, w)
      BY <3>2, <1>t DEF DeleteWorktreeStart, TypeOK
    <3>. QED  BY <1>7, <3>1, <3>2
  <2>. QED  BY <2>1, <2>2, <1>d
<1>. QED  BY <1>1, <1>2, <1>4, <1>5, <1>6, <1>7 DEF UserStep

LEMMA PlaceNext == PlaceInv /\ [Next]_vars => PlaceInv'
<1>. SUFFICES ASSUME PlaceInv, [Next]_vars PROVE PlaceInv'
  OBVIOUS
<1>1. PlaceFacts'
  <2>1. ASSUME UNCHANGED <<row, record, path, disk, run, del, raced, lost>>
        PROVE  PlaceFacts'
    BY <2>1 DEF PlaceInv, PlaceFacts, RecordHasRow, FreshPath, DiskInPlace, JobsInPlace,
       RemovalsInPlace, Working
  <2>2. CASE Restart
    <3>1. /\ UNCHANGED <<row, record, path, raced, lost>>
          /\ disk' \subseteq disk \cup {JobDir(r) : r \in {q \in Runner : run[q].pc = "create"}}
      BY <2>2 DEF Restart
    <3>2. /\ \A r \in Runner : ~Working(r)'
          /\ \A d \in Deleter : del'[d].pc \notin RemovalPC
      BY <2>2 DEF Restart, Working, RemovalPC, PlaceInv, GitInv, TypeOK
    <3>3. DiskInPlace'
      BY <3>1 DEF PlaceInv, PlaceFacts, DiskInPlace, JobsInPlace, JobDir, Working
    <3>. QED  BY <3>1, <3>2, <3>3 DEF PlaceInv, PlaceFacts, RecordHasRow, FreshPath,
                                      JobsInPlace, RemovalsInPlace
  <2>. QED  BY <2>1, <2>2, UserStepPlace, RunStepPlace, DelStepPlace
            DEF Next, vars, ReadyTimer, table, history
<1>. QED  BY <1>1, GitNext DEF PlaceInv

LEMMA PlaceInit == Init => PlaceInv
<1>. SUFFICES ASSUME Init PROVE PlaceInv
  OBVIOUS
<1>1. PlaceFacts
  BY DEF Init, PlaceFacts, RecordHasRow, FreshPath, DiskInPlace, JobsInPlace,
         RemovalsInPlace, Working, RemovalPC
<1>. QED  BY <1>1, GitInit DEF PlaceInv

------------------------------------------------------------------------------
(* Nothing is left after a delete                                          *)
(*                                                                         *)
(* A workspace is clear when its directory is gone, but for lost ones, and *)
(* no job is left that could make it again.  It is clear once a delete has *)
(* removed it, and whenever its record is gone, unless jobs overlapped.    *)

Clear(w) ==
  /\ \A p \in Path : <<w, p>> \in disk => <<w, p>> \in lost
  /\ \A r \in Runner : Working(r) /\ run[r].ws = w => run[r].pc = "repo"

\* A call that removes had a row to start from.
RowOfCall == \A d \in Deleter : del[d].pc # "idle" => row[del[d].ws] # "none"

\* A delete that found no record will never find one.
RecordStaysAway ==
  \A d \in Deleter :
    del[d].pc \in {"teardown", "kill"} /\ ~del[d].rec => del[d].ws \notin record

\* A workspace that has been there, and whose deletion is past the removal or
\* whose record is gone.
Gone(w) ==
  \/ row[w] = "deleted"
  \/ row[w] # "none" /\ w \notin record
  \/ \E d \in Deleter : del[d].pc = "branch" /\ del[d].ws = w

GoneIsClear == \A w \in Workspace : Gone(w) /\ w \notin raced => Clear(w)

LeftFacts == RowOfCall /\ RecordStaysAway /\ GoneIsClear
LeftInv == LineInv /\ PlaceInv /\ LeftFacts

\* A job that starts on a workspace that is gone makes it raced.
LEMMA GoneIsOverlap ==
  ASSUME LeftInv, NEW w \in Workspace, Gone(w), NEW p
  PROVE  Overlaps(w, p)
<1>1. ASSUME NEW d \in Deleter, del[d].pc = "branch", del[d].ws = w
      PROVE  Overlaps(w, p)
  BY <1>1 DEF Overlaps, DeletingOf, Deleting
<1>2. row[w] \in {"none", "live", "deleting", "deleted", "closed"}
  BY DEF LeftInv, LineInv, GitInv, TypeOK
<1>. QED  BY <1>1, <1>2 DEF Gone, Overlaps

\* The steps of a job never bring a directory back to a workspace that is clear.
LEMMA RunStepLeft ==
  ASSUME LeftInv, NEW r \in Runner, RunStep(r)
  PROVE  LeftFacts'
<1>. DEFINE w == run[r].ws
<1>t. /\ GitInv /\ TypeOK /\ HasWorkspace /\ JobStep(r)
      /\ run[r].pc \notin {"idle", "done"}
  BY RunStepIsJobStep DEF LeftInv, LineInv, GitInv
<1>w. w \in Workspace
  BY <1>t, ProjectOfCall
<1>1. RowOfCall' /\ RecordStaysAway'
  BY <1>t DEF JobStep, LeftInv, LeftFacts, RowOfCall, RecordStaysAway
<1>2. ASSUME NEW v \in Workspace, Gone(v)', v \notin raced'
      PROVE  Clear(v)'
  <2>1. Gone(v)
    BY <1>2, <1>t DEF Gone, JobStep
  <2>2. v \notin raced
    BY <1>2, <1>t DEF JobStep, JobBegins, StartJob
  <2>3. Clear(v)
    BY <2>1, <2>2 DEF LeftInv, LeftFacts, GoneIsClear
  <2>4. CASE v # w
    <3>1. \A p \in Path : <<v, p>> \in lost => <<v, p>> \in lost'
      BY <2>4, <1>t DEF JobStep, JobBegins, InPlace, StartJob
    <3>2. \A p \in Path : <<v, p>> \in disk' => <<v, p>> \in disk
      BY <2>4, <1>t DEF JobStep, JobDir
    <3>. QED  BY <2>3, <2>4, <3>1, <3>2, <1>t DEF Clear, JobStep, Working
  <2>5. CASE v = w
    <3>1. ~JobBegins(r)
      <4>1. ASSUME JobBegins(r) PROVE FALSE
        <5>2. Overlaps(w, run'[r].path)
          BY <2>1, <2>5, <1>w, GoneIsOverlap
        <5>. QED  BY <1>2, <1>w, <2>5, <4>1, <5>2 DEF JobBegins, StartJob
      <4>. QED  BY <4>1
    <3>2. run[r].pc \in {"inserted", "checked", "repo"}
      BY <1>t, <2>3, <2>5 DEF Clear, Working
    <3>3. ~Working(r)' /\ disk' \subseteq disk /\ lost' = lost
      BY <1>t, <3>1, <3>2 DEF JobStep, InPlace, RunGit, Working
    <3>. QED  BY <1>t, <2>3, <2>5, <3>3 DEF Clear, JobStep, Working
  <2>. QED  BY <2>4, <2>5
<1>. QED  BY <1>1, <1>2 DEF LeftFacts, GoneIsClear

\* The other steps in which no job starts or gets a directory.
LEMMA StaysClear ==
  ASSUME LeftInv, NEW w \in Workspace, Clear(w), run' = run, disk' \subseteq disk,
         lost' = lost
  PROVE  Clear(w)'
BY DEF Clear, Working

\* What a removal that has read the record leaves behind is lost.
LEMMA OwnRemoval ==
  ASSUME LeftInv, NEW d \in Deleter, del[d].pc \in RemovalPC, del[d].ws \in Workspace,
         del[d].ws \notin raced
  PROVE  \A p \in Path : <<del[d].ws, p>> \in disk \ {DelDir(d)} => <<del[d].ws, p>> \in lost
BY DEF LeftInv, PlaceInv, PlaceFacts, DiskInPlace, RemovalsInPlace, DelDir

\* When a delete is about to remove the worktree, no job is on its way to it.
LEMMA RemoveFindsNoJob ==
  ASSUME LeftInv, NEW d \in Deleter, del[d].pc = "remove", del[d].ws \notin raced,
         NEW r \in Runner, Working(r), run[r].ws = del[d].ws
  PROVE  run[r].pc = "repo"
<1>t. GitInv /\ TypeOK /\ HasWorkspace
  BY DEF LeftInv, LineInv, GitInv
<1>1. run[r].pc # "lock"
  BY DEF LeftInv, LineInv, DeleteWaitsForJob
<1>2. run[r].pc \notin RunGit
  <2>1. lock[ProjectOf[del[d].ws]] = d
    BY <1>t, GitByKind DEF GitInv, DelGit
  <2>2. run[r].pc \in RunGit => lock[ProjectOf[run[r].ws]] = r
    BY <1>t, GitByKind DEF GitInv
  <2>. QED  BY <2>1, <2>2, ConstantsAssumption
<1>3. run[r].pc \in RunPC
  BY <1>t DEF TypeOK
<1>. QED  BY <1>1, <1>2, <1>3 DEF RunPC, RunGit, Working

LEMMA DelStepLeft ==
  ASSUME LeftInv, NEW d \in Deleter, DelStep(d)
  PROVE  LeftFacts'
<1>. DEFINE w == del[d].ws
<1>t. GitInv /\ TypeOK /\ HasWorkspace
  BY DEF LeftInv, LineInv, GitInv
<1>i. del[d].pc # "idle"
  BY DEF DelStep, WaitDone, WaitTimeout, TeardownFails, TeardownDone, DeleteLocked,
         RemoveDone, RemoveFails, DeleteDone, CloseDone, DeleteWorktreeLocked,
         DeleteWorktreeDone, DeleteWorktreeFails
<1>w. w \in Workspace /\ row[w] # "none"
  BY <1>i, <1>t, ProjectOfCall DEF LeftInv, LeftFacts, RowOfCall
<1>g. ASSUME NEW loc, DelGoto(d, loc)
      PROVE  /\ \A e \in Deleter \ {d} : del'[e] = del[e]
             /\ del'[d].ws = w /\ del'[d].pc = loc /\ del'[d].rec = del[d].rec
  BY <1>g, <1>t DEF DelGoto, TypeOK
<1>k. ASSUME ToTeardown(d, w)
      PROVE  /\ \A e \in Deleter \ {d} : del'[e] = del[e]
             /\ del'[d].ws = w /\ del'[d].pc \in {"teardown", "kill"}
             /\ del'[d].rec <=> w \in record
  BY <1>k, <1>t DEF ToTeardown, TeardownPC, TypeOK
<1>u. ASSUME Unhide(w)
      PROVE  /\ \A v \in Workspace : row'[v] = "none" <=> row[v] = "none"
             /\ \A v \in Workspace : row'[v] = "deleted" => row[v] = "deleted"
  BY <1>u, <1>w, <1>t DEF Unhide, HasRow, TypeOK
\* The steps that leave the records alone and do not reach the last part of a delete.
<1>o. ASSUME \A e \in Deleter \ {d} : del'[e] = del[e],
             del'[d].ws = w, del'[d].pc # "branch",
             run' = run, record' = record, disk' \subseteq disk, raced' = raced,
             lost' = lost,
             \A v \in Workspace : row'[v] = "none" <=> row[v] = "none",
             \A v \in Workspace : row'[v] = "deleted" => row[v] = "deleted",
             del'[d].pc \in {"teardown", "kill"} /\ ~del'[d].rec => w \notin record
      PROVE  LeftFacts'
  <2>1. RowOfCall' /\ RecordStaysAway'
    <3>1. RowOfCall'
      BY <1>o, <1>w, <1>t DEF LeftInv, LeftFacts, RowOfCall, HasWorkspace
    <3>2. RecordStaysAway'
      BY <1>o DEF LeftInv, LeftFacts, RecordStaysAway
    <3>. QED  BY <3>1, <3>2
  <2>2. \A v \in Workspace : Gone(v)' => Gone(v)
    BY <1>o DEF Gone
  <2>. QED  BY <1>o, <2>1, <2>2, StaysClear DEF LeftInv, LeftFacts, GoneIsClear
<1>1. CASE WaitDone(d)
  BY <1>1, <1>k, <1>o
     DEF WaitDone, table, history
<1>2. CASE WaitTimeout(d)
  BY <1>2, <1>k, <1>o
     DEF WaitTimeout, table, history
<1>3. CASE TeardownFails(d)
  BY <1>3, <1>g, <1>u, <1>o
     DEF TeardownFails, history
<1>4. CASE TeardownDone(d)
  <2>1. CASE del[d].rec
    <3>1. DelGoto(d, "lock") /\ UNCHANGED <<table, run, raced, lost>>
      BY <1>4, <2>1 DEF TeardownDone, history
    <3>. QED  BY <3>1, <1>g, <1>o DEF table
  <2>2. CASE ~del[d].rec
    <3>1. Gone(w)
      BY <1>4, <1>w, <2>2 DEF TeardownDone, LeftInv, LeftFacts, RecordStaysAway, Gone
    <3>2. /\ UNCHANGED <<table, run, raced, lost>>
          /\ \A e \in Deleter \ {d} : del'[e] = del[e]
          /\ del'[d].ws = w /\ del'[d].pc = "branch"
      BY <1>4, <2>2, <1>g DEF TeardownDone, history
    <3>3. \A v \in Workspace : Gone(v)' => Gone(v)
      BY <3>1, <3>2 DEF Gone, table
    <3>4. RowOfCall' /\ RecordStaysAway'
      BY <1>w, <3>2 DEF LeftInv, LeftFacts, RowOfCall, RecordStaysAway, table
    <3>. QED  BY <3>2, <3>3, <3>4, StaysClear DEF LeftInv, LeftFacts, GoneIsClear, table
  <2>. QED  BY <2>1, <2>2
<1>5. CASE DeleteLocked(d)
  BY <1>5, <1>g, <1>o
     DEF DeleteLocked, table, history
<1>6. CASE RemoveDone(d)
  <2>1. /\ UNCHANGED <<row, record, run, raced, lost>> /\ disk' = disk \ {DelDir(d)}
        /\ \A e \in Deleter \ {d} : del'[e] = del[e]
        /\ del'[d].ws = w /\ del'[d].pc = "branch"
    BY <1>6, <1>g DEF RemoveDone, history
  <2>2. \A v \in Workspace \ {w} : Gone(v)' => Gone(v)
    BY <2>1 DEF Gone
  <2>3. w \notin raced => Clear(w)'
    BY <1>6, <1>w, <2>1, RemoveFindsNoJob, OwnRemoval DEF RemoveDone, Clear, Working, RemovalPC
  <2>4. RowOfCall' /\ RecordStaysAway'
    BY <1>w, <2>1 DEF LeftInv, LeftFacts, RowOfCall, RecordStaysAway
  <2>. QED  BY <2>1, <2>2, <2>3, <2>4, StaysClear DEF LeftInv, LeftFacts, GoneIsClear
<1>7. CASE RemoveFails(d)
  BY <1>7, <1>g, <1>u, <1>o
     DEF RemoveFails, history
<1>8. CASE DeleteDone(d)
  <2>1. /\ UNCHANGED <<disk, run, raced, lost>> /\ record' \subseteq record
        /\ \A v \in Workspace \ {w} : row'[v] = row[v] /\ (v \in record' <=> v \in record)
        /\ row'[w] # "none"
        /\ \A e \in Deleter \ {d} : del'[e] = del[e]
        /\ del'[d].ws = w /\ del'[d].pc = "done"
    BY <1>8, <1>g, <1>w, <1>t DEF DeleteDone, history, TypeOK
  <2>2. \A v \in Workspace \ {w} : Gone(v)' => Gone(v)
    BY <2>1 DEF Gone
  <2>3. Gone(w)
    BY <1>8 DEF DeleteDone, Gone
  <2>4. RowOfCall'
    BY <1>t, <2>1 DEF LeftInv, LeftFacts, RowOfCall, HasWorkspace
  <2>5. RecordStaysAway'
    BY <1>t, <2>1 DEF LeftInv, LeftFacts, RecordStaysAway, HasWorkspace
  <2>. QED  BY <2>1, <2>2, <2>3, <2>4, <2>5, StaysClear DEF LeftInv, LeftFacts, GoneIsClear
<1>9. CASE CloseDone(d)
  <2>1. /\ \A v \in Workspace : row'[v] = "none" <=> row[v] = "none"
        /\ \A v \in Workspace : row'[v] = "deleted" => row[v] = "deleted"
    BY <1>9, <1>w, <1>t DEF CloseDone, HasRow, TypeOK
  <2>. QED  BY <1>9, <1>g, <1>o, <2>1 DEF CloseDone, history
<1>10. CASE DeleteWorktreeLocked(d)
  BY <1>10, <1>g, <1>o
     DEF DeleteWorktreeLocked, table, history
<1>11. CASE DeleteWorktreeDone(d)
  <2>1. /\ UNCHANGED <<row, run, lost>> /\ record' = record \ {w}
        /\ disk' = disk \ {DelDir(d)}
        /\ raced \subseteq raced' /\ (w \notin raced' => WorkingOn(w) = {})
        /\ \A e \in Deleter \ {d} : del'[e] = del[e]
        /\ del'[d].ws = w /\ del'[d].pc = "done"
    BY <1>11, <1>g DEF DeleteWorktreeDone
  <2>2. \A v \in Workspace \ {w} : Gone(v)' => Gone(v)
    BY <2>1 DEF Gone
  <2>3. w \notin raced' => Clear(w)'
    BY <1>11, <1>w, <2>1, OwnRemoval
       DEF DeleteWorktreeDone, Clear, WorkingOn, Working, RemovalPC
  <2>4. RowOfCall' /\ RecordStaysAway'
    BY <1>w, <2>1 DEF LeftInv, LeftFacts, RowOfCall, RecordStaysAway
  <2>. QED  BY <2>1, <2>2, <2>3, <2>4, StaysClear DEF LeftInv, LeftFacts, GoneIsClear
<1>12. CASE DeleteWorktreeFails(d)
  BY <1>12, <1>g, <1>o
     DEF DeleteWorktreeFails, history
<1>. QED  BY <1>1, <1>2, <1>3, <1>4, <1>5, <1>6, <1>7, <1>8, <1>9, <1>10, <1>11, <1>12 DEF DelStep

\* What was lost of the other workspaces still is.
LostStays(w) ==
  \A v \in Workspace \ {w}, p \in Path : <<v, p>> \in lost => <<v, p>> \in lost'

LEMMA UserStepLeft ==
  ASSUME LeftInv, NEW w \in Workspace, UserStep(w)
  PROVE  LeftFacts'
<1>t. GitInv /\ TypeOK /\ HasWorkspace /\ FirstPath[w] \in Path
  BY ConstantsAssumption DEF LeftInv, LineInv, GitInv
\* A new row.
<1>n. ASSUME NEW r \in Runner, row[w] = "none",
             run[r].pc = "idle", \A q \in Runner \ {r} : run'[q] = run[q], run'[r].ws = w,
             row' = [row EXCEPT ![w] = "live"], record' = record \cup {w},
             disk' \subseteq disk \cup ({w} \X Path), LostStays(w), del' = del,
             raced \subseteq raced'
      PROVE  LeftFacts'
  <2>1. RowOfCall'
    BY <1>n, <1>t DEF LeftInv, LeftFacts, RowOfCall, HasWorkspace, TypeOK
  <2>2. \A d \in Deleter : del[d].pc # "idle" => del[d].ws # w
    BY <1>n DEF LeftInv, LeftFacts, RowOfCall
  <2>3. RecordStaysAway'
    BY <1>n, <2>2 DEF LeftInv, LeftFacts, RecordStaysAway
  <2>5. ~Gone(w)'
    BY <1>n, <1>t, <2>2 DEF Gone, TypeOK
  <2>6. \A v \in Workspace \ {w} : Gone(v)' => Gone(v)
    BY <1>n, <1>t DEF Gone, TypeOK
  <2>7. \A v \in Workspace \ {w} : Clear(v) => Clear(v)'
    BY <1>n DEF Clear, Working, LostStays
  <2>. QED  BY <1>n, <2>1, <2>3, <2>5, <2>6, <2>7 DEF LeftInv, LeftFacts, GoneIsClear
\* A job on a row that is there.
<1>j. ASSUME NEW r \in Runner, run[r].pc = "idle",
             \A q \in Runner \ {r} : run'[q] = run[q], run'[r].ws = w,
             UNCHANGED <<row, record, del>>, raced \subseteq raced', LostStays(w),
             \/ disk' = disk /\ lost' = lost /\ ~Working(r)'
             \/ /\ disk' \subseteq disk \cup ({w} \X Path)
                /\ Overlaps(w, path'[w]) => w \in raced'
      PROVE  LeftFacts'
  <2>1. RowOfCall' /\ RecordStaysAway'
    BY <1>j DEF LeftInv, LeftFacts, RowOfCall, RecordStaysAway
  <2>2. \A v \in Workspace : Gone(v)' => Gone(v)
    BY <1>j DEF Gone
  <2>3. \A v \in Workspace \ {w} : Clear(v) => Clear(v)'
    BY <1>j DEF Clear, Working, LostStays
  <2>4. CASE disk' = disk /\ lost' = lost /\ ~Working(r)'
    <3>1. Clear(w) => Clear(w)'
      BY <1>j, <2>4 DEF Clear, Working
    <3>. QED  BY <1>j, <2>1, <2>2, <2>3, <3>1 DEF LeftInv, LeftFacts, GoneIsClear
  <2>5. CASE Overlaps(w, path'[w]) => w \in raced'
    <3>1. Gone(w) => w \in raced'
      BY <2>5, GoneIsOverlap
    <3>. QED  BY <1>j, <2>1, <2>2, <2>3, <3>1 DEF LeftInv, LeftFacts, GoneIsClear
  <2>. QED  BY <1>j, <2>4, <2>5
\* A call that removes begins.
<1>d. ASSUME NEW d \in Deleter, del[d].pc = "idle", row[w] # "none",
             \A e \in Deleter \ {d} : del'[e] = del[e],
             del'[d].ws = w, del'[d].pc # "branch",
             del'[d].pc \in {"teardown", "kill"} /\ ~del'[d].rec => w \notin record,
             UNCHANGED <<record, disk, run, raced, lost>>,
             row' = row \/ row' = [row EXCEPT ![w] = "deleting"]
      PROVE  LeftFacts'
  <2>1. /\ \A v \in Workspace : row'[v] = "none" <=> row[v] = "none"
        /\ \A v \in Workspace : row'[v] = "deleted" => row[v] = "deleted"
    BY <1>d, <1>t DEF TypeOK
  <2>2. RowOfCall' /\ RecordStaysAway'
    BY <1>d, <1>t, <2>1 DEF LeftInv, LeftFacts, RowOfCall, RecordStaysAway, HasWorkspace
  <2>3. \A v \in Workspace : Gone(v)' => Gone(v)
    BY <1>d, <2>1 DEF Gone
  <2>. QED  BY <1>d, <2>2, <2>3, StaysClear DEF LeftInv, LeftFacts, GoneIsClear
<1>1. ASSUME NEW r \in Runner, NEW mode \in Mode, CreateRow(r, w, mode)
      PROVE  LeftFacts'
  <2>1. disk' \subseteq disk \cup ({w} \X Path) /\ LostStays(w)
    BY <1>1, <1>t DEF CreateRow, LostStays, history
  <2>. QED  BY <1>1, <1>t, <1>n, <2>1 DEF CreateRow, history, TypeOK
<1>2. ASSUME NEW r \in Runner, RetryCheck(r, w)
      PROVE  LeftFacts'
  <2>1. /\ \A q \in Runner \ {r} : run'[q] = run[q]
        /\ run'[r].ws = w /\ run'[r].pc = "checked"
    BY <1>2, <1>t DEF RetryCheck, TypeOK
  <2>. QED  BY <1>2, <1>j, <2>1 DEF RetryCheck, Working, LostStays, table, history
<1>3. ASSUME NEW r \in Runner, AgentCreate(r, w)
      PROVE  LeftFacts'
  <2>1. path'[w] \in Path
    BY <1>3, <1>t DEF AgentCreate, TypeOK
  <2>2. /\ disk' \subseteq disk \cup ({w} \X Path) /\ LostStays(w)
        /\ raced \subseteq raced' /\ del' = del
    BY <1>3, <2>1 DEF AgentCreate, RepoStart, StartJob, LostStays
  <2>3. \A q \in Runner \ {r} : run'[q] = run[q]
    BY <1>3, <1>t DEF AgentCreate, RepoStart, TypeOK
  <2>4. run'[r].ws = w
    BY <1>3, <1>t DEF AgentCreate, RepoStart, TypeOK
  <2>. QED  BY <1>3, <1>n, <2>2, <2>3, <2>4 DEF AgentCreate
<1>4. ASSUME NEW r \in Runner, AgentRetry(r, w)
      PROVE  LeftFacts'
  <2>1. path'[w] \in Path
    BY <1>4, <1>t DEF AgentRetry, TypeOK
  <2>2. /\ disk' \subseteq disk \cup ({w} \X Path) /\ LostStays(w)
        /\ raced \subseteq raced' /\ UNCHANGED <<row, record, del>>
        /\ Overlaps(w, path'[w]) => w \in raced'
    BY <1>4, <2>1 DEF AgentRetry, RepoStart, StartJob, LostStays
  <2>3. \A q \in Runner \ {r} : run'[q] = run[q]
    BY <1>4, <1>t DEF AgentRetry, RepoStart, TypeOK
  <2>4. run'[r].ws = w /\ run[r].pc = "idle"
    BY <1>4, <1>t DEF AgentRetry, RepoStart, TypeOK
  <2>. QED  BY <1>j, <2>2, <2>3, <2>4
<1>5. ASSUME NEW d \in Deleter, DeleteStart(d, w)
      PROVE  LeftFacts'
  <2>1. CASE ToTeardown(d, w)
    BY <1>5, <2>1, <1>t, <1>d
       DEF DeleteStart, CancelAndWait, ToTeardown, TeardownPC, HasRow, TypeOK
  <2>2. CASE del' = [del EXCEPT ![d] = [ws |-> w, path |-> None, token |-> promise[w],
                                        rec |-> FALSE, pc |-> "wait"]]
    BY <1>5, <2>2, <1>t, <1>d DEF DeleteStart, HasRow, TypeOK
  <2>. QED  BY <1>5, <2>1, <2>2 DEF DeleteStart, CancelAndWait
<1>6. ASSUME NEW d \in Deleter, CloseStart(d, w)
      PROVE  LeftFacts'
  BY <1>6, <1>t, <1>d DEF CloseStart, HasRow, TypeOK, table, history
<1>7. ASSUME NEW d \in Deleter, DeleteWorktreeStart(d, w)
      PROVE  LeftFacts'
  <2>1. row[w] # "none"
    BY <1>7 DEF DeleteWorktreeStart, LeftInv, PlaceInv, PlaceFacts, RecordHasRow
  <2>. QED  BY <1>7, <1>t, <1>d, <2>1 DEF DeleteWorktreeStart, TypeOK, table, history
<1>. QED  BY <1>1, <1>2, <1>3, <1>4, <1>5, <1>6, <1>7 DEF UserStep

LEMMA LeftNext == LeftInv /\ [Next]_vars => LeftInv'
<1>. SUFFICES ASSUME LeftInv, [Next]_vars PROVE LeftInv'
  OBVIOUS
<1>1. LineInv' /\ PlaceInv'
  BY LineNext, PlaceNext DEF LeftInv
<1>2. LeftFacts'
  <2>1. ASSUME UNCHANGED <<row, record, disk, run, del, raced, lost>>
        PROVE  LeftFacts'
    BY <2>1 DEF LeftInv, LeftFacts, RowOfCall, RecordStaysAway,
       GoneIsClear, Gone, Clear, Working
  <2>2. CASE Restart
    <3>1. /\ UNCHANGED <<row, record, raced, lost>>
          /\ \A r \in Runner : ~Working(r)'
          /\ disk' \subseteq disk \cup {JobDir(r) : r \in {q \in Runner : run[q].pc = "create"}}
      BY <2>2 DEF Restart, Working
    <3>2. /\ \A d \in Deleter : del'[d].ws = del[d].ws /\ (del'[d].pc = "idle" <=> del[d].pc = "idle")
          /\ \A d \in Deleter : del'[d].pc \in {"idle", "done"}
      BY <2>2 DEF Restart, LeftInv, LineInv, GitInv, TypeOK
    <3>3. RowOfCall' /\ RecordStaysAway'
      BY <3>1, <3>2 DEF LeftInv, LeftFacts, RowOfCall, RecordStaysAway
    <3>4. \A w \in Workspace : Gone(w)' => Gone(w)
      BY <3>1, <3>2 DEF Gone
    <3>5. \A w \in Workspace : Clear(w) => Clear(w)'
      BY <3>1 DEF Clear, Working, JobDir
    <3>. QED  BY <3>1, <3>3, <3>4, <3>5 DEF LeftInv, LeftFacts, GoneIsClear
  <2>. QED  BY <2>1, <2>2, UserStepLeft, RunStepLeft, DelStepLeft
            DEF Next, vars, ReadyTimer, table, history
<1>. QED  BY <1>1, <1>2 DEF LeftInv, LeftFacts

\* After a successful delete nothing is left on disk and nothing comes back, even
\* when delete gave up waiting for the job: the job asked for the project lock
\* first, and the lock is handed over in the order of the requests.  Excepted are
\* workspaces whose jobs overlapped, or were started on one being removed, and
\* what was there when a retry moved the record to a deduplicated branch.
THEOREM NothingLeft == Spec => []NothingLeftAfterDelete
<1>1. Init => LeftInv
  <2>. SUFFICES ASSUME Init PROVE LeftInv
    OBVIOUS
  <2>1. LeftFacts
    BY DEF Init, LeftFacts, RowOfCall, RecordStaysAway, GoneIsClear, Gone
  <2>. QED  BY <2>1, LineInit, PlaceInit DEF LeftInv
<1>2. LeftInv => NothingLeftAfterDelete
  BY DEF LeftInv, LeftFacts, GoneIsClear, Gone, Clear, NothingLeftAfterDelete
<1>. QED  BY <1>1, <1>2, LeftNext, PTL DEF Spec

------------------------------------------------------------------------------
(* What a failed job removes                                               *)
(*                                                                         *)
(* The mark that a worktree was created is filed by workspace and outlives *)
(* its job.  A job that has not come to its own worktree finds no mark of  *)
(* another job, unless the two overlapped.                                 *)

Unmade == {"lock", "config", "sync", "verify", "fetch", "create"}

NoForeignMark ==
  \A r \in Runner :
    run[r].pc \in Unmade /\ run[r].ws \notin raced => ~job[run[r].ws].created
UndoOwn == \A r \in Runner : run[r].pc = "undo" => Own(r)
\* createFromPr has made the worktree; another job may have made it anew.
AdoptedIsMade ==
  \A r \in Runner :
    run[r].mode = "adopt" =>
      \/ maker[JobDir(r)] = r
      \/ maker[JobDir(r)] # None /\ run[maker[JobDir(r)]].mode # "adopt"
AdoptSkipsCreation ==
  \A r \in Runner : run[r].pc \in {"checked", "sync", "verify", "fetch", "create"} => run[r].mode # "adopt"
MakerHasCall == \A x \in Directory : maker[x] # None => run[maker[x]].pc # "idle"
IdleIsNew == \A r \in Runner : run[r].pc = "idle" => run[r].mode = "new"

\* A row that was never inserted is nobody's.
CallHasRow ==
  /\ \A r \in Runner : run[r].pc # "idle" => row[run[r].ws] # "none"
  /\ \A w \in context : row[w] # "none"

OwnFacts == /\ NoForeignMark /\ UndoOwn /\ AdoptedIsMade
            /\ AdoptSkipsCreation /\ MakerHasCall /\ IdleIsNew
OwnInv == GitInv /\ PromiseInv /\ CallHasRow /\ OwnFacts

\* What a step of a job does to the mark and to the makers, by where it leads.
\* A job at work keeps its marks for itself when nobody overlaps with it.
LEMMA OthersUnmarked ==
  ASSUME OwnInv, NEW r \in Runner, Working(r),
         \A q \in Runner \ {r} : run'[q] = run[q], run'[r].ws = run[r].ws,
         raced' = raced,
         \A w \in Workspace \ {run[r].ws} : job'[w] = job[w],
         run'[r].pc \in Unmade => /\ run[r].pc \in Unmade
                                  /\ ~job[run[r].ws].created => ~job'[run[r].ws].created
  PROVE  NoForeignMark'
<1>t. TypeOK /\ HasWorkspace
  BY DEF OwnInv, GitInv
<1>. SUFFICES ASSUME NEW q \in Runner, run'[q].pc \in Unmade, run'[q].ws \notin raced
              PROVE  ~job'[run'[q].ws].created
  BY DEF NoForeignMark
<1>1. CASE q = r
  BY <1>1 DEF OwnInv, OwnFacts, NoForeignMark
<1>2. CASE q # r
  <2>1. run'[q] = run[q] /\ Working(q) /\ run[q].ws \in Workspace
    BY <1>2, <1>t, ProjectOfCall DEF Working, Unmade
  <2>2. run[q].ws # run[r].ws
    BY <1>2, <2>1 DEF OwnInv, PromiseInv, TwoJobsAreRaced
  <2>. QED  BY <2>1, <2>2 DEF OwnInv, OwnFacts, NoForeignMark
<1>. QED  BY <1>1, <1>2

\* A step that marks nothing.
LEMMA MarksStay ==
  ASSUME OwnInv, job' = job, raced \subseteq raced',
         \A q \in Runner : run'[q].pc \in Unmade => run[q].pc \in Unmade /\ run'[q].ws = run[q].ws
  PROVE  NoForeignMark'
BY DEF OwnInv, OwnFacts, NoForeignMark

\* A step that makes no directory and leads nobody to the removal of a worktree
\* that is not its own.
LEMMA MakersStay ==
  ASSUME OwnInv, maker' = maker, raced \subseteq raced',
         \A r \in Runner : /\ run'[r].ws = run[r].ws /\ run'[r].mode = run[r].mode
                           /\ \/ run'[r].path = run[r].path
                              \/ run'[r].mode # "adopt" /\ run'[r].pc # "undo"
                           /\ run'[r].pc = "idle" <=> run[r].pc = "idle"
                           /\ run'[r].pc = "undo" => run[r].pc = "undo" \/ Own(r)
                           /\ run'[r].pc \in {"checked", "sync", "verify", "fetch", "create"} =>
                                run'[r].mode # "adopt"
  PROVE  UndoOwn' /\ AdoptedIsMade' /\ AdoptSkipsCreation' /\ MakerHasCall' /\ IdleIsNew'
<1>t. TypeOK
  BY DEF OwnInv, GitInv
<1>1. \A r \in Runner : run[r].pc # "idle" => maker[JobDir(r)] \in Runner \cup {None}
  BY <1>t, DirOfCall DEF OwnInv, GitInv, TypeOK
<1>3. \A r \in Runner : run[r].mode = "adopt" => run[r].pc # "idle"
  BY DEF OwnInv, OwnFacts, IdleIsNew
<1>4. \A r \in Runner : run[r].pc # "idle" /\ run'[r].path = run[r].path /\ Own(r) => Own(r)'
  BY <1>1 DEF Own, JobDir
<1>5. UndoOwn'
  BY <1>4 DEF OwnInv, OwnFacts, UndoOwn
<1>6. AdoptedIsMade'
  BY <1>1, <1>3 DEF OwnInv, OwnFacts, AdoptedIsMade, JobDir
<1>7. AdoptSkipsCreation' /\ IdleIsNew'
  BY DEF OwnInv, OwnFacts, AdoptSkipsCreation, IdleIsNew
<1>8. MakerHasCall'
  BY <1>t DEF OwnInv, OwnFacts, MakerHasCall, TypeOK
<1>. QED  BY <1>5, <1>6, <1>7, <1>8

\* r, which makes its worktree itself, has made a directory.
LEMMA MakerIsOwn ==
  ASSUME OwnInv, NEW r \in Runner, run[r].pc = "create",
         maker' = [maker EXCEPT ![JobDir(r)] = r], raced' = raced,
         \A q \in Runner \ {r} : run'[q] = run[q],
         run'[r].ws = run[r].ws, run'[r].path = run[r].path, run'[r].mode = run[r].mode,
         run'[r].pc \notin {"idle", "checked", "sync", "verify", "fetch", "create"}
  PROVE  UndoOwn' /\ AdoptedIsMade' /\ AdoptSkipsCreation' /\ MakerHasCall' /\ IdleIsNew'
<1>. DEFINE w == run[r].ws
<1>t. GitInv /\ TypeOK /\ HasWorkspace
  BY DEF OwnInv, GitInv
<1>w. w \in Workspace /\ run[r].mode # "adopt" /\ r # None
  BY <1>t, ProjectOfCall, ConstantsAssumption DEF OwnInv, OwnFacts, AdoptSkipsCreation
<1>m. /\ maker'[JobDir(r)] = r
      /\ \A x \in Directory \ {JobDir(r)} :
           maker'[x] = maker[x] /\ maker[x] \in Runner \cup {None}
  BY <1>t, DirOfCall DEF TypeOK
<1>o. \A q \in Runner : /\ run'[q].ws = run[q].ws /\ run'[q].mode = run[q].mode
                        /\ JobDir(q)' = JobDir(q)
  BY DEF JobDir
<1>1. ASSUME NEW q \in Runner, run'[q].pc = "undo"
      PROVE  Own(q)'
  <2>1. CASE q = r
    BY <1>m, <1>o, <2>1 DEF Own
  <2>2. CASE q # r
    <3>1. run[q].pc = "undo" /\ JobDir(q) \in Directory
      BY <1>1, <2>2, <1>t, DirOfCall
    <3>2. JobDir(q) # JobDir(r)
      <4>1. lock[ProjectOf[run[q].ws]] = q /\ lock[ProjectOf[w]] = r
        BY <3>1, <1>t, GitByKind DEF GitInv, RunGit
      <4>. QED  BY <2>2, <4>1 DEF JobDir
    <3>3. Own(q)
      BY <3>1 DEF OwnInv, OwnFacts, UndoOwn
    <3>. QED  BY <1>m, <1>o, <3>1, <3>2, <3>3 DEF Own
  <2>. QED  BY <2>1, <2>2
<1>2. AdoptedIsMade'
  <2>1. ASSUME NEW q \in Runner, run[q].mode = "adopt"
        PROVE  \/ maker'[JobDir(q)] = q
               \/ maker'[JobDir(q)] # None /\ run'[maker'[JobDir(q)]].mode # "adopt"
    <3>1. JobDir(q) \in Directory
      BY <2>1, <1>t, DirOfCall DEF OwnInv, OwnFacts, IdleIsNew
    <3>2. CASE JobDir(q) = JobDir(r)
      BY <1>m, <1>o, <1>w, <3>2
    <3>3. CASE JobDir(q) # JobDir(r)
      BY <1>m, <1>o, <2>1, <3>1, <3>3 DEF OwnInv, OwnFacts, AdoptedIsMade
    <3>. QED  BY <3>2, <3>3
  <2>. QED  BY <1>o, <2>1 DEF AdoptedIsMade
<1>3. AdoptSkipsCreation'
  BY DEF OwnInv, OwnFacts, AdoptSkipsCreation
<1>4. MakerHasCall'
  BY <1>m DEF OwnInv, OwnFacts, MakerHasCall
<1>5. IdleIsNew'
  BY DEF OwnInv, OwnFacts, IdleIsNew
<1>. QED  BY <1>1, <1>2, <1>3, <1>4, <1>5 DEF UndoOwn

LEMMA RunStepOwn ==
  ASSUME OwnInv, NEW r \in Runner, RunStep(r)
  PROVE  OwnFacts'
<1>. DEFINE w == run[r].ws
<1>t. GitInv /\ TypeOK /\ HasWorkspace
  BY DEF OwnInv, GitInv
<1>i. run[r].pc # "idle" /\ w \in Workspace
  BY <1>t, RunStepIsJobStep, ProjectOfCall
<1>g. ASSUME NEW loc, Goto(r, loc)
      PROVE  /\ \A q \in Runner \ {r} : run'[q] = run[q]
             /\ run'[r].ws = w /\ run'[r].path = run[r].path
             /\ run'[r].mode = run[r].mode /\ run'[r].pc = loc
  BY <1>g, <1>t DEF Goto, TypeOK
\* No directory is made, and r does not come to "undo" without its own worktree.
<1>m. ASSUME NEW loc, Goto(r, loc), maker' = maker, raced \subseteq raced', loc # "idle",
             loc = "undo" => Own(r),
             loc \in {"checked", "sync", "verify", "fetch", "create"} => run[r].mode # "adopt"
      PROVE  UndoOwn' /\ AdoptedIsMade' /\ AdoptSkipsCreation' /\ MakerHasCall' /\ IdleIsNew'
  <2>1. \A q \in Runner :
          /\ run'[q].ws = run[q].ws /\ run'[q].mode = run[q].mode
          /\ run'[q].path = run[q].path
          /\ run'[q].pc = "idle" <=> run[q].pc = "idle"
          /\ run'[q].pc = "undo" => run[q].pc = "undo" \/ Own(q)
          /\ run'[q].pc \in {"checked", "sync", "verify", "fetch", "create"} => run'[q].mode # "adopt"
    BY <1>m, <1>g, <1>i DEF OwnInv, OwnFacts, AdoptSkipsCreation
  <2>. QED  BY <1>m, <2>1, MakersStay
\* r has made a directory and goes on.
<1>k. ASSUME NEW loc, Goto(r, loc), loc \in {"done", "undo", "cleanup"}, run[r].pc = "create",
             maker' = [maker EXCEPT ![JobDir(r)] = r], raced' = raced
      PROVE  UndoOwn' /\ AdoptedIsMade' /\ AdoptSkipsCreation' /\ MakerHasCall' /\ IdleIsNew'
  <2>1. /\ \A q \in Runner \ {r} : run'[q] = run[q]
        /\ run'[r].ws = run[r].ws /\ run'[r].path = run[r].path /\ run'[r].mode = run[r].mode
        /\ run'[r].pc \notin {"idle", "checked", "sync", "verify", "fetch", "create"}
    BY <1>g, <1>k
  <2>. QED  BY <1>k, <2>1, MakerIsOwn
\* The job starts.
<1>s. ASSUME NEW p, StartJob(r, w, p, "pending"),
             \A q \in Runner \ {r} : run'[q] = run[q],
             run'[r].ws = w, run'[r].mode = run[r].mode, run'[r].pc = "lock",
             run'[r].path = run[r].path \/ run[r].mode # "adopt"
      PROVE  OwnFacts'
  <2>1. job'[w].created = FALSE /\ \A v \in Workspace \ {w} : job'[v] = job[v]
    BY <1>s, <1>i, <1>t DEF StartJob, TypeOK
  <2>2. \A q \in Runner : run'[q].pc \in Unmade => run'[q].ws \in Workspace
    BY <1>s, <1>i, <1>t, ProjectOfCall DEF Unmade
  <2>3. NoForeignMark'
    BY <1>s, <2>1, <2>2 DEF OwnInv, OwnFacts, NoForeignMark, StartJob
  <2>4. \A q \in Runner :
          /\ run'[q].ws = run[q].ws /\ run'[q].mode = run[q].mode
          /\ \/ run'[q].path = run[q].path
             \/ run'[q].mode # "adopt" /\ run'[q].pc # "undo"
          /\ run'[q].pc = "idle" <=> run[q].pc = "idle"
          /\ run'[q].pc = "undo" => run[q].pc = "undo" \/ Own(q)
          /\ run'[q].pc \in {"checked", "sync", "verify", "fetch", "create"} =>
               run'[q].mode # "adopt"
    BY <1>s, <1>i DEF OwnInv, OwnFacts, AdoptSkipsCreation
  <2>5. maker' = maker /\ raced \subseteq raced'
    BY <1>s DEF StartJob
  <2>. QED  BY <2>3, <2>4, <2>5, MakersStay DEF OwnFacts
\* The job of r is rewritten, or not, while r goes on or ends.
<1>o. ASSUME NEW loc, Goto(r, loc), Working(r), raced' = raced,
             \A v \in Workspace \ {w} : job'[v] = job[v],
             loc \in Unmade => run[r].pc \in Unmade /\ (~job[w].created => ~job'[w].created)
      PROVE  NoForeignMark'
  BY <1>o, <1>g, OthersUnmarked
<1>j. ASSUME NEW step, \/ job' = [job EXCEPT ![w] = Marked(w, step)]
                       \/ job' = [job EXCEPT ![w] = Progress(w, step)]
                       \/ job' = job
      PROVE  \A v \in Workspace \ {w} : job'[v] = job[v]
  BY <1>j, <1>t DEF TypeOK
<1>p. ASSUME job' = [job EXCEPT ![w] = Progress(w, "working")]
      PROVE  ~job[w].created => ~job'[w].created
  BY <1>p, <1>i, <1>t DEF TypeOK, Progress, NoJob, Job
\* The three ways to go on once the worktree is there.
<1>c. ASSUME Ready(r) \/ StatusThrows(r) \/ CleanUp(r), raced' = raced,
             run[r].pc \in {"config", "create"}
      PROVE  /\ NoForeignMark'
             /\ Goto(r, "done") \/ Goto(r, "undo") \/ Goto(r, "cleanup")
  <2>1. CASE Ready(r)
    BY <1>c, <2>1, <1>j, <1>o DEF Ready, Finish, Working, Unmade
  <2>2. CASE CleanUp(r)
    BY <1>c, <2>2, <1>j, <1>o DEF CleanUp, Working, Unmade
  <2>3. CASE StatusThrows(r) /\ Fail(r)
    BY <1>c, <2>3, <1>j, <1>o DEF Fail, Finish, Working, Unmade
  <2>4. CASE StatusThrows(r) /\ ~Fail(r)
    BY <1>c, <2>4, <1>j, <1>o DEF StatusThrows, Working, Unmade
  <2>. QED  BY <1>c, <2>1, <2>2, <2>3, <2>4
<1>f. ASSUME Fail(r), Working(r), raced' = raced
      PROVE  NoForeignMark' /\ Goto(r, "done")
  BY <1>f, <1>j, <1>o DEF Fail, Finish, Unmade
<1>1. CASE CreateStart(r)
  BY <1>1, <1>s, <1>g
     DEF CreateStart
<1>2. CASE CreateThrows(r)
  BY <1>2, <1>m, <1>g, MarksStay
     DEF CreateThrows, OwnFacts, Unmade, manager, history
<1>3. ASSUME NEW p \in Path, RetryStart(r, p)
      PROVE  OwnFacts'
  <2>1. /\ \A q \in Runner \ {r} : run'[q] = run[q]
        /\ run'[r].ws = w /\ run'[r].mode = run[r].mode /\ run'[r].pc = "lock"
    BY <1>3, <1>t DEF RetryStart, TypeOK
  <2>2. run[r].mode # "adopt"
    BY <1>3 DEF RetryStart, OwnInv, OwnFacts, AdoptSkipsCreation
  <2>. QED  BY <1>3, <2>1, <2>2, <1>s DEF RetryStart
<1>17. CASE RetryThrows(r)
  BY <1>17, <1>m, <1>g, MarksStay
     DEF RetryThrows, OwnFacts, Unmade, manager, history
<1>4. CASE InitLocked(r)
  BY <1>4, <1>m, <1>g, MarksStay
     DEF InitLocked, OwnFacts, Unmade, manager, history
<1>5. CASE InitCancelledAtLock(r)
  BY <1>5, <1>m, <1>g, MarksStay
     DEF InitCancelledAtLock, Finish, OwnFacts, Unmade, history
<1>6. CASE ConfigDone(r)
  <2>1. PICK loc \in {"sync", "create"} : Goto(r, loc)
    BY <1>6 DEF ConfigDone
  <2>2. NoForeignMark'
    BY <1>6, <2>1, <1>j, <1>p, <1>o DEF ConfigDone, Working, Unmade, history
  <2>. QED  BY <1>6, <2>1, <2>2, <1>m DEF ConfigDone, OwnFacts, history
<1>7. CASE ConfigDoneAdopt(r)
  <2>1. Own(r)
    BY <1>7 DEF ConfigDoneAdopt, OwnInv, OwnFacts, AdoptedIsMade, Own
  <2>2. raced' = raced /\ maker' = maker
    BY <1>7 DEF ConfigDoneAdopt, history
  <2>3. NoForeignMark' /\ (Goto(r, "done") \/ Goto(r, "undo") \/ Goto(r, "cleanup"))
    BY <1>7, <1>c, <2>2 DEF ConfigDoneAdopt
  <2>. QED  BY <2>1, <2>2, <2>3, <1>m DEF OwnFacts
<1>8. CASE Advance(r)
  <2>1. PICK loc \in {"verify", "fetch", "create"} : Goto(r, loc)
    BY <1>8 DEF Advance, NextOf
  <2>2. NoForeignMark'
    BY <1>8, <2>1, <1>j, <1>p, <1>o DEF Advance, NextOf, Working, Unmade, history
  <2>3. run[r].mode # "adopt"
    BY <1>8 DEF Advance, NextOf, OwnInv, OwnFacts, AdoptSkipsCreation
  <2>. QED  BY <1>8, <2>1, <2>2, <2>3, <1>m DEF Advance, OwnFacts, history
<1>9. CASE AdvanceCancelled(r)
  BY <1>9, <1>m, <1>g, MarksStay
     DEF AdvanceCancelled, Finish, OwnFacts, Unmade, history
<1>10. CASE NoReference(r)
  BY <1>10, <1>f, <1>m
     DEF NoReference, OwnFacts, Working, history
<1>11. CASE WorktreeCreated(r)
  <2>1. raced' = raced /\ maker' = [maker EXCEPT ![JobDir(r)] = r] /\ run[r].pc = "create"
    BY <1>11 DEF WorktreeCreated
  <2>2. NoForeignMark' /\ (Goto(r, "done") \/ Goto(r, "undo") \/ Goto(r, "cleanup"))
    BY <1>11, <1>c, <2>1 DEF WorktreeCreated
  <2>. QED  BY <2>1, <2>2, <1>k DEF OwnFacts
<1>12. CASE Throw(r)
  <2>1. /\ raced' = raced /\ run[r].pc \in Unmade /\ Working(r)
        /\ \/ maker' = maker
           \/ run[r].pc = "create" /\ maker' = [maker EXCEPT ![JobDir(r)] = r]
    BY <1>12 DEF Throw, Unmade, Working
  <2>2. CASE job[w].created
    <3>1. Goto(r, "undo") /\ job' = job
      BY <1>12, <2>2 DEF Throw
    <3>2. Own(r)
      BY <2>1, <2>2 DEF OwnInv, OwnFacts, NoForeignMark, Own
    <3>3. NoForeignMark'
      BY <2>1, <3>1, <1>o DEF Unmade
    <3>4. CASE maker' = maker
      BY <2>1, <3>1, <3>2, <3>3, <3>4, <1>m DEF OwnFacts
    <3>5. CASE run[r].pc = "create" /\ maker' = [maker EXCEPT ![JobDir(r)] = r]
      BY <2>1, <3>1, <3>3, <3>5, <1>k DEF OwnFacts
    <3>. QED  BY <2>1, <3>4, <3>5
  <2>3. CASE ~job[w].created
    <3>1. Fail(r)
      BY <1>12, <2>3 DEF Throw
    <3>2. NoForeignMark' /\ Goto(r, "done")
      BY <2>1, <3>1, <1>f
    <3>3. CASE maker' = maker
      BY <2>1, <3>2, <3>3, <1>m DEF OwnFacts
    <3>4. CASE run[r].pc = "create" /\ maker' = [maker EXCEPT ![JobDir(r)] = r]
      BY <2>1, <3>2, <3>4, <1>k DEF OwnFacts
    <3>. QED  BY <2>1, <3>3, <3>4
  <2>. QED  BY <2>2, <2>3
<1>13. CASE CleanupDone(r)
  BY <1>13, <1>m, <1>g, MarksStay
     DEF CleanupDone, Finish, OwnFacts, Unmade, history
<1>14. CASE UndoDone(r)
  BY <1>14, <1>f, <1>m
     DEF UndoDone, OwnFacts, Working, history
<1>15. CASE RepoReady(r)
  <2>1. NoForeignMark'
    BY <1>15, <1>j, <1>o DEF RepoReady, Working, Unmade, history
  <2>. QED  BY <1>15, <2>1, <1>m DEF RepoReady, OwnFacts, history
<1>16. CASE RepoFails(r)
  <2>1. \A v \in Workspace \ {w} : job'[v] = job[v]
    BY <1>16, <1>t DEF RepoFails, TypeOK
  <2>2. NoForeignMark'
    BY <1>16, <2>1, <1>o DEF RepoFails, Working, Unmade, history
  <2>. QED  BY <1>16, <2>2, <1>m DEF RepoFails, OwnFacts, history
<1>. QED  BY <1>1, <1>2, <1>3, <1>4, <1>5, <1>6, <1>7, <1>8, <1>9, <1>10, <1>11, <1>12, <1>13, <1>14, <1>15, <1>16, <1>17 DEF RunStep

LEMMA RowNext ==
  ASSUME GitInv, CallHasRow, [Next]_vars
  PROVE  CallHasRow'
<1>t. TypeOK /\ HasWorkspace
  BY DEF GitInv
<1>1. CASE UNCHANGED vars
  BY <1>1 DEF vars, CallHasRow
<1>2. ASSUME NEW r \in Runner, RunStep(r)
      PROVE  CallHasRow'
  <2>1. /\ row' = row /\ run[r].pc # "idle"
        /\ \A q \in Runner \ {r} : run'[q] = run[q]
        /\ run'[r].ws = run[r].ws
    BY <1>2, RunStepIsJobStep DEF JobStep
  <2>2. context' \subseteq context
    BY <1>2 DEF RunStep, CreateStart, CreateThrows, RetryStart, RetryThrows, InitLocked, InitCancelledAtLock,
       ConfigDone, ConfigDoneAdopt, Advance, AdvanceCancelled, NoReference, WorktreeCreated,
       Throw, CleanupDone, UndoDone, RepoReady, RepoFails
  <2>. QED  BY <2>1, <2>2 DEF CallHasRow
<1>3. ASSUME NEW d \in Deleter, DelStep(d)
      PROVE  CallHasRow'
  <2>1. run' = run /\ context' = context
    BY <1>3 DEF DelStep, WaitDone, WaitTimeout, TeardownFails, TeardownDone, DeleteLocked,
       RemoveDone, RemoveFails, DeleteDone, CloseDone, DeleteWorktreeLocked,
       DeleteWorktreeDone, DeleteWorktreeFails
  <2>2. \A w \in Workspace : row[w] # "none" => row'[w] # "none"
    BY <1>3, <1>t DEF DelStep, WaitDone, WaitTimeout, TeardownFails, TeardownDone, DeleteLocked,
       RemoveDone, RemoveFails, DeleteDone, CloseDone, DeleteWorktreeLocked,
       DeleteWorktreeDone, DeleteWorktreeFails, Unhide, HasRow, table, TypeOK
  <2>. QED  BY <2>1, <2>2, <1>t, ProjectOfCall DEF CallHasRow, TypeOK
<1>4. ASSUME NEW w \in Workspace, UserStep(w)
      PROVE  CallHasRow'
  <2>1. ASSUME NEW r \in Runner, NEW mode \in Mode, CreateRow(r, w, mode)
        PROVE  CallHasRow'
    BY <2>1, <1>t, ProjectOfCall DEF CreateRow, CallHasRow, TypeOK
  <2>2. ASSUME NEW r \in Runner, RetryCheck(r, w)
        PROVE  CallHasRow'
    BY <2>2, <1>t, ProjectOfCall DEF RetryCheck, CallHasRow, TypeOK, table
  <2>3. ASSUME NEW r \in Runner, AgentCreate(r, w)
        PROVE  CallHasRow'
    BY <2>3, <1>t, ProjectOfCall DEF AgentCreate, RepoStart, CallHasRow, TypeOK
  <2>4. ASSUME NEW r \in Runner, AgentRetry(r, w)
        PROVE  CallHasRow'
    BY <2>4, <1>t, ProjectOfCall DEF AgentRetry, RepoStart, CallHasRow, TypeOK, HasRow
  <2>5. ASSUME NEW d \in Deleter, DeleteStart(d, w) \/ CloseStart(d, w) \/ DeleteWorktreeStart(d, w)
        PROVE  CallHasRow'
    BY <2>5, <1>t, ProjectOfCall DEF DeleteStart, CloseStart, DeleteWorktreeStart, CallHasRow,
       TypeOK, table
  <2>. QED  BY <1>4, <2>1, <2>2, <2>3, <2>4, <2>5 DEF UserStep
<1>5. ASSUME NEW w \in Workspace, ReadyTimer(w)
      PROVE  CallHasRow'
  BY <1>5 DEF ReadyTimer, CallHasRow, table
<1>6. CASE Restart
  BY <1>6, <1>t DEF Restart, CallHasRow, TypeOK
<1>. QED  BY <1>1, <1>2, <1>3, <1>4, <1>5, <1>6 DEF Next

\* A call begins, about a row that nobody has touched or without making anything.
LEMMA CallBegins ==
  ASSUME OwnInv, NEW r \in Runner, NEW w \in Workspace, NEW p \in Path,
         NEW mode \in Mode, NEW loc \in {"inserted", "checked", "repo"}, run[r].pc = "idle",
         run' = [run EXCEPT ![r] = [ws |-> w, path |-> p, mode |-> mode, pc |-> loc]],
         raced \subseteq raced', loc = "checked" => mode # "adopt",
         \/ maker' = maker /\ mode # "adopt"
         \/ row[w] = "none" /\ maker' = [maker EXCEPT ![<<w, p>>] = r]
  PROVE  UndoOwn' /\ AdoptedIsMade' /\ AdoptSkipsCreation' /\ MakerHasCall' /\ IdleIsNew'
<1>t. TypeOK /\ HasWorkspace
  BY DEF OwnInv, GitInv
<1>1. /\ run'[r].ws = w /\ run'[r].mode = mode /\ run'[r].pc = loc
      /\ \A q \in Runner \ {r} : run'[q] = run[q]
      /\ JobDir(r)' = <<w, p>> /\ <<w, p>> \in Directory
  BY <1>t DEF TypeOK, JobDir, Directory
<1>2. \A x \in Directory : /\ maker[x] \in Runner \cup {None} /\ maker[x] # r
                           /\ (maker'[x] = maker[x] \/ (x = <<w, p>> /\ maker'[x] = r))
  <2>1. \A x \in Directory : maker[x] \in Runner \cup {None}
    BY <1>t DEF TypeOK
  <2>2. \A x \in Directory : maker[x] # r
    BY <2>1, ConstantsAssumption DEF OwnInv, OwnFacts, MakerHasCall
  <2>3. \A x \in Directory : maker'[x] = maker[x] \/ (x = <<w, p>> /\ maker'[x] = r)
    BY <1>t DEF TypeOK
  <2>. QED  BY <2>1, <2>2, <2>3
<1>3. ASSUME NEW q \in Runner \ {r}, run[q].pc # "idle"
      PROVE  /\ JobDir(q) \in Directory /\ JobDir(q)' = JobDir(q)
             /\ maker'[JobDir(q)] = maker[JobDir(q)]
             /\ maker[JobDir(q)] # None => maker[JobDir(q)] \in Runner \ {r}
  <2>1. JobDir(q) \in Directory /\ JobDir(q)' = JobDir(q)
    BY <1>1, <1>3, <1>t, DirOfCall DEF JobDir
  <2>2. maker' = maker \/ JobDir(q) # <<w, p>>
    BY <1>3 DEF OwnInv, CallHasRow, JobDir
  <2>. QED  BY <1>2, <2>1, <2>2
<1>4. UndoOwn'
  BY <1>1, <1>3 DEF OwnInv, OwnFacts, UndoOwn, Own
<1>5. AdoptedIsMade'
  <2>1. \A q \in Runner : run[q].mode = "adopt" => run[q].pc # "idle"
    BY DEF OwnInv, OwnFacts, IdleIsNew
  <2>2. mode = "adopt" => maker'[<<w, p>>] = r
    BY <1>1, <1>t DEF TypeOK
  <2>. QED  BY <1>1, <1>3, <2>1, <2>2 DEF OwnInv, OwnFacts, AdoptedIsMade
<1>6. AdoptSkipsCreation' /\ IdleIsNew'
  BY <1>1 DEF OwnInv, OwnFacts, AdoptSkipsCreation, IdleIsNew
<1>7. MakerHasCall'
  BY <1>1, <1>2 DEF OwnInv, OwnFacts, MakerHasCall
<1>. QED  BY <1>4, <1>5, <1>6, <1>7

LEMMA UserStepOwn ==
  ASSUME OwnInv, NEW w \in Workspace, UserStep(w)
  PROVE  OwnFacts'
<1>t. TypeOK /\ HasWorkspace /\ FirstPath[w] \in Path /\ path[w] \in Path
  BY ConstantsAssumption DEF OwnInv, GitInv, TypeOK
<1>1. ASSUME NEW r \in Runner, NEW mode \in Mode, CreateRow(r, w, mode)
      PROVE  OwnFacts'
  <2>1. NoForeignMark'
    BY <1>1, <1>t, MarksStay DEF CreateRow, Unmade, manager, TypeOK
  <2>. QED  BY <1>1, <1>t, <2>1, CallBegins DEF CreateRow, OwnFacts
<1>2. ASSUME NEW r \in Runner, RetryCheck(r, w)
      PROVE  OwnFacts'
  <2>1. NoForeignMark'
    BY <1>2, <1>t, MarksStay DEF RetryCheck, Unmade, manager, history, TypeOK
  <2>. QED  BY <1>2, <1>t, <2>1, CallBegins DEF RetryCheck, OwnFacts, history, Mode
<1>3. ASSUME NEW r \in Runner, run[r].pc = "idle", RepoStart(r, w), path'[w] \in Path
      PROVE  OwnFacts'
  <2>1. /\ job'[w].created = FALSE /\ \A v \in Workspace \ {w} : job'[v] = job[v]
        /\ raced \subseteq raced' /\ maker' = maker
    BY <1>3, <1>t DEF RepoStart, StartJob, TypeOK
  <2>2. \A q \in Runner : run'[q].pc \in Unmade =>
          run[q].pc \in Unmade /\ run'[q].ws = run[q].ws /\ run[q].ws \in Workspace
    BY <1>3, <1>t, ProjectOfCall DEF RepoStart, Unmade, TypeOK
  <2>3. NoForeignMark'
    BY <2>1, <2>2 DEF OwnInv, OwnFacts, NoForeignMark
  <2>. QED  BY <1>3, <2>1, <2>3, CallBegins DEF RepoStart, OwnFacts, Mode
<1>4. ASSUME NEW d \in Deleter, DeleteStart(d, w) \/ CloseStart(d, w) \/ DeleteWorktreeStart(d, w)
      PROVE  OwnFacts'
  <2>1. run' = run /\ job' = job /\ raced' = raced /\ maker' = maker
    BY <1>4 DEF DeleteStart, CloseStart, DeleteWorktreeStart, manager, history
  <2>. QED  BY <2>1 DEF OwnInv, OwnFacts, NoForeignMark, UndoOwn, AdoptedIsMade,
                        AdoptSkipsCreation, MakerHasCall, IdleIsNew, Own, JobDir
<1>5. ASSUME NEW r \in Runner, AgentCreate(r, w) \/ AgentRetry(r, w)
      PROVE  path'[w] \in Path
  BY <1>5, <1>t DEF AgentCreate, AgentRetry, TypeOK
<1>. QED  BY <1>1, <1>2, <1>3, <1>4, <1>5 DEF UserStep, AgentCreate, AgentRetry

LEMMA OwnNext == OwnInv /\ [Next]_vars => OwnInv'
<1>. SUFFICES ASSUME OwnInv, [Next]_vars PROVE OwnInv'
  OBVIOUS
<1>t. TypeOK /\ HasWorkspace /\ CallHasRow
  BY DEF OwnInv, GitInv
\* Only the manager's jobs change, and no mark is set.
<1>m. ASSUME run' = run, maker' = maker, raced \subseteq raced',
             \A w \in Workspace : job'[w] = job[w] \/ ~job'[w].created
      PROVE  OwnFacts'
  <2>1. \A r \in Runner : run[r].pc \in Unmade => run[r].ws \in Workspace
    BY <1>t, ProjectOfCall DEF Unmade
  <2>. QED  BY <1>m, <2>1 DEF OwnInv, OwnFacts, NoForeignMark, UndoOwn, AdoptedIsMade,
                 AdoptSkipsCreation, MakerHasCall, IdleIsNew, Own, JobDir
<1>1. OwnFacts'
  <2>1. CASE UNCHANGED vars
    BY <2>1, <1>m DEF vars
  <2>2. ASSUME NEW d \in Deleter, DelStep(d)
        PROVE  OwnFacts'
    <3>1. run' = run /\ maker' = maker /\ raced \subseteq raced'
      BY <2>2 DEF DelStep, WaitDone, WaitTimeout, TeardownFails, TeardownDone, DeleteLocked,
         RemoveDone, RemoveFails, DeleteDone, CloseDone, DeleteWorktreeLocked,
         DeleteWorktreeDone, DeleteWorktreeFails, history
    <3>2. job' = job \/ ClearJob(del[d].ws)
      BY <2>2 DEF DelStep, WaitDone, WaitTimeout, TeardownFails, TeardownDone, DeleteLocked,
         RemoveDone, RemoveFails, DeleteDone, CloseDone, DeleteWorktreeLocked,
         DeleteWorktreeDone, DeleteWorktreeFails, manager
    <3>3. \A w \in Workspace : job'[w] = job[w] \/ ~job'[w].created
      BY <3>2, <1>t DEF ClearJob, NoJob, TypeOK
    <3>. QED  BY <3>1, <3>3, <1>m
  <2>3. ASSUME NEW w \in Workspace, ReadyTimer(w)
        PROVE  OwnFacts'
    <3>1. \A v \in Workspace : job'[v] = job[v] \/ ~job'[v].created
      BY <2>3, <1>t DEF ReadyTimer, NoJob, TypeOK
    <3>. QED  BY <2>3, <3>1, <1>m DEF ReadyTimer, history
  <2>4. CASE Restart
    <3>1. \A r \in Runner : /\ run'[r].ws = run[r].ws /\ run'[r].mode = run[r].mode
                            /\ run'[r].path = run[r].path
                            /\ run'[r].pc = "idle" <=> run[r].pc = "idle"
                            /\ run'[r].pc \in {"idle", "done"}
      BY <2>4, <1>t DEF Restart, TypeOK
    <3>2. NoForeignMark'
      BY <3>1 DEF NoForeignMark, Unmade
    <3>3. UndoOwn' /\ AdoptedIsMade' /\ AdoptSkipsCreation' /\ MakerHasCall' /\ IdleIsNew'
      BY <2>4, <3>1, MakersStay DEF Restart
    <3>. QED  BY <3>2, <3>3 DEF OwnFacts
  <2>. QED  BY <2>1, <2>2, <2>3, <2>4, RunStepOwn, UserStepOwn DEF Next
<1>. QED  BY <1>1, <1>t, GitNext, PromiseNext, RowNext DEF OwnInv

\* A job that failed removes no worktree but its own, although the mark that tells
\* it to is filed by workspace: a job that has not made one yet finds no mark
\* unless another job overlapped with it, and finds its own afterwards.
THEOREM OwnWorktreeOnly == Spec => FailureRemovesOwnWorktree
<1>1. Init => OwnInv
  <2>. SUFFICES ASSUME Init PROVE OwnInv
    OBVIOUS
  <2>1. GitInv
    BY GitInit
  <2>2. PromiseInv
    <3>1. PromiseFacts
      BY ConstantsAssumption DEF Init, PromiseFacts, TwoJobsAreRaced, PromiseOfCall,
         ResolvedCalls, ResolvedAtTheEnd, Working
    <3>. QED  BY <3>1, TypeInit DEF PromiseInv, PromiseFacts
  <2>3. OwnFacts /\ CallHasRow
    BY DEF Init, OwnFacts, NoForeignMark, UndoOwn, AdoptedIsMade, AdoptSkipsCreation,
           MakerHasCall, IdleIsNew, Unmade, CallHasRow
  <2>. QED  BY <2>1, <2>2, <2>3 DEF OwnInv
<1>2. OwnInv => \A r \in Runner :
        run[r].pc = "undo" /\ run'[r].pc = "done" /\ JobDir(r) \in disk \ disk' => Own(r)
  BY DEF OwnInv, OwnFacts, UndoOwn
<1>. QED  BY <1>1, <1>2, OwnNext, PTL DEF Spec, FailureRemovesOwnWorktree

==============================================================================
