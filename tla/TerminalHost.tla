----------------------------- MODULE TerminalHost -----------------------------
(***************************************************************************)
(* The session table of the terminal daemon (main/terminal-host/           *)
(* terminal-host.ts), with the life of the Session objects it holds        *)
(* (session.ts) and the daemon's socket handlers that call it (index.ts).  *)
(*                                                                         *)
(* A Session object is named by the createOrAttach request that created    *)
(* it, so sessions[id] = r reads "the map holds, under id, the object that *)
(* request r built".  An object outlives its place in the map: its process *)
(* is killed asynchronously and its exit callback looks the map up BY ID,  *)
(* where a younger object of the same id may stand by then.                *)
(*                                                                         *)
(* An action is one run of a handler up to its next await.                 *)
(***************************************************************************)
EXTENDS Naturals, Sequences, FiniteSets

CONSTANTS Request,     \* createOrAttach requests, and the objects they create
          Id,          \* session ids (the client uses one per terminal pane)
          Socket,      \* stream sockets of the clients
          MaxSpawns,   \* MAX_CONCURRENT_SPAWNS
          None         \* "undefined"

ASSUME MaxSpawnsAssumption == MaxSpawns \in Nat \ {0}
ASSUME NoneAssumption == None \notin Request

VARIABLES
  sessions,     \* Map id -> Session
  killTimers,   \* the ids that have a kill timer running (keys of the Map)
  cleanup,      \* objects whose exit armed a 5s cleanup timer that still runs
  inUse,        \* Semaphore.inUse
  queue,        \* Semaphore.queue
  pc,           \* where each createOrAttach call stands
  session,      \* the Session objects
  running,      \* objects whose subprocess exists in the operating system
  open,         \* stream sockets that have not closed
  shutdown,     \* stopServer has called dispose()
  target,       \* the id each request names
  from,         \* the stream socket each request was read for
  overlapped    \* history: ids for which two creations were in flight at once

vars == <<sessions, killTimers, cleanup, inUse, queue, pc, session, running,
          open, shutdown, target, from, overlapped>>

SessionFields == [subprocess : BOOLEAN, ready : BOOLEAN, exited : BOOLEAN,
                  terminating : BOOLEAN, disposed : BOOLEAN,
                  clients : SUBSET Socket]

NotSpawned == [subprocess |-> FALSE, ready |-> FALSE, exited |-> FALSE,
               terminating |-> FALSE, disposed |-> FALSE, clients |-> {}]

PC == {"idle", "queued", "granted", "starting", "done", "failed"}

InCreation(r) == pc[r] \in {"queued", "granted", "starting"}

IsAlive(s) == session[s].subprocess /\ ~session[s].exited
IsTerminating(s) == session[s].terminating
IsAttachable(s) == IsAlive(s) /\ ~IsTerminating(s)

\* The objects the map holds.
Held == {sessions[i] : i \in Id} \ {None}

Init ==
  /\ sessions = [i \in Id |-> None]
  /\ killTimers = {}
  /\ cleanup = {}
  /\ inUse = 0
  /\ queue = <<>>
  /\ pc = [r \in Request |-> "idle"]
  /\ session = [r \in Request |-> NotSpawned]
  /\ running = {}
  /\ open = Socket
  /\ shutdown = FALSE
  /\ target \in [Request -> Id]
  /\ from \in [Request -> Socket]
  /\ overlapped = {}

------------------------------------------------------------------------------
(* Session operations *)

\* Session.dispose of every object of S: the process reference, its queues and
\* its clients go; the process itself is only sent SIGKILL and exits later.
Dispose(S) ==
  [s \in Request |->
     IF s \in S
     THEN [session[s] EXCEPT !.subprocess = FALSE, !.disposed = TRUE,
                             !.clients = {}]
     ELSE session[s]]

\* Variant: cleanup is scheduled only while somebody is attached.
HandleExitIfAttached(s) ==
  /\ killTimers' = killTimers \ {target[s]}
  /\ cleanup' = IF session[s].clients = {} THEN cleanup ELSE cleanup \cup {s}

\* handleSessionExit for object s.  Everything in it is keyed by the id, not by s.
\* (onUnattachedExit only writes an event to the stream sockets.)
HandleSessionExit(s) ==
  /\ killTimers' = killTimers \ {target[s]}
  /\ cleanup' = cleanup \cup {s}

------------------------------------------------------------------------------
(* The spawn limiter: class Semaphore *)

\* Variant: the bound is off by one.
AcquireOffByOne(r) ==
  /\ inUse' = inUse + 1
  /\ inUse <= MaxSpawns
  /\ pc' = [pc EXCEPT ![r] = "granted"]
  /\ UNCHANGED queue

Acquire(r) ==
  IF inUse < MaxSpawns
  THEN /\ inUse' = inUse + 1
       /\ pc' = [pc EXCEPT ![r] = "granted"]
       /\ UNCHANGED queue
  ELSE /\ queue' = Append(queue, r)
       /\ pc' = [pc EXCEPT ![r] = "queued"]
       /\ UNCHANGED inUse

\* Variant: nobody wakes the next waiter.
ReleaseNoHandOver(r, next) ==
  /\ inUse' = inUse - 1
  /\ pc' = [pc EXCEPT ![r] = next]
  /\ UNCHANGED queue

\* r gives its permit back and moves on to `next`.
Release(r, next) ==
  LET decremented == IF inUse > 0 THEN inUse - 1 ELSE 0
  IN IF queue = <<>>
     THEN /\ inUse' = decremented
          /\ pc' = [pc EXCEPT ![r] = next]
          /\ UNCHANGED queue
     ELSE /\ inUse' = decremented + 1
          /\ pc' = [pc EXCEPT ![r] = next, ![Head(queue)] = "granted"]
          /\ queue' = Tail(queue)

------------------------------------------------------------------------------
(* createOrAttach *)

\* The session exists and can be attached to.
AttachExisting(r) ==
  LET s == sessions[target[r]]
  IN /\ pc[r] = "idle"
     /\ from[r] \in open
     /\ s # None
     /\ IsAttachable(s)
     /\ session' = [session EXCEPT ![s].clients = @ \cup {from[r]}]
     /\ pc' = [pc EXCEPT ![r] = "done"]
     /\ UNCHANGED <<sessions, killTimers, cleanup, inUse, queue, running, open,
                    shutdown, target, from, overlapped>>

\* Variant: the old object leaves the map but is not disposed of.
BeginCreateNoDispose(r) ==
  /\ pc[r] = "idle"
  /\ sessions[target[r]] # None => ~IsAttachable(sessions[target[r]])
  /\ sessions' = [sessions EXCEPT ![target[r]] = None]
  /\ Acquire(r)
  /\ UNCHANGED <<killTimers, cleanup, session, running, open, shutdown, target,
                 from, overlapped>>

\* There is none, or a terminating or dead one that is disposed of first; then
\* the call waits for the spawn limiter.
BeginCreate(r) ==
  LET id == target[r]
      s == sessions[id]
  IN /\ pc[r] = "idle"
     /\ from[r] \in open
     /\ s # None => ~IsAttachable(s)
     /\ sessions' = [sessions EXCEPT ![id] = None]
     /\ session' = Dispose({s})
     /\ killTimers' = IF s # None /\ IsTerminating(s)
                      THEN killTimers \ {id}
                      ELSE killTimers
     /\ Acquire(r)
     /\ overlapped' = IF \E q \in Request : InCreation(q) /\ target[q] = id
                      THEN overlapped \cup {id}
                      ELSE overlapped
     /\ UNCHANGED <<cleanup, running, open, shutdown, target, from>>

\* With the permit: createSession, onExit, spawn; then wait for the PTY.
SpawnSession(r) ==
  /\ pc[r] = "granted"
  /\ pc' = [pc EXCEPT ![r] = "starting"]
  /\ session' = [session EXCEPT ![r].subprocess = TRUE]
  /\ running' = running \cup {r}
  /\ UNCHANGED <<sessions, killTimers, cleanup, inUse, queue, open, shutdown,
                 target, from, overlapped>>

\* createSession or spawn throws: the permit is given back, the call rejects.
SpawnThrows(r) ==
  /\ pc[r] = "granted"
  /\ Release(r, "failed")
  /\ UNCHANGED <<sessions, killTimers, cleanup, session, running, open,
                 shutdown, target, from, overlapped>>

\* The wait for the PTY is over: the permit is given back; a process that is
\* already gone fails the call, a live one enters the map and gets its client.
FinishCreate(r) ==
  /\ pc[r] = "starting"
  /\ IF IsAlive(r)
     THEN /\ Release(r, "done")
          /\ sessions' = [sessions EXCEPT ![target[r]] = r]
          /\ session' = [session EXCEPT ![r].clients = @ \cup {from[r]}]
     ELSE /\ Release(r, "failed")
          /\ session' = Dispose({r})
          /\ UNCHANGED sessions
  /\ UNCHANGED <<killTimers, cleanup, running, open, shutdown, target, from,
                 overlapped>>

\* waitForReady resolved ...
SpawnReady(r) == session[r].ready /\ FinishCreate(r)

\* ... or SPAWN_READY_TIMEOUT_MS went by without an answer.
SpawnTimeout(r) == ~session[r].ready /\ FinishCreate(r)

------------------------------------------------------------------------------
(* kill, detach and the daemon's sockets *)

\* Session.kill, then the fail-safe timer (unless one runs already), for every id
\* of I that has a session.
KillIds(I) ==
  LET hit == {i \in I : sessions[i] # None}
  IN /\ hit # {}
     /\ session' = [s \in Request |->
                      IF \E i \in hit : sessions[i] = s
                      THEN [session[s] EXCEPT !.terminating = TRUE]
                      ELSE session[s]]
     /\ killTimers' = killTimers \cup hit
     /\ UNCHANGED <<sessions, cleanup, inUse, queue, pc, running, open,
                    shutdown, target, from, overlapped>>

Kill(id) == KillIds({id})
KillAll == KillIds(Id)

\* Drop socket k from the objects of S; those that are dead and have no client
\* left are disposed of and leave the map.
DetachFrom(k, S) ==
  LET left(s) == session[s].clients \ {k}
      dropped == {s \in S : ~IsAlive(s) /\ left(s) = {}}
  IN /\ session' = [s \in Request |->
                      IF s \in dropped THEN Dispose(dropped)[s]
                      ELSE IF s \in S THEN [session[s] EXCEPT !.clients = left(s)]
                      ELSE session[s]]
     /\ sessions' = [i \in Id |-> IF sessions[i] \in dropped THEN None
                                  ELSE sessions[i]]

Detach(k, id) ==
  /\ k \in open
  /\ sessions[id] # None
  /\ DetachFrom(k, {sessions[id]})
  /\ UNCHANGED <<killTimers, cleanup, inUse, queue, pc, running, open,
                 shutdown, target, from, overlapped>>

\* Variant: the close handler forgets the sessions.
SocketCloseNoDetach(k) ==
  /\ k \in open
  /\ open' = open \ {k}
  /\ UNCHANGED <<sessions, killTimers, cleanup, inUse, queue, pc, session, running,
                 shutdown, target, from, overlapped>>

\* The close event of a stream socket, or its replacement by a newer hello.
SocketClose(k) ==
  /\ k \in open
  /\ open' = open \ {k}
  /\ DetachFrom(k, Held)
  /\ UNCHANGED <<killTimers, cleanup, inUse, queue, pc, running, shutdown,
                 target, from, overlapped>>

\* stopServer: TerminalHost.dispose.  Calls in flight go on while it waits.
Shutdown ==
  /\ ~shutdown
  /\ shutdown' = TRUE
  /\ killTimers' = {}
  /\ sessions' = [i \in Id |-> None]
  /\ session' = Dispose(Held)
  /\ UNCHANGED <<cleanup, inUse, queue, pc, running, open, target, from,
                 overlapped>>

------------------------------------------------------------------------------
(* What the subprocesses do *)

\* The Spawned frame.  No frame is decoded once the object let go of its process.
SpawnedFrame(s) ==
  /\ s \in running
  /\ session[s].subprocess
  /\ ~session[s].ready
  /\ session' = [session EXCEPT ![s].ready = TRUE]
  /\ UNCHANGED <<sessions, killTimers, cleanup, inUse, queue, pc, running, open,
                 shutdown, target, from, overlapped>>

\* The Exit frame: the shell is gone, the subprocess still runs.
ExitFrame(s) ==
  /\ s \in running
  /\ session[s].subprocess
  /\ session[s].ready
  /\ ~session[s].exited
  /\ session' = [session EXCEPT ![s].exited = TRUE]
  /\ HandleSessionExit(s)
  /\ UNCHANGED <<sessions, inUse, queue, pc, running, open, shutdown, target,
                 from, overlapped>>

\* The subprocess itself exits (after an Exit frame, on its own, or killed).
\* The listener survives dispose, so a disposed object still reports its exit.
SubprocessExit(s) ==
  /\ s \in running
  /\ running' = running \ {s}
  /\ session' = [session EXCEPT ![s] = [@ EXCEPT !.exited = TRUE, !.ready = TRUE,
                                                !.subprocess = FALSE]]
  /\ IF session[s].exited
     THEN UNCHANGED <<killTimers, cleanup>>
     ELSE HandleSessionExit(s)
  /\ UNCHANGED <<sessions, inUse, queue, pc, open, shutdown, target, from,
                 overlapped>>

------------------------------------------------------------------------------
(* Timers *)

\* Variant: the timer goes off and leaves the session alone.
KillTimerNoDispose(id) ==
  /\ id \in killTimers
  /\ killTimers' = killTimers \ {id}
  /\ UNCHANGED <<sessions, session, cleanup, inUse, queue, pc, running, open,
                 shutdown, target, from, overlapped>>

\* KILL_TIMEOUT_MS after the kill that armed it.
KillTimerFires(id) ==
  /\ id \in killTimers
  /\ killTimers' = killTimers \ {id}
  /\ LET s == sessions[id]
     IN IF s # None /\ IsTerminating(s)
        THEN /\ session' = Dispose({s})
             /\ sessions' = [sessions EXCEPT ![id] = None]
        ELSE UNCHANGED <<session, sessions>>
  /\ UNCHANGED <<cleanup, inUse, queue, pc, running, open, shutdown, target,
                 from, overlapped>>

\* Variant: the timer is not re-armed while clients are attached.
CleanupFiresOnce(s) ==
  LET found == sessions[target[s]]
      reaped == {found} \cap {q \in Request : ~IsAlive(q) /\ session[q].clients = {}}
  IN /\ s \in cleanup
     /\ cleanup' = cleanup \ {s}
     /\ session' = Dispose(reaped)
     /\ sessions' = [i \in Id |-> IF sessions[i] \in reaped THEN None ELSE sessions[i]]
     /\ UNCHANGED <<killTimers, inUse, queue, pc, running, open, shutdown, target,
                    from, overlapped>>

\* The cleanup timer that the exit of s armed: it looks its id up, and does
\* nothing, or reaps the dead session it finds.  (A dead session that still has
\* clients re-arms the timer, which changes nothing here.)
CleanupTimerFires(s) ==
  LET id == target[s]
      found == sessions[id]
      dead == found # None /\ ~IsAlive(found)
  IN /\ s \in cleanup
     /\ dead => session[found].clients = {}
     /\ cleanup' = cleanup \ {s}
     /\ IF dead
        THEN /\ session' = Dispose({found})
             /\ sessions' = [sessions EXCEPT ![id] = None]
        ELSE UNCHANGED <<session, sessions>>
     /\ UNCHANGED <<killTimers, inUse, queue, pc, running, open, shutdown,
                    target, from, overlapped>>

------------------------------------------------------------------------------

Create(r) ==
  AttachExisting(r) \/ BeginCreate(r) \/ SpawnSession(r) \/ SpawnThrows(r)
    \/ SpawnReady(r) \/ SpawnTimeout(r)

Process(s) == SpawnedFrame(s) \/ ExitFrame(s) \/ SubprocessExit(s)

Next ==
  \/ \E r \in Request : Create(r)
  \/ \E s \in Request : Process(s) \/ CleanupTimerFires(s)
  \/ \E id \in Id : Kill(id) \/ KillTimerFires(id)
  \/ KillAll
  \/ \E k \in Socket, id \in Id : Detach(k, id)
  \/ \E k \in Socket : SocketClose(k)
  \/ Shutdown

Spec == Init /\ [][Next]_vars

\* Node runs every ready continuation and every expired timer; SIGKILL ends a
\* disposed object's process.  Nothing else is assumed: no client ever has to
\* speak again, no PTY has to answer, no shell has to exit.
Fairness ==
  /\ \A r \in Request : WF_vars(SpawnSession(r)) /\ WF_vars(FinishCreate(r))
  /\ \A s \in Request : /\ WF_vars(CleanupTimerFires(s))
                        /\ WF_vars(session[s].disposed /\ SubprocessExit(s))
  /\ \A id \in Id : WF_vars(KillTimerFires(id))

FairSpec == Spec /\ Fairness
------------------------------------------------------------------------------
(* Properties *)

TypeOK ==
  /\ sessions \in [Id -> Request \cup {None}]
  /\ killTimers \in SUBSET Id
  /\ cleanup \in SUBSET Request
  /\ inUse \in Nat
  /\ queue \in Seq(Request)
  /\ pc \in [Request -> PC]
  /\ session \in [Request -> SessionFields]
  /\ running \in SUBSET Request
  /\ open \in SUBSET Socket
  /\ shutdown \in BOOLEAN
  /\ target \in [Request -> Id]
  /\ from \in [Request -> Socket]
  /\ overlapped \in SUBSET Id

\* Whatever is in the map was put there under its own id by a finished call and
\* has not been disposed of: every place of terminal-host.ts that disposes of an
\* object also deletes it, in the same turn, before a call can find it.
MapHoldsUsable ==
  \A id \in Id : sessions[id] # None =>
    /\ target[sessions[id]] = id
    /\ pc[sessions[id]] = "done"
    /\ ~session[sessions[id]].disposed

\* kill: "A fail-safe timer ensures cleanup even if the PTY never exits."  What the
\* code does give: the fail-safe of a killed, still living session can be lost only
\* to the late exit of an older object with the same id.
FailSafeUnlessStaleExit ==
  \A id \in Id :
    sessions[id] # None /\ IsTerminating(sessions[id]) /\ IsAlive(sessions[id])
      => \/ id \in killTimers
         \/ \E old \in Request : /\ old # sessions[id]
                                 /\ target[old] = id
                                 /\ session[old].exited

\* A dead session that is still in the map has a cleanup timer running for it,
\* so handleSessionExit and scheduleSessionCleanup cannot leave one behind.
DeadSessionHasTimer ==
  \A id \in Id : sessions[id] # None /\ ~IsAlive(sessions[id]) =>
    sessions[id] \in cleanup

\* An object with a live process that nothing can reach any more: no id maps to
\* it, no call is starting it, nobody disposed of it.
Orphan(s) ==
  session[s].subprocess /\ pc[s] # "starting" /\ sessions[target[s]] # s

\* createOrAttach loses a live session only where two creations for its id were
\* in flight at once (the second sessions.set overwrites the first).
OrphanOnlyOnOverlap ==
  \A s \in Request : Orphan(s) => target[s] \in overlapped

\* A client is only ever attached to a live object that is not being killed and
\* that the map holds ("preventing new attachments" to a terminating session).
AttachOnlyToLive ==
  [][\A s \in Request : \A k \in session'[s].clients \ session[s].clients :
       /\ IsAlive(s)' /\ ~IsTerminating(s)'
       /\ sessions'[target[s]] = s]_vars

\* What the code does give: the only closed socket that a session of the map can
\* have among its clients is the one whose own request created it (it closed
\* during the await), whichever sessions were attached to, killed or replaced since.
GhostOnlyFromCreation ==
  \A id \in Id : sessions[id] # None =>
    session[sessions[id]].clients \ open \subseteq {from[sessions[id]]}

\* The limiter of spawns, with those as holders who have not given their permit back.
Limiter == INSTANCE CountingSemaphore
             WITH Proc <- Request, Permits <- MaxSpawns, waiting <- queue,
                  holders <- {r \in Request : pc[r] \in {"granted", "starting"}}

\* The Semaphore class is a counting semaphore: never more than MaxSpawns spawns
\* at a time, no permit lost, none given back twice, no waiter overtaken.
SpawnLimiter == Limiter!SemSpec

\* Every createOrAttach that was sent is answered: no waiter of the limiter is
\* forgotten, however its predecessors end (ready, timed out, thrown or dead).
EveryCallAnswered ==
  \A r \in Request : pc[r] # "idle" ~> pc[r] \in {"done", "failed"}

\* A dead session without clients does not stay in the map.
DeadSessionReaped ==
  \A s \in Request :
    sessions[target[s]] = s /\ ~IsAlive(s) ~>
      sessions[target[s]] # s \/ session[s].clients # {}
===============================================================================
