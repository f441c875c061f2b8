-------------------------- MODULE TerminalHostProofs --------------------------
(***************************************************************************)
(* Proofs about the session table for any number of requests, ids and      *)
(* sockets and any bound on concurrent spawns.                             *)
(***************************************************************************)
EXTENDS TerminalHost, FiniteSetTheorems, TLAPS

------------------------------------------------------------------------------
(* Dispose, field by field, so that no proof below has to unfold it. *)

LEMMA DisposeType ==
  ASSUME session \in [Request -> SessionFields], NEW S
  PROVE  Dispose(S) \in [Request -> SessionFields]
BY DEF Dispose, SessionFields

LEMMA DisposeFields ==
  ASSUME session \in [Request -> SessionFields], NEW S, NEW s \in Request
  PROVE  /\ s \notin S => Dispose(S)[s] = session[s]
         /\ s \in S => /\ Dispose(S)[s].disposed
                       /\ ~Dispose(S)[s].subprocess
                       /\ Dispose(S)[s].clients = {}
         /\ Dispose(S)[s].exited = session[s].exited
         /\ Dispose(S)[s].ready = session[s].ready
         /\ Dispose(S)[s].terminating = session[s].terminating
BY DEF Dispose, SessionFields

------------------------------------------------------------------------------
(* Type correctness *)

LEMMA ReleaseType ==
  ASSUME TypeOK, NEW r \in Request, NEW next \in PC, Release(r, next)
  PROVE  inUse' \in Nat /\ queue' \in Seq(Request) /\ pc' \in [Request -> PC]
<1>1. CASE queue = <<>>
  BY <1>1 DEF Release, TypeOK
<1>2. CASE queue # <<>>
  <2>1. Head(queue) \in Request /\ Tail(queue) \in Seq(Request)
    BY <1>2 DEF TypeOK
  <2>2. /\ inUse' = (IF inUse > 0 THEN inUse - 1 ELSE 0) + 1
        /\ queue' = Tail(queue)
    BY <1>2 DEF Release
  <2>5. inUse' \in Nat /\ queue' \in Seq(Request)
    BY <2>1, <2>2 DEF TypeOK
  <2>3. pc' = [pc EXCEPT ![r] = next, ![Head(queue)] = "granted"]
    BY <1>2 DEF Release
  <2>4. pc' \in [Request -> PC]
    BY <2>1, <2>3 DEF TypeOK, PC
  <2>. QED  BY <2>4, <2>5
<1>. QED  BY <1>1, <1>2

LEMMA AcquireType ==
  ASSUME TypeOK, NEW r \in Request, Acquire(r)
  PROVE  inUse' \in Nat /\ queue' \in Seq(Request) /\ pc' \in [Request -> PC]
BY DEF Acquire, TypeOK, PC

LEMMA InitType == Init => TypeOK
<1>1. NotSpawned \in SessionFields
  BY DEF NotSpawned, SessionFields
<1>2. "idle" \in PC
  BY DEF PC
<1>3. <<>> \in Seq(Request) /\ 0 \in Nat
  OBVIOUS
<1>. QED  BY <1>1, <1>2, <1>3 DEF Init, TypeOK

LEMMA TypeStep == TypeOK /\ [Next]_vars => TypeOK'
<1> SUFFICES ASSUME TypeOK, [Next]_vars PROVE TypeOK'
  OBVIOUS
<1>1. ASSUME NEW r \in Request, AttachExisting(r) PROVE TypeOK'
  BY <1>1 DEF AttachExisting, TypeOK, SessionFields, PC
<1>2. ASSUME NEW r \in Request, BeginCreate(r) PROVE TypeOK'
  <2>1. inUse' \in Nat /\ queue' \in Seq(Request) /\ pc' \in [Request -> PC]
    BY <1>2, AcquireType DEF BeginCreate
  <2>2. session' \in [Request -> SessionFields]
    BY <1>2, DisposeType DEF BeginCreate, TypeOK
  <2>. QED  BY <1>2, <2>1, <2>2 DEF BeginCreate, TypeOK
<1>3. ASSUME NEW r \in Request, SpawnSession(r) PROVE TypeOK'
  BY <1>3 DEF SpawnSession, TypeOK, SessionFields, PC
<1>4. ASSUME NEW r \in Request, SpawnThrows(r) PROVE TypeOK'
  <2>1. inUse' \in Nat /\ queue' \in Seq(Request) /\ pc' \in [Request -> PC]
    BY <1>4, ReleaseType DEF SpawnThrows, PC
  <2>. QED  BY <1>4, <2>1 DEF SpawnThrows, TypeOK
<1>5. ASSUME NEW r \in Request, FinishCreate(r) PROVE TypeOK'
  <2>1. inUse' \in Nat /\ queue' \in Seq(Request) /\ pc' \in [Request -> PC]
    BY <1>5, ReleaseType DEF FinishCreate, PC
  <2>2. session' \in [Request -> SessionFields]
    <3>1. CASE IsAlive(r)
      <4>1. session' = [session EXCEPT ![r].clients = @ \cup {from[r]}]
        BY <1>5, <3>1 DEF FinishCreate
      <4>. QED  BY <4>1 DEF TypeOK, SessionFields
    <3>2. CASE ~IsAlive(r)
      BY <1>5, <3>2, DisposeType DEF FinishCreate, TypeOK
    <3>. QED  BY <3>1, <3>2
  <2>. QED  BY <1>5, <2>1, <2>2 DEF FinishCreate, TypeOK
<1>6. ASSUME NEW I \in SUBSET Id, KillIds(I) PROVE TypeOK'
  BY <1>6 DEF KillIds, TypeOK, SessionFields
<1>7. ASSUME NEW k \in Socket, NEW id \in Id, Detach(k, id) PROVE TypeOK'
  BY <1>7, DisposeType DEF Detach, DetachFrom, TypeOK, SessionFields
<1>8. ASSUME NEW k \in Socket, SocketClose(k) PROVE TypeOK'
  BY <1>8, DisposeType DEF SocketClose, DetachFrom, TypeOK, SessionFields
<1>9. CASE Shutdown
  BY <1>9, DisposeType DEF Shutdown, TypeOK
<1>10. ASSUME NEW s \in Request, Process(s) PROVE TypeOK'
  <2>1. CASE SpawnedFrame(s)
    BY <2>1 DEF SpawnedFrame, TypeOK, SessionFields
  <2>2. CASE ExitFrame(s)
    BY <2>2 DEF ExitFrame, HandleSessionExit, TypeOK, SessionFields
  <2>3. CASE SubprocessExit(s)
    <3>1. session' \in [Request -> SessionFields]
      BY <2>3 DEF SubprocessExit, TypeOK, SessionFields
    <3>2. killTimers' \in SUBSET Id /\ cleanup' \in SUBSET Request
      BY <2>3 DEF SubprocessExit, HandleSessionExit, TypeOK
    <3>. QED  BY <2>3, <3>1, <3>2 DEF SubprocessExit, TypeOK
  <2>. QED  BY <1>10, <2>1, <2>2, <2>3 DEF Process
<1>11. ASSUME NEW id \in Id, KillTimerFires(id) PROVE TypeOK'
  BY <1>11, DisposeType DEF KillTimerFires, TypeOK
<1>12. ASSUME NEW s \in Request, CleanupTimerFires(s) PROVE TypeOK'
  BY <1>12, DisposeType DEF CleanupTimerFires, TypeOK
<1>13. CASE UNCHANGED vars
  BY <1>13 DEF vars, TypeOK
<1>. QED
  BY <1>1, <1>2, <1>3, <1>4, <1>5, <1>6, <1>7, <1>8, <1>9, <1>10, <1>11, <1>12,
     <1>13 DEF Next, Create, SpawnReady, SpawnTimeout, Kill, KillAll

\* Every reachable state of the daemon is well typed.
THEOREM TypeCorrect == Spec => []TypeOK
BY InitType, TypeStep, PTL DEF Spec

------------------------------------------------------------------------------
(* The inductive invariant                                                 *)
(*                                                                         *)
(* None of the properties is inductive alone.  What is missing is the life *)
(* of an object before it reaches the map: it is untouched until its call  *)
(* gets a permit, cannot be killed or disposed of while it starts, and the *)
(* limiter's queue holds each waiting call exactly once.                   *)

QueueOK ==
  /\ \A i \in 1 .. Len(queue) : pc[queue[i]] = "queued"
  /\ \A i, j \in 1 .. Len(queue) : queue[i] = queue[j] => i = j

NotYetSpawned ==
  \A s \in Request : pc[s] \in {"idle", "queued", "granted"} =>
    session[s] = NotSpawned /\ s \notin running

StartingOK ==
  \A s \in Request : pc[s] = "starting" =>
    /\ ~session[s].disposed /\ ~session[s].terminating
    /\ session[s].subprocess \/ session[s].exited
    /\ session[s].clients = {}

HeldOK ==
  \A id \in Id : sessions[id] # None =>
    /\ target[sessions[id]] = id
    /\ pc[sessions[id]] = "done"
    /\ ~session[sessions[id]].disposed
    /\ session[sessions[id]].subprocess \/ session[sessions[id]].exited

StructInv == QueueOK /\ NotYetSpawned /\ StartingOK /\ HeldOK

------------------------------------------------------------------------------
(* The limiter's queue *)

\* A call that asks for a permit gets it or joins the queue; nobody else moves.
LEMMA AcquireQueue ==
  ASSUME TypeOK, QueueOK, NEW r \in Request, pc[r] = "idle", Acquire(r)
  PROVE  /\ QueueOK'
         /\ pc'[r] \in {"granted", "queued"}
         /\ \A s \in Request \ {r} : pc'[s] = pc[s]
<1>1. CASE inUse < MaxSpawns
  BY <1>1 DEF Acquire, TypeOK, QueueOK
<1>2. CASE ~(inUse < MaxSpawns)
  <2>1. queue' = Append(queue, r) /\ pc' = [pc EXCEPT ![r] = "queued"]
    BY <1>2 DEF Acquire
  <2>2. /\ Len(queue') = Len(queue) + 1
        /\ \A i \in 1 .. Len(queue) : queue'[i] = queue[i] /\ queue[i] \in Request
        /\ queue'[Len(queue) + 1] = r
    BY <2>1 DEF TypeOK
  <2>3. \A i \in 1 .. Len(queue) : queue[i] # r
    BY DEF QueueOK
  <2>4. QueueOK'
    BY <2>1, <2>2, <2>3 DEF QueueOK, TypeOK
  <2>. QED  BY <2>1, <2>4 DEF TypeOK
<1>. QED  BY <1>1, <1>2

\* A call that returns its permit lets at most the head of the queue move on.
LEMMA ReleaseQueue ==
  ASSUME TypeOK, QueueOK, NEW r \in Request, NEW next \in {"done", "failed"},
         pc[r] # "queued", Release(r, next)
  PROVE  /\ QueueOK'
         /\ pc'[r] = next
         /\ \A s \in Request \ {r} :
              pc'[s] = pc[s] \/ (pc[s] = "queued" /\ pc'[s] = "granted")
<1>1. CASE queue = <<>>
  BY <1>1 DEF Release, TypeOK, QueueOK
<1>2. CASE queue # <<>>
  <2>1. /\ queue' = Tail(queue)
        /\ pc' = [pc EXCEPT ![r] = next, ![Head(queue)] = "granted"]
    BY <1>2 DEF Release
  <2>2. Len(queue) \in Nat /\ Len(queue) > 0 /\ Head(queue) = queue[1]
    BY <1>2 DEF TypeOK
  <2>3. Head(queue) \in Request /\ pc[Head(queue)] = "queued"
    BY <1>2, <2>2 DEF TypeOK, QueueOK
  <2>4. Head(queue) # r
    BY <2>3
  <2>5. /\ pc'[r] = next
        /\ pc'[Head(queue)] = "granted"
        /\ \A s \in Request \ {r, Head(queue)} : pc'[s] = pc[s]
    BY <2>1, <2>3, <2>4 DEF TypeOK
  <2>6. /\ Len(queue') = Len(queue) - 1
        /\ \A i \in 1 .. Len(queue') : queue'[i] = queue[i + 1]
                                       /\ i + 1 \in 1 .. Len(queue)
                                       /\ queue[i + 1] \in Request
    BY <1>2, <2>1, <2>2 DEF TypeOK
  <2>7. \A i \in 1 .. Len(queue') : queue'[i] # Head(queue) /\ queue'[i] # r
    <3> SUFFICES ASSUME NEW i \in 1 .. Len(queue')
                 PROVE  queue'[i] # Head(queue) /\ queue'[i] # r
      OBVIOUS
    <3>1. queue'[i] = queue[i + 1] /\ i + 1 \in 1 .. Len(queue) /\ i + 1 # 1
      BY <2>6, <2>2
    <3>2. 1 \in 1 .. Len(queue)
      BY <2>2
    <3>. QED  BY <3>1, <3>2, <2>2 DEF QueueOK
  <2>8. \A i \in 1 .. Len(queue') : pc'[queue'[i]] = "queued"
    BY <2>5, <2>6, <2>7 DEF QueueOK
  <2>9. \A i, j \in 1 .. Len(queue') : queue'[i] = queue'[j] => i = j
    <3> SUFFICES ASSUME NEW i \in 1 .. Len(queue'), NEW j \in 1 .. Len(queue'),
                        queue'[i] = queue'[j]
                 PROVE  i = j
      OBVIOUS
    <3>1. queue[i + 1] = queue[j + 1] /\ i + 1 \in 1 .. Len(queue)
          /\ j + 1 \in 1 .. Len(queue)
      BY <2>6
    <3>2. i + 1 = j + 1
      BY <3>1 DEF QueueOK
    <3>. QED  BY <3>2
  <2>10. QueueOK'
    BY <2>8, <2>9 DEF QueueOK
  <2>. QED  BY <2>3, <2>5, <2>10
<1>. QED  BY <1>1, <1>2

------------------------------------------------------------------------------
(* The life of an object, one lemma per group of actions *)

\* An object in the map is past its creation.
LEMMA HeldIsDone ==
  ASSUME TypeOK, HeldOK, NEW id \in Id, sessions[id] # None
  PROVE  sessions[id] \in Request /\ pc[sessions[id]] = "done"
BY DEF TypeOK, HeldOK

LEMMA StructCreate ==
  ASSUME TypeOK, StructInv, NEW r \in Request, Create(r)
  PROVE  StructInv'
<1>. USE NoneAssumption DEF StructInv
<1>1. CASE AttachExisting(r)
  <2>1. sessions[target[r]] \in Request /\ pc[sessions[target[r]]] = "done"
    BY <1>1, HeldIsDone DEF AttachExisting, TypeOK
  <2>2. PICK s \in Request :
          /\ pc[s] = "done"
          /\ session' = [session EXCEPT ![s].clients = @ \cup {from[r]}]
    BY <1>1, <2>1 DEF AttachExisting
  <2>3. \A q \in Request \ {s} : session'[q] = session[q]
    BY <2>2 DEF TypeOK
  <2>4. /\ session'[s].disposed = session[s].disposed
        /\ session'[s].subprocess = session[s].subprocess
        /\ session'[s].exited = session[s].exited
    BY <2>2 DEF TypeOK, SessionFields
  <2>5. pc' = [pc EXCEPT ![r] = "done"] /\ pc[r] = "idle"
        /\ UNCHANGED <<sessions, queue, running, target>>
    BY <1>1 DEF AttachExisting
  <2>6. QueueOK'
    BY <2>5 DEF QueueOK, TypeOK
  <2>7. NotYetSpawned'
    BY <2>2, <2>3, <2>5 DEF NotYetSpawned, TypeOK
  <2>8. StartingOK'
    BY <2>2, <2>3, <2>5 DEF StartingOK, TypeOK
  <2>9. HeldOK'
    BY <2>3, <2>4, <2>5 DEF HeldOK, TypeOK
  <2>. QED  BY <2>6, <2>7, <2>8, <2>9
<1>2. CASE BeginCreate(r)
  <2>1. /\ pc[r] = "idle" /\ Acquire(r)
        /\ sessions' = [sessions EXCEPT ![target[r]] = None]
        /\ session' = Dispose({sessions[target[r]]})
        /\ UNCHANGED <<running, target>>
    BY <1>2 DEF BeginCreate
  <2>2. /\ QueueOK'
        /\ pc'[r] \in {"granted", "queued"}
        /\ \A s \in Request \ {r} : pc'[s] = pc[s]
    BY <2>1, AcquireQueue
  <2>3. target[r] \in Id
    BY DEF TypeOK
  <2>4. \A s \in Request : pc[s] # "done" => session'[s] = session[s]
    BY <2>1, <2>3, DisposeFields, HeldIsDone DEF TypeOK
  <2>5. \A s \in Request : s # sessions[target[r]] => session'[s] = session[s]
    BY <2>1, DisposeFields DEF TypeOK
  <2>6. NotYetSpawned'
    BY <2>1, <2>2, <2>4 DEF NotYetSpawned
  <2>7. StartingOK'
    BY <2>2, <2>4 DEF StartingOK
  <2>8. HeldOK'
    <3> SUFFICES ASSUME NEW id \in Id, sessions'[id] # None
                 PROVE  /\ target[sessions[id]] = id
                        /\ pc'[sessions[id]] = "done"
                        /\ session'[sessions[id]] = session[sessions[id]]
                        /\ sessions'[id] = sessions[id]
      BY <2>1 DEF HeldOK
    <3>1. id # target[r] /\ sessions'[id] = sessions[id]
      BY <2>1, <2>3 DEF TypeOK
    <3>2. sessions[id] \in Request /\ target[sessions[id]] = id
          /\ pc[sessions[id]] = "done"
      BY <3>1 DEF HeldOK, TypeOK
    <3>3. sessions[id] # sessions[target[r]]
      BY <3>1, <3>2, <2>3 DEF HeldOK
    <3>. QED  BY <3>1, <3>2, <3>3, <2>1, <2>2, <2>5
  <2>. QED  BY <2>2, <2>6, <2>7, <2>8
<1>3. CASE SpawnSession(r)
  <2>1. /\ pc[r] = "granted" /\ pc' = [pc EXCEPT ![r] = "starting"]
        /\ session' = [session EXCEPT ![r].subprocess = TRUE]
        /\ running' = running \cup {r}
        /\ UNCHANGED <<sessions, queue, target>>
    BY <1>3 DEF SpawnSession
  <2>2. /\ session'[r].subprocess
        /\ session'[r].disposed = FALSE /\ session'[r].terminating = FALSE
        /\ session'[r].clients = {}
    BY <2>1 DEF NotYetSpawned, NotSpawned, TypeOK
  <2>3. \A s \in Request \ {r} : session'[s] = session[s] /\ pc'[s] = pc[s]
    BY <2>1 DEF TypeOK
  <2>4. QueueOK'
    BY <2>1 DEF QueueOK, TypeOK
  <2>5. NotYetSpawned'
    BY <2>1, <2>3 DEF NotYetSpawned, TypeOK
  <2>6. StartingOK'
    BY <2>2, <2>3 DEF StartingOK
  <2>7. HeldOK'
    BY <2>1, <2>3, HeldIsDone DEF HeldOK, TypeOK
  <2>. QED  BY <2>4, <2>5, <2>6, <2>7
<1>4. CASE SpawnThrows(r)
  <2>1. /\ pc[r] = "granted" /\ Release(r, "failed")
        /\ UNCHANGED <<sessions, session, running, target>>
    BY <1>4 DEF SpawnThrows
  <2>2. /\ QueueOK'
        /\ pc'[r] = "failed"
        /\ \A s \in Request \ {r} :
             pc'[s] = pc[s] \/ (pc[s] = "queued" /\ pc'[s] = "granted")
    BY <2>1, ReleaseQueue
  <2>3. NotYetSpawned'
    BY <2>1, <2>2 DEF NotYetSpawned
  <2>4. StartingOK'
    BY <2>1, <2>2 DEF StartingOK
  <2>5. HeldOK'
    BY <2>1, <2>2, HeldIsDone DEF HeldOK
  <2>. QED  BY <2>2, <2>3, <2>4, <2>5
<1>5. CASE FinishCreate(r)
  <2>1. pc[r] = "starting" /\ UNCHANGED <<running, target>>
    BY <1>5 DEF FinishCreate
  <2>2. CASE IsAlive(r)
    <3>1. /\ Release(r, "done")
          /\ sessions' = [sessions EXCEPT ![target[r]] = r]
          /\ session' = [session EXCEPT ![r].clients = @ \cup {from[r]}]
      BY <1>5, <2>2 DEF FinishCreate
    <3>2. /\ QueueOK'
          /\ pc'[r] = "done"
          /\ \A s \in Request \ {r} :
               pc'[s] = pc[s] \/ (pc[s] = "queued" /\ pc'[s] = "granted")
      BY <2>1, <3>1, ReleaseQueue
    <3>3. /\ session'[r].disposed = session[r].disposed
          /\ session'[r].subprocess = session[r].subprocess
          /\ \A s \in Request \ {r} : session'[s] = session[s]
      BY <3>1 DEF TypeOK, SessionFields
    <3>4. NotYetSpawned'
      BY <2>1, <3>2, <3>3 DEF NotYetSpawned
    <3>5. StartingOK'
      BY <3>2, <3>3 DEF StartingOK
    <3>6. HeldOK'
      <4> SUFFICES ASSUME NEW id \in Id, sessions'[id] # None
                   PROVE  /\ target[sessions'[id]] = id
                          /\ pc'[sessions'[id]] = "done"
                          /\ ~session'[sessions'[id]].disposed
                          /\ \/ session'[sessions'[id]].subprocess
                             \/ session'[sessions'[id]].exited
        BY <2>1 DEF HeldOK
      <4>1. CASE id = target[r]
        BY <4>1, <2>1, <2>2, <3>1, <3>2, <3>3 DEF TypeOK, StartingOK, IsAlive
      <4>2. CASE id # target[r]
        <5>1. sessions'[id] = sessions[id] /\ sessions[id] # r
          BY <4>2, <3>1, <2>1, HeldIsDone DEF TypeOK
        <5>. QED  BY <5>1, <3>2, <3>3, HeldIsDone DEF HeldOK
      <4>. QED  BY <4>1, <4>2
    <3>. QED  BY <3>2, <3>4, <3>5, <3>6
  <2>3. CASE ~IsAlive(r)
    <3>1. Release(r, "failed") /\ session' = Dispose({r}) /\ UNCHANGED sessions
      BY <1>5, <2>3 DEF FinishCreate
    <3>2. /\ QueueOK'
          /\ pc'[r] = "failed"
          /\ \A s \in Request \ {r} :
               pc'[s] = pc[s] \/ (pc[s] = "queued" /\ pc'[s] = "granted")
      BY <2>1, <3>1, ReleaseQueue
    <3>3. \A s \in Request \ {r} : session'[s] = session[s]
      BY <3>1, DisposeFields DEF TypeOK
    <3>4. NotYetSpawned'
      BY <2>1, <3>2, <3>3 DEF NotYetSpawned
    <3>5. StartingOK'
      BY <3>2, <3>3 DEF StartingOK
    <3>6. HeldOK'
      BY <2>1, <3>1, <3>2, <3>3, HeldIsDone DEF HeldOK
    <3>. QED  BY <3>2, <3>4, <3>5, <3>6
  <2>. QED  BY <2>2, <2>3
<1>. QED
  BY <1>1, <1>2, <1>3, <1>4, <1>5 DEF Create, SpawnReady, SpawnTimeout

\* A step outside createOrAttach that changes only objects past their creation,
\* and in the map keeps only objects it did not dispose of, preserves the structure.
LEMMA StructFrame ==
  ASSUME TypeOK, StructInv, UNCHANGED <<pc, queue, target>>,
         running' \subseteq running,
         \A s \in Request : pc[s] # "done" => session'[s] = session[s],
         \A id \in Id : sessions'[id] # None =>
           LET s == sessions[id]
           IN /\ sessions'[id] = s
              /\ session'[s].disposed = session[s].disposed
              /\ session'[s].subprocess \/ session'[s].exited
  PROVE  StructInv'
<1>1. QueueOK'
  BY DEF StructInv, QueueOK
<1>2. NotYetSpawned'
  BY DEF StructInv, NotYetSpawned
<1>3. StartingOK'
  BY DEF StructInv, StartingOK
<1>4. HeldOK'
  BY DEF StructInv, HeldOK
<1>. QED  BY <1>1, <1>2, <1>3, <1>4 DEF StructInv

\* What detaching a socket does to an object.
LEMMA DetachFields ==
  ASSUME TypeOK, HeldOK, NEW k, NEW S \in SUBSET Held, DetachFrom(k, S)
  PROVE  /\ \A s \in Request :
              /\ s \notin S => session'[s] = session[s]
              /\ session'[s].exited = session[s].exited
              /\ session'[s].terminating = session[s].terminating
              /\ session'[s].clients \subseteq session[s].clients
              /\ s \in S => k \notin session'[s].clients
         /\ \A id \in Id : sessions'[id] # None =>
              LET s == sessions[id]
              IN /\ sessions'[id] = s
                 /\ session'[s].disposed = session[s].disposed
                 /\ session'[s].subprocess = session[s].subprocess
<1> DEFINE left(s) == session[s].clients \ {k}
           dropped == {s \in S : ~IsAlive(s) /\ left(s) = {}}
<1>1. S \subseteq Request
  BY DEF Held, TypeOK
<1>2. session' = [s \in Request |->
                    IF s \in dropped THEN Dispose(dropped)[s]
                    ELSE IF s \in S THEN [session[s] EXCEPT !.clients = left(s)]
                    ELSE session[s]]
      /\ sessions' = [i \in Id |-> IF sessions[i] \in dropped THEN None
                                   ELSE sessions[i]]
  BY DEF DetachFrom
<1> HIDE DEF dropped
<1>3. dropped \subseteq S
  BY DEF dropped
<1>4. ASSUME NEW s \in Request
      PROVE  /\ s \notin S => session'[s] = session[s]
             /\ session'[s].exited = session[s].exited
             /\ session'[s].terminating = session[s].terminating
             /\ session'[s].clients \subseteq session[s].clients
             /\ s \in S => k \notin session'[s].clients
             /\ s \notin dropped => /\ session'[s].disposed = session[s].disposed
                                    /\ session'[s].subprocess = session[s].subprocess
  <2>1. CASE s \in dropped
    BY <2>1, <1>2, <1>3, DisposeFields DEF TypeOK
  <2>2. CASE s \in S \ dropped
    <3>1. session'[s] = [session[s] EXCEPT !.clients = left(s)]
      BY <2>2, <1>2
    <3>. QED  BY <2>2, <3>1 DEF TypeOK, SessionFields
  <2>3. CASE s \notin S
    BY <2>3, <1>2, <1>3
  <2>. QED  BY <2>1, <2>2, <2>3
<1>5. ASSUME NEW id \in Id, sessions'[id] # None
      PROVE  LET s == sessions[id]
             IN /\ sessions'[id] = s
                /\ session'[s].disposed = session[s].disposed
                /\ session'[s].subprocess = session[s].subprocess
  <2>1. sessions'[id] = sessions[id] /\ sessions[id] \notin dropped
    BY <1>2, <1>5
  <2>. QED  BY <2>1, <1>4, <1>5 DEF TypeOK
<1>. QED  BY <1>4, <1>5

\* What a message or the exit of its subprocess does to an object.
LEMMA ProcessFields ==
  ASSUME TypeOK, NEW s \in Request, Process(s)
  PROVE  /\ session'[s].disposed = session[s].disposed
         /\ session'[s].terminating = session[s].terminating
         /\ session'[s].clients = session[s].clients
         /\ session[s].exited => session'[s].exited
         /\ session'[s].subprocess = session[s].subprocess \/ session'[s].exited
         /\ \A q \in Request \ {s} : session'[q] = session[q]
<1>1. CASE SpawnedFrame(s)
  BY <1>1 DEF SpawnedFrame, TypeOK, SessionFields
<1>2. CASE ExitFrame(s)
  BY <1>2 DEF ExitFrame, TypeOK, SessionFields
<1>3. CASE SubprocessExit(s)
  <2>1. session' = [session EXCEPT ![s] = [@ EXCEPT !.exited = TRUE, !.ready = TRUE,
                                                    !.subprocess = FALSE]]
    BY <1>3 DEF SubprocessExit
  <2>. QED  BY <2>1 DEF TypeOK, SessionFields
<1>. QED  BY <1>1, <1>2, <1>3 DEF Process

LEMMA StructOther ==
  ASSUME TypeOK, StructInv,
         \/ \E I \in SUBSET Id : KillIds(I)
         \/ \E k \in Socket : SocketClose(k) \/ \E id \in Id : Detach(k, id)
         \/ Shutdown
         \/ \E s \in Request : Process(s) \/ CleanupTimerFires(s)
         \/ \E id \in Id : KillTimerFires(id)
         \/ UNCHANGED vars
  PROVE  StructInv'
<1>. USE NoneAssumption
<1>0. HeldOK
  BY DEF StructInv
<1>1. ASSUME NEW I \in SUBSET Id, KillIds(I) PROVE StructInv'
  <2>1. \A s \in Request :
          /\ session'[s].disposed = session[s].disposed
          /\ session'[s].subprocess = session[s].subprocess
          /\ session'[s].exited = session[s].exited
          /\ pc[s] # "done" => session'[s] = session[s]
    BY <1>1, <1>0, HeldIsDone DEF KillIds, TypeOK, SessionFields
  <2>. QED
    BY <1>1, <1>0, <2>1, StructFrame, HeldIsDone DEF KillIds, HeldOK
<1>2. ASSUME NEW k \in Socket, NEW S \in SUBSET Held, DetachFrom(k, S),
             UNCHANGED <<pc, queue, target, running>>
      PROVE  StructInv'
  <2>1. \A s \in Request : pc[s] # "done" => s \notin S
    BY <1>0, HeldIsDone DEF Held
  <2>2. \A s \in Request : pc[s] # "done" => session'[s] = session[s]
    BY <1>0, <1>2, <2>1, DetachFields
  <2>3. \A id \in Id : sessions'[id] # None =>
          LET s == sessions[id]
          IN /\ sessions'[id] = s
             /\ session'[s].disposed = session[s].disposed
             /\ session'[s].subprocess \/ session'[s].exited
    BY <1>0, <1>2, DetachFields, HeldIsDone DEF HeldOK
  <2>. QED  BY <1>2, <2>2, <2>3, StructFrame
<1>3. ASSUME NEW k \in Socket, SocketClose(k) PROVE StructInv'
  BY <1>2, <1>3 DEF SocketClose
<1>4. ASSUME NEW k \in Socket, NEW id \in Id, Detach(k, id) PROVE StructInv'
  BY <1>2, <1>4 DEF Detach, Held
<1>5. CASE Shutdown
  <2>1. \A s \in Request : pc[s] # "done" => s \notin Held
    BY <1>0, HeldIsDone DEF Held
  <2>2. \A s \in Request : pc[s] # "done" => session'[s] = session[s]
    BY <1>5, <2>1, DisposeFields DEF Shutdown, TypeOK
  <2>. QED  BY <1>5, <2>2, StructFrame DEF Shutdown
<1>6. ASSUME NEW s \in Request, Process(s) PROVE StructInv'
  <2>1. /\ session'[s].disposed = session[s].disposed
        /\ session'[s].terminating = session[s].terminating
        /\ session'[s].clients = session[s].clients
        /\ session[s].exited => session'[s].exited
        /\ session'[s].subprocess = session[s].subprocess \/ session'[s].exited
        /\ \A q \in Request \ {s} : session'[q] = session[q]
    BY <1>6, ProcessFields
  <2>2. s \in running /\ running' \subseteq running
        /\ UNCHANGED <<pc, queue, target, sessions>>
    BY <1>6 DEF Process, SpawnedFrame, ExitFrame, SubprocessExit
  <2>3. pc[s] \notin {"idle", "queued", "granted"}
    BY <2>2 DEF StructInv, NotYetSpawned
  <2>4. QueueOK'
    BY <2>2 DEF StructInv, QueueOK
  <2>5. NotYetSpawned'
    BY <2>1, <2>2, <2>3 DEF StructInv, NotYetSpawned
  <2>6. StartingOK'
    BY <2>1, <2>2 DEF StructInv, StartingOK
  <2>7. HeldOK'
    BY <2>1, <2>2, HeldIsDone DEF StructInv, HeldOK
  <2>. QED  BY <2>4, <2>5, <2>6, <2>7 DEF StructInv
<1>7. ASSUME NEW id \in Id, NEW S \in SUBSET {sessions[id]}, session' = Dispose(S),
             sessions' = IF S = {} THEN sessions ELSE [sessions EXCEPT ![id] = None],
             UNCHANGED <<pc, queue, target, running>>
      PROVE  StructInv'
  <2>1. \A s \in Request : s # sessions[id] => session'[s] = session[s]
    BY <1>7, DisposeFields DEF TypeOK
  <2>2. \A s \in Request : pc[s] # "done" => session'[s] = session[s]
    BY <1>0, <2>1, HeldIsDone
  <2>3. ASSUME NEW i \in Id, sessions'[i] # None
        PROVE  sessions'[i] = sessions[i] /\ session'[sessions[i]] = session[sessions[i]]
    <3>1. CASE S = {}
      BY <1>7, <2>3, <3>1, DisposeFields DEF TypeOK
    <3>2. CASE S # {}
      <4>1. i # id /\ sessions'[i] = sessions[i]
        BY <1>7, <2>3, <3>2 DEF TypeOK
      <4>2. sessions[i] # sessions[id] /\ sessions[i] \in Request
        BY <1>0, <2>3, <4>1 DEF HeldOK, TypeOK
      <4>. QED  BY <4>1, <4>2, <2>1
    <3>. QED  BY <3>1, <3>2
  <2>4. \A i \in Id : sessions'[i] # None =>
          LET s == sessions[i]
          IN /\ sessions'[i] = s
             /\ session'[s].disposed = session[s].disposed
             /\ session'[s].subprocess \/ session'[s].exited
    BY <1>0, <2>3 DEF HeldOK
  <2>. QED  BY <1>7, <2>2, <2>4, StructFrame
<1>8. Dispose({}) = session
  BY DEF Dispose, TypeOK
<1>9. ASSUME NEW id \in Id, KillTimerFires(id) PROVE StructInv'
  BY <1>7, <1>8, <1>9 DEF KillTimerFires
<1>10. ASSUME NEW s \in Request, CleanupTimerFires(s) PROVE StructInv'
  <2>1. target[s] \in Id
    BY DEF TypeOK
  <2>. QED  BY <1>7, <1>8, <1>10, <2>1 DEF CleanupTimerFires
<1>11. CASE UNCHANGED vars
  BY <1>11 DEF vars, StructInv, QueueOK, NotYetSpawned, StartingOK, HeldOK
<1>. QED
  BY <1>1, <1>3, <1>4, <1>5, <1>6, <1>9, <1>10, <1>11

LEMMA StructStep == TypeOK /\ StructInv /\ [Next]_vars => StructInv'
BY StructCreate, StructOther DEF Next, Kill, KillAll

LEMMA InitStruct == Init => StructInv
<1> SUFFICES ASSUME Init PROVE StructInv
  OBVIOUS
<1>1. QueueOK /\ NotYetSpawned /\ StartingOK
  BY DEF Init, QueueOK, NotYetSpawned, StartingOK
<1>2. HeldOK
  BY DEF Init, HeldOK
<1>. QED  BY <1>1, <1>2 DEF StructInv

\* The map never holds an object that was disposed of, or under a foreign id.
THEOREM MapUsable == Spec => []MapHoldsUsable
<1>1. TypeOK /\ StructInv => MapHoldsUsable
  BY DEF StructInv, HeldOK, MapHoldsUsable
<1>. QED
  BY <1>1, InitType, InitStruct, TypeStep, StructStep, PTL DEF Spec

------------------------------------------------------------------------------
(* The fail-safe of a kill *)

\* What the step of any action but the exits and the kills says of a session it
\* leaves in the map: it was there before, it is as killed and as alive as it was,
\* and its id keeps its timer.
Undisturbed(id) ==
  /\ sessions[id] = sessions'[id]
  /\ session'[sessions[id]].terminating = session[sessions[id]].terminating
  /\ IsAlive(sessions[id])' => IsAlive(sessions[id])
  /\ id \in killTimers => id \in killTimers'

LEMMA FailSafeFrame ==
  ASSUME TypeOK, FailSafeUnlessStaleExit, UNCHANGED target,
         \A s \in Request : session[s].exited => session'[s].exited,
         \A id \in Id : sessions'[id] # None =>
           \/ Undisturbed(id)
           \/ ~session'[sessions'[id]].terminating
           \/ id \in killTimers'
  PROVE  FailSafeUnlessStaleExit'
BY DEF FailSafeUnlessStaleExit, Undisturbed, IsTerminating

LEMMA FailSafeStep ==
  TypeOK /\ StructInv /\ FailSafeUnlessStaleExit /\ [Next]_vars
    => FailSafeUnlessStaleExit'
<1> SUFFICES ASSUME TypeOK, StructInv, FailSafeUnlessStaleExit, [Next]_vars
             PROVE  FailSafeUnlessStaleExit'
  OBVIOUS
<1>. USE NoneAssumption
<1>0. HeldOK
  BY DEF StructInv
<1>1. ASSUME NEW r \in Request, AttachExisting(r) PROVE FailSafeUnlessStaleExit'
  <2>1. \A s \in Request : /\ session'[s].exited = session[s].exited
                           /\ session'[s].subprocess = session[s].subprocess
                           /\ session'[s].terminating = session[s].terminating
    BY <1>1 DEF AttachExisting, TypeOK, SessionFields
  <2>. QED
    BY <1>0, <1>1, <2>1, FailSafeFrame, HeldIsDone
       DEF AttachExisting, Undisturbed, IsAlive
<1>2. ASSUME NEW r \in Request, BeginCreate(r) PROVE FailSafeUnlessStaleExit'
  <2>1. /\ sessions' = [sessions EXCEPT ![target[r]] = None]
        /\ session' = Dispose({sessions[target[r]]})
        /\ UNCHANGED target
        /\ killTimers \ {target[r]} \subseteq killTimers'
    BY <1>2 DEF BeginCreate
  <2>2. \A s \in Request :
          /\ session'[s].exited = session[s].exited
          /\ s # sessions[target[r]] => session'[s] = session[s]
    BY <2>1, DisposeFields DEF TypeOK
  <2>3. ASSUME NEW id \in Id, sessions'[id] # None PROVE Undisturbed(id)
    <3>1. id # target[r] /\ sessions'[id] = sessions[id]
      BY <2>1, <2>3 DEF TypeOK
    <3>2. sessions[id] # sessions[target[r]] /\ sessions[id] \in Request
      BY <1>0, <2>3, <3>1 DEF HeldOK, TypeOK
    <3>. QED  BY <2>1, <2>2, <3>1, <3>2 DEF Undisturbed, IsAlive
  <2>. QED  BY <2>1, <2>2, <2>3, FailSafeFrame
<1>3. ASSUME NEW r \in Request, SpawnSession(r) PROVE FailSafeUnlessStaleExit'
  <2>1. \A s \in Request : /\ session'[s].exited = session[s].exited
                           /\ s # r => session'[s] = session[s]
    BY <1>3 DEF SpawnSession, TypeOK, SessionFields
  <2>2. \A id \in Id : sessions[id] # r
    BY <1>0, <1>3, HeldIsDone DEF SpawnSession
  <2>. QED
    BY <1>0, <1>3, <2>1, <2>2, FailSafeFrame, HeldIsDone
       DEF SpawnSession, Undisturbed, IsAlive
<1>4. ASSUME NEW r \in Request, SpawnThrows(r) PROVE FailSafeUnlessStaleExit'
  BY <1>4, FailSafeFrame DEF SpawnThrows, Undisturbed, IsAlive
<1>5. ASSUME NEW r \in Request, FinishCreate(r) PROVE FailSafeUnlessStaleExit'
  <2>1. \A s \in Request : /\ session'[s].exited = session[s].exited
                           /\ session'[s].terminating = session[s].terminating
                           /\ s # r => session'[s] = session[s]
    <3>1. CASE IsAlive(r)
      <4>1. session' = [session EXCEPT ![r].clients = @ \cup {from[r]}]
        BY <1>5, <3>1 DEF FinishCreate
      <4>. QED  BY <4>1 DEF TypeOK, SessionFields
    <3>2. CASE ~IsAlive(r)
      BY <1>5, <3>2, DisposeFields DEF FinishCreate, TypeOK
    <3>. QED  BY <3>1, <3>2
  <2>2. ~session[r].terminating /\ pc[r] = "starting"
    BY <1>5 DEF FinishCreate, StructInv, StartingOK
  <2>3. \A id \in Id : sessions'[id] = sessions[id] \/ sessions'[id] = r
    BY <1>5 DEF FinishCreate, TypeOK
  <2>4. \A id \in Id : sessions[id] # r
    BY <1>0, <2>2, HeldIsDone
  <2>5. UNCHANGED <<killTimers, target>>
    BY <1>5 DEF FinishCreate
  <2>6. \A id \in Id : sessions'[id] # None =>
          Undisturbed(id) \/ ~session'[sessions'[id]].terminating
    BY <1>0, <2>1, <2>2, <2>3, <2>4, <2>5, HeldIsDone DEF Undisturbed, IsAlive
  <2>. QED  BY <2>1, <2>5, <2>6, FailSafeFrame
<1>6. ASSUME NEW I \in SUBSET Id, KillIds(I) PROVE FailSafeUnlessStaleExit'
  <2> DEFINE hit == {i \in I : sessions[i] # None}
  <2>1. /\ killTimers' = killTimers \cup hit
        /\ UNCHANGED <<sessions, target>>
    BY <1>6 DEF KillIds
  <2>2. \A s \in Request : /\ session'[s].exited = session[s].exited
                           /\ session'[s].subprocess = session[s].subprocess
                           /\ \/ \E i \in hit : sessions[i] = s
                              \/ session'[s] = session[s]
    BY <1>6 DEF KillIds, TypeOK, SessionFields
  <2>3. ASSUME NEW id \in Id, sessions'[id] # None
        PROVE  Undisturbed(id) \/ id \in killTimers'
    <3>1. sessions[id] \in Request /\ sessions'[id] = sessions[id]
      BY <2>1, <2>3 DEF TypeOK
    <3>2. CASE \E i \in hit : sessions[i] = sessions[id]
      BY <1>0, <2>1, <2>3, <3>1, <3>2 DEF HeldOK
    <3>3. CASE session'[sessions[id]] = session[sessions[id]]
      BY <2>1, <3>1, <3>3 DEF Undisturbed, IsAlive
    <3>. QED  BY <2>2, <3>1, <3>2, <3>3
  <2>. QED  BY <2>1, <2>2, <2>3, FailSafeFrame
<1>7. ASSUME NEW k \in Socket, NEW S \in SUBSET Held, DetachFrom(k, S),
             UNCHANGED <<killTimers, target>>
      PROVE  FailSafeUnlessStaleExit'
  <2>1. \A id \in Id : sessions'[id] # None => Undisturbed(id)
    BY <1>0, <1>7, DetachFields, HeldIsDone DEF Undisturbed, IsAlive
  <2>. QED  BY <1>0, <1>7, <2>1, DetachFields, FailSafeFrame
<1>8. ASSUME NEW k \in Socket, SocketClose(k) PROVE FailSafeUnlessStaleExit'
  BY <1>7, <1>8 DEF SocketClose
<1>9. ASSUME NEW k \in Socket, NEW id \in Id, Detach(k, id)
      PROVE  FailSafeUnlessStaleExit'
  BY <1>7, <1>9 DEF Detach, Held
<1>10. CASE Shutdown
  BY <1>10 DEF Shutdown, FailSafeUnlessStaleExit
<1>11. ASSUME NEW s \in Request, Process(s) PROVE FailSafeUnlessStaleExit'
  <2>1. /\ UNCHANGED <<sessions, target>>
        /\ \/ killTimers' = killTimers
           \/ killTimers' = killTimers \ {target[s]} /\ session'[s].exited
    <3>1. CASE SpawnedFrame(s)
      BY <3>1 DEF SpawnedFrame
    <3>2. CASE ExitFrame(s)
      BY <3>2 DEF ExitFrame, HandleSessionExit, TypeOK, SessionFields
    <3>3. CASE SubprocessExit(s)
      <4>1. session' = [session EXCEPT
                          ![s] = [@ EXCEPT !.exited = TRUE, !.ready = TRUE,
                                           !.subprocess = FALSE]]
        BY <3>3 DEF SubprocessExit
      <4>2. session'[s].exited
        BY <4>1 DEF TypeOK, SessionFields
      <4>. QED  BY <3>3, <4>2 DEF SubprocessExit, HandleSessionExit
    <3>. QED  BY <1>11, <3>1, <3>2, <3>3 DEF Process
  <2>2. \A q \in Request : /\ session'[q].terminating = session[q].terminating
                           /\ session[q].exited => session'[q].exited
                           /\ IsAlive(q)' => IsAlive(q)
    BY <1>11, ProcessFields DEF IsAlive
  <2>3. ASSUME NEW id \in Id, sessions'[id] # None,
               IsTerminating(sessions[id])', IsAlive(sessions[id])'
        PROVE  \/ id \in killTimers'
               \/ \E old \in Request : /\ old # sessions'[id]
                                       /\ target'[old] = id
                                       /\ session'[old].exited
    <3>1. sessions[id] \in Request /\ sessions'[id] = sessions[id]
      BY <2>1, <2>3 DEF TypeOK
    <3>2. IsTerminating(sessions[id]) /\ IsAlive(sessions[id])
      BY <2>1, <2>2, <2>3, <3>1 DEF IsTerminating
    <3>3. CASE \E old \in Request : /\ old # sessions[id]
                                    /\ target[old] = id
                                    /\ session[old].exited
      BY <2>1, <2>2, <3>1, <3>3
    <3>4. CASE id \in killTimers /\ killTimers' = killTimers
      BY <3>4
    <3>5. CASE /\ killTimers' = killTimers \ {target[s]} /\ session'[s].exited
               /\ id \in killTimers
      <4>1. s # sessions[id]
        BY <2>1, <2>3, <3>1, <3>5 DEF IsAlive
      <4>. QED  BY <2>1, <3>1, <3>5, <4>1
    <3>. QED
      BY <2>1, <2>3, <3>1, <3>2, <3>3, <3>4, <3>5 DEF FailSafeUnlessStaleExit
  <2>. QED  BY <2>1, <2>3 DEF FailSafeUnlessStaleExit, IsTerminating, IsAlive
<1>12. ASSUME NEW id \in Id, KillTimerFires(id) PROVE FailSafeUnlessStaleExit'
  <2>1. killTimers' = killTimers \ {id} /\ UNCHANGED target
    BY <1>12 DEF KillTimerFires
  <2>2. CASE sessions[id] # None /\ IsTerminating(sessions[id])
    <3>1. session' = Dispose({sessions[id]})
          /\ sessions' = [sessions EXCEPT ![id] = None]
      BY <1>12, <2>2 DEF KillTimerFires
    <3>2. \A s \in Request : /\ session'[s].exited = session[s].exited
                             /\ s # sessions[id] => session'[s] = session[s]
      BY <3>1, DisposeFields DEF TypeOK
    <3>3. ASSUME NEW i \in Id, sessions'[i] # None PROVE Undisturbed(i)
      <4>1. i # id /\ sessions'[i] = sessions[i]
        BY <3>1, <3>3 DEF TypeOK
      <4>2. sessions[i] # sessions[id] /\ sessions[i] \in Request
        BY <1>0, <3>3, <4>1 DEF HeldOK, TypeOK
      <4>. QED  BY <2>1, <3>2, <4>1, <4>2 DEF Undisturbed, IsAlive
    <3>. QED  BY <2>1, <3>2, <3>3, FailSafeFrame
  <2>3. CASE ~(sessions[id] # None /\ IsTerminating(sessions[id]))
    BY <1>12, <2>1, <2>3, FailSafeFrame
       DEF KillTimerFires, Undisturbed, IsAlive, IsTerminating
  <2>. QED  BY <2>2, <2>3
<1>13. ASSUME NEW s \in Request, CleanupTimerFires(s)
       PROVE  FailSafeUnlessStaleExit'
  <2> DEFINE found == sessions[target[s]]
  <2>1. UNCHANGED <<killTimers, target>> /\ target[s] \in Id
    BY <1>13 DEF CleanupTimerFires, TypeOK
  <2>2. CASE found # None /\ ~IsAlive(found)
    <3>1. session' = Dispose({found}) /\ sessions' = [sessions EXCEPT ![target[s]] = None]
      BY <1>13, <2>2 DEF CleanupTimerFires
    <3>2. \A q \in Request : /\ session'[q].exited = session[q].exited
                             /\ q # found => session'[q] = session[q]
      BY <3>1, DisposeFields DEF TypeOK
    <3>3. ASSUME NEW i \in Id, sessions'[i] # None PROVE Undisturbed(i)
      <4>1. i # target[s] /\ sessions'[i] = sessions[i]
        BY <2>1, <3>1, <3>3 DEF TypeOK
      <4>2. sessions[i] # found /\ sessions[i] \in Request
        BY <1>0, <2>1, <3>3, <4>1 DEF HeldOK, TypeOK
      <4>. QED  BY <2>1, <3>2, <4>1, <4>2 DEF Undisturbed, IsAlive
    <3>. QED  BY <2>1, <3>2, <3>3, FailSafeFrame
  <2>3. CASE ~(found # None /\ ~IsAlive(found))
    BY <1>13, <2>1, <2>3, FailSafeFrame DEF CleanupTimerFires, Undisturbed, IsAlive
  <2>. QED  BY <2>2, <2>3
<1>14. CASE UNCHANGED vars
  BY <1>14 DEF vars, FailSafeUnlessStaleExit, IsTerminating, IsAlive
<1>. QED
  BY <1>1, <1>2, <1>3, <1>4, <1>5, <1>6, <1>8, <1>9, <1>10, <1>11, <1>12, <1>13,
     <1>14 DEF Next, Create, SpawnReady, SpawnTimeout, Kill, KillAll

\* A killed session that is still alive has its fail-safe timer, unless an older
\* object of the same id has exited.
THEOREM FailSafe == Spec => []FailSafeUnlessStaleExit
<1>1. Init => FailSafeUnlessStaleExit
  BY DEF Init, FailSafeUnlessStaleExit
<1>. QED
  BY <1>1, InitType, InitStruct, TypeStep, StructStep, FailSafeStep, PTL DEF Spec

------------------------------------------------------------------------------
(* Dead sessions and closed sockets                                        *)

HeldInv == DeadSessionHasTimer /\ GhostOnlyFromCreation

\* What the step of an action may do to a session it leaves in the map.
Supervised(id) ==
  /\ sessions'[id] = sessions[id]
  /\ \/ IsAlive(sessions[id]) => IsAlive(sessions[id])'
     \/ sessions[id] \in cleanup'
  /\ sessions[id] \in cleanup => sessions[id] \in cleanup' \/ IsAlive(sessions[id])'
  /\ session'[sessions[id]].clients \ open' \subseteq session[sessions[id]].clients \ open

LEMMA HeldFrame ==
  ASSUME TypeOK, HeldInv, UNCHANGED from,
         \A id \in Id : sessions'[id] # None => Supervised(id)
  PROVE  HeldInv'
BY DEF HeldInv, DeadSessionHasTimer, GhostOnlyFromCreation, Supervised

LEMMA HeldStep ==
  TypeOK /\ StructInv /\ HeldInv /\ [Next]_vars => HeldInv'
<1> SUFFICES ASSUME TypeOK, StructInv, HeldInv, [Next]_vars
             PROVE  HeldInv'
  OBVIOUS
<1>. USE NoneAssumption
<1>0. HeldOK
  BY DEF StructInv
<1>1. ASSUME NEW r \in Request, AttachExisting(r) PROVE HeldInv'
  <2>1. /\ session' = [session EXCEPT ![sessions[target[r]]].clients = @ \cup {from[r]}]
        /\ from[r] \in open
        /\ UNCHANGED <<sessions, cleanup, open, from>>
    BY <1>1 DEF AttachExisting
  <2>2. \A s \in Request : /\ session'[s].exited = session[s].exited
                           /\ session'[s].subprocess = session[s].subprocess
                           /\ session'[s].clients \subseteq session[s].clients \cup {from[r]}
    BY <2>1 DEF TypeOK, SessionFields
  <2>3. ASSUME NEW id \in Id, sessions'[id] # None PROVE Supervised(id)
    BY <2>1, <2>2, <2>3, <1>0, HeldIsDone DEF Supervised, IsAlive
  <2>. QED  BY <2>1, <2>3, HeldFrame
<1>2. ASSUME NEW r \in Request, BeginCreate(r) PROVE HeldInv'
  <2>1. /\ sessions' = [sessions EXCEPT ![target[r]] = None]
        /\ session' = Dispose({sessions[target[r]]})
        /\ UNCHANGED <<cleanup, open, from>>
    BY <1>2 DEF BeginCreate
  <2>2. \A s \in Request : s # sessions[target[r]] => session'[s] = session[s]
    BY <2>1, DisposeFields DEF TypeOK
  <2>3. ASSUME NEW id \in Id, sessions'[id] # None PROVE Supervised(id)
    <3>1. id # target[r] /\ sessions'[id] = sessions[id]
      BY <2>1, <2>3 DEF TypeOK
    <3>2. sessions[id] # sessions[target[r]] /\ sessions[id] \in Request
      BY <1>0, <2>3, <3>1 DEF HeldOK, TypeOK
    <3>. QED  BY <2>1, <2>2, <3>1, <3>2 DEF Supervised, IsAlive
  <2>. QED  BY <2>1, <2>3, HeldFrame
<1>3. ASSUME NEW r \in Request, SpawnSession(r) PROVE HeldInv'
  <2>1. \A s \in Request : s # r => session'[s] = session[s]
    BY <1>3 DEF SpawnSession, TypeOK, SessionFields
  <2>2. \A id \in Id : sessions[id] # r
    BY <1>0, <1>3, HeldIsDone DEF SpawnSession
  <2>3. ASSUME NEW id \in Id, sessions'[id] # None PROVE Supervised(id)
    BY <1>0, <1>3, <2>1, <2>2, <2>3, HeldIsDone DEF SpawnSession, Supervised, IsAlive
  <2>. QED  BY <1>3, <2>3, HeldFrame DEF SpawnSession
<1>4. ASSUME NEW r \in Request, SpawnThrows(r) PROVE HeldInv'
  BY <1>4, HeldFrame DEF SpawnThrows, Supervised, IsAlive
<1>5. ASSUME NEW r \in Request, FinishCreate(r) PROVE HeldInv'
  <2>0. UNCHANGED <<cleanup, open, from>> /\ pc[r] = "starting"
    BY <1>5 DEF FinishCreate
  <2>1. \A id \in Id : sessions[id] # r
    BY <1>0, <2>0, HeldIsDone
  <2>2. \A s \in Request : s # r => session'[s] = session[s]
    BY <1>5, DisposeFields DEF FinishCreate, TypeOK
  <2>3. ASSUME NEW id \in Id, sessions'[id] = sessions[id], sessions'[id] # None
        PROVE  Supervised(id)
    BY <1>0, <2>0, <2>1, <2>2, <2>3, HeldIsDone DEF Supervised, IsAlive
  <2>4. CASE ~IsAlive(r)
    BY <1>5, <2>0, <2>3, <2>4, HeldFrame DEF FinishCreate
  <2>5. CASE IsAlive(r)
    <3>1. /\ sessions' = [sessions EXCEPT ![target[r]] = r]
          /\ session' = [session EXCEPT ![r].clients = @ \cup {from[r]}]
      BY <1>5, <2>5 DEF FinishCreate
    <3>2. session'[r].clients = {from[r]} /\ IsAlive(r)'
      BY <2>0, <2>5, <3>1 DEF StructInv, StartingOK, TypeOK, SessionFields, IsAlive
    <3>3. \A id \in Id : sessions'[id] # None => sessions'[id] = r \/ Supervised(id)
      BY <2>3, <3>1 DEF TypeOK
    <3>. QED
      BY <2>0, <3>2, <3>3
         DEF HeldInv, DeadSessionHasTimer, GhostOnlyFromCreation, Supervised
  <2>. QED  BY <2>4, <2>5
<1>6. ASSUME NEW I \in SUBSET Id, KillIds(I) PROVE HeldInv'
  <2>1. UNCHANGED <<sessions, cleanup, open, from>>
    BY <1>6 DEF KillIds
  <2>2. \A s \in Request : /\ session'[s].exited = session[s].exited
                           /\ session'[s].subprocess = session[s].subprocess
                           /\ session'[s].clients = session[s].clients
    BY <1>6 DEF KillIds, TypeOK, SessionFields
  <2>3. ASSUME NEW id \in Id, sessions'[id] # None PROVE Supervised(id)
    BY <1>0, <2>1, <2>2, <2>3, HeldIsDone DEF Supervised, IsAlive
  <2>. QED  BY <2>1, <2>3, HeldFrame
<1>7. ASSUME NEW k \in Socket, SocketClose(k) PROVE HeldInv'
  <2>1. /\ open' = open \ {k} /\ DetachFrom(k, Held)
        /\ UNCHANGED <<cleanup, from>>
    BY <1>7 DEF SocketClose
  <2>2. ASSUME NEW id \in Id, sessions'[id] # None PROVE Supervised(id)
    <3>1. sessions'[id] = sessions[id] /\ sessions[id] \in Held /\ sessions[id] \in Request
      BY <2>1, <2>2 DEF DetachFrom, Held, TypeOK
    <3>2. /\ session'[sessions[id]].clients = session[sessions[id]].clients \ {k}
          /\ session'[sessions[id]].exited = session[sessions[id]].exited
          /\ session'[sessions[id]].subprocess = session[sessions[id]].subprocess
      BY <2>1, <2>2, <3>1 DEF DetachFrom, TypeOK, SessionFields
    <3>. QED  BY <2>1, <3>1, <3>2 DEF Supervised, IsAlive
  <2>. QED  BY <2>1, <2>2, HeldFrame
<1>8. ASSUME NEW k \in Socket, NEW id \in Id, Detach(k, id) PROVE HeldInv'
  <2>1. /\ DetachFrom(k, {sessions[id]}) /\ UNCHANGED <<cleanup, from, open>>
    BY <1>8 DEF Detach
  <2>2. ASSUME NEW i \in Id, sessions'[i] # None PROVE Supervised(i)
    <3>1. sessions'[i] = sessions[i] /\ sessions[i] \in Request
      BY <2>1, <2>2 DEF DetachFrom, TypeOK
    <3>2. /\ session'[sessions[i]].clients \subseteq session[sessions[i]].clients
          /\ session'[sessions[i]].exited = session[sessions[i]].exited
          /\ session'[sessions[i]].subprocess = session[sessions[i]].subprocess
      BY <2>1, <2>2, <3>1 DEF DetachFrom, TypeOK, SessionFields
    <3>. QED  BY <2>1, <3>1, <3>2 DEF Supervised, IsAlive
  <2>. QED  BY <2>1, <2>2, HeldFrame
<1>9. CASE Shutdown
  BY <1>9, HeldFrame DEF Shutdown
<1>10. ASSUME NEW s \in Request, Process(s) PROVE HeldInv'
  <2>1. /\ UNCHANGED <<sessions, open, from>>
        /\ cleanup \subseteq cleanup'
    BY <1>10 DEF Process, SpawnedFrame, ExitFrame, SubprocessExit, HandleSessionExit
  <2>2. \A q \in Request : /\ session'[q].clients = session[q].clients
                           /\ q # s => session'[q] = session[q]
    BY <1>10, ProcessFields
  <2>3. (IsAlive(s) => IsAlive(s)') \/ s \in cleanup'
    BY <1>10 DEF Process, SpawnedFrame, ExitFrame, SubprocessExit, HandleSessionExit,
                IsAlive, TypeOK, SessionFields
  <2>4. ASSUME NEW id \in Id, sessions'[id] # None PROVE Supervised(id)
    BY <1>0, <2>1, <2>2, <2>3, <2>4, HeldIsDone DEF Supervised, IsAlive
  <2>. QED  BY <2>1, <2>4, HeldFrame
<1>11. ASSUME NEW id \in Id, KillTimerFires(id) PROVE HeldInv'
  <2>1. UNCHANGED <<cleanup, open, from>>
    BY <1>11 DEF KillTimerFires
  <2>2. CASE sessions[id] # None /\ IsTerminating(sessions[id])
    <3>1. session' = Dispose({sessions[id]})
          /\ sessions' = [sessions EXCEPT ![id] = None]
      BY <1>11, <2>2 DEF KillTimerFires
    <3>2. \A s \in Request : s # sessions[id] => session'[s] = session[s]
      BY <3>1, DisposeFields DEF TypeOK
    <3>3. ASSUME NEW i \in Id, sessions'[i] # None PROVE Supervised(i)
      <4>1. i # id /\ sessions'[i] = sessions[i]
        BY <3>1, <3>3 DEF TypeOK
      <4>2. sessions[i] # sessions[id] /\ sessions[i] \in Request
        BY <1>0, <3>3, <4>1 DEF HeldOK, TypeOK
      <4>. QED  BY <2>1, <3>2, <4>1, <4>2 DEF Supervised, IsAlive
    <3>. QED  BY <2>1, <3>3, HeldFrame
  <2>3. CASE ~(sessions[id] # None /\ IsTerminating(sessions[id]))
    BY <1>11, <2>1, <2>3, HeldFrame DEF KillTimerFires, Supervised, IsAlive
  <2>. QED  BY <2>2, <2>3
\* The timer that s armed may go off while another object of the id is in the map;
\* if it is s itself that is there, and dead, it is removed.
<1>12. ASSUME NEW s \in Request, CleanupTimerFires(s) PROVE HeldInv'
  <2> DEFINE found == sessions[target[s]]
  <2>1. UNCHANGED <<open, from>> /\ target[s] \in Id /\ cleanup' = cleanup \ {s}
    BY <1>12 DEF CleanupTimerFires, TypeOK
  <2>2. CASE found # None /\ ~IsAlive(found)
    <3>1. session' = Dispose({found}) /\ sessions' = [sessions EXCEPT ![target[s]] = None]
      BY <1>12, <2>2 DEF CleanupTimerFires
    <3>2. \A q \in Request : q # found => session'[q] = session[q]
      BY <3>1, DisposeFields DEF TypeOK
    <3>3. ASSUME NEW i \in Id, sessions'[i] # None PROVE Supervised(i)
      <4>1. i # target[s] /\ sessions'[i] = sessions[i]
        BY <2>1, <3>1, <3>3 DEF TypeOK
      <4>2. sessions[i] # found /\ sessions[i] # s /\ sessions[i] \in Request
        BY <1>0, <2>1, <3>3, <4>1 DEF HeldOK, TypeOK
      <4>. QED  BY <2>1, <3>2, <4>1, <4>2 DEF Supervised, IsAlive
    <3>. QED  BY <2>1, <3>3, HeldFrame
  <2>3. CASE ~(found # None /\ ~IsAlive(found))
    <3>1. UNCHANGED <<session, sessions>>
      BY <1>12, <2>3 DEF CleanupTimerFires
    <3>2. ASSUME NEW i \in Id, sessions'[i] # None PROVE Supervised(i)
      <4>1. sessions[i] # s \/ IsAlive(s)
        BY <1>0, <2>3, <3>1, <3>2 DEF HeldOK
      <4>. QED  BY <2>1, <3>1, <4>1 DEF Supervised, IsAlive
    <3>. QED  BY <2>1, <3>2, HeldFrame
  <2>. QED  BY <2>2, <2>3
<1>13. CASE UNCHANGED vars
  BY <1>13, HeldFrame DEF vars, Supervised, IsAlive
<1>. QED
  BY <1>1, <1>2, <1>3, <1>4, <1>5, <1>6, <1>7, <1>8, <1>9, <1>10, <1>11, <1>12, <1>13
     DEF Next, Create, SpawnReady, SpawnTimeout, Kill, KillAll

LEMMA HeldAlways == Spec => []HeldInv
<1>1. Init => HeldInv
  BY DEF Init, HeldInv, DeadSessionHasTimer, GhostOnlyFromCreation
<1>. QED
  BY <1>1, InitType, InitStruct, TypeStep, StructStep, HeldStep, PTL DEF Spec

\* A dead session of the map has a cleanup timer running for it, although timers
\* look their session up by id.
THEOREM DeadHasTimer == Spec => []DeadSessionHasTimer
<1>1. HeldInv => DeadSessionHasTimer
  BY DEF HeldInv
<1>. QED  BY <1>1, HeldAlways, PTL

\* The only closed socket that a session of the map can have for a client is the
\* one whose request created it.
THEOREM GhostsAreCreators == Spec => []GhostOnlyFromCreation
<1>1. HeldInv => GhostOnlyFromCreation
  BY DEF HeldInv
<1>. QED  BY <1>1, HeldAlways, PTL

------------------------------------------------------------------------------
(* Attachment                                                              *)
(*                                                                         *)
(* Only two actions attach a client; what they say of the object is known  *)
(* from the guard of one and from StartingOK for the other.                *)

AttachStep ==
  \A s \in Request : \A k \in session'[s].clients \ session[s].clients :
    /\ IsAlive(s)' /\ ~IsTerminating(s)'
    /\ sessions'[target[s]] = s

LEMMA AttachHolds == TypeOK /\ StructInv /\ [Next]_vars => AttachStep
<1> SUFFICES ASSUME TypeOK, StructInv, [Next]_vars PROVE AttachStep
  OBVIOUS
<1>. USE NoneAssumption
<1>0. HeldOK /\ StartingOK
  BY DEF StructInv
<1>a. ASSUME \A s \in Request : session'[s].clients \subseteq session[s].clients
      PROVE  AttachStep
  BY <1>a DEF AttachStep
<1>1. ASSUME NEW r \in Request, AttachExisting(r) PROVE AttachStep
  <2>1. PICK s \in Request :
          /\ s = sessions[target[r]] /\ target[s] = target[r] /\ IsAttachable(s)
          /\ session' = [session EXCEPT ![s].clients = @ \cup {from[r]}]
          /\ UNCHANGED sessions
    BY <1>0, <1>1 DEF AttachExisting, HeldOK, TypeOK
  <2>2. \A q \in Request \ {s} : session'[q].clients = session[q].clients
    BY <2>1 DEF TypeOK
  <2>3. IsAlive(s)' /\ ~IsTerminating(s)'
    BY <2>1 DEF IsAttachable, IsAlive, IsTerminating, TypeOK, SessionFields
  <2>. QED  BY <2>1, <2>2, <2>3 DEF AttachStep
<1>2. ASSUME NEW r \in Request, FinishCreate(r) PROVE AttachStep
  <2>1. CASE IsAlive(r)
    <3>1. /\ sessions' = [sessions EXCEPT ![target[r]] = r]
          /\ session' = [session EXCEPT ![r].clients = @ \cup {from[r]}]
          /\ pc[r] = "starting"
      BY <1>2, <2>1 DEF FinishCreate
    <3>2. \A q \in Request \ {r} : session'[q].clients = session[q].clients
      BY <3>1 DEF TypeOK
    <3>3. IsAlive(r)' /\ ~IsTerminating(r)' /\ sessions'[target[r]] = r
      BY <1>0, <2>1, <3>1 DEF StartingOK, IsAlive, IsTerminating, TypeOK, SessionFields
    <3>. QED  BY <3>2, <3>3 DEF AttachStep
  <2>2. CASE ~IsAlive(r)
    BY <1>2, <2>2, <1>a, DisposeFields DEF FinishCreate, TypeOK
  <2>. QED  BY <2>1, <2>2
<1>3. ASSUME NEW S, session' = Dispose(S) PROVE AttachStep
  BY <1>3, <1>a, DisposeFields DEF TypeOK
<1>4. ASSUME UNCHANGED session PROVE AttachStep
  BY <1>4, <1>a
<1>5. ASSUME NEW r \in Request, SpawnSession(r) PROVE AttachStep
  BY <1>5, <1>a DEF SpawnSession, TypeOK, SessionFields
<1>6. ASSUME NEW I \in SUBSET Id, KillIds(I) PROVE AttachStep
  BY <1>6, <1>a DEF KillIds, TypeOK, SessionFields
<1>7. ASSUME NEW k \in Socket, NEW S \in SUBSET Held, DetachFrom(k, S) PROVE AttachStep
  BY <1>0, <1>7, <1>a, DetachFields
<1>8. ASSUME NEW s \in Request, Process(s) PROVE AttachStep
  BY <1>8, <1>a, ProcessFields
<1>9. ASSUME NEW r \in Request, BeginCreate(r) PROVE AttachStep
  BY <1>3, <1>9 DEF BeginCreate
<1>10. ASSUME NEW r \in Request, SpawnThrows(r) PROVE AttachStep
  BY <1>4, <1>10 DEF SpawnThrows
<1>11. ASSUME NEW k \in Socket, SocketClose(k) PROVE AttachStep
  BY <1>7, <1>11 DEF SocketClose
<1>12. ASSUME NEW k \in Socket, NEW id \in Id, Detach(k, id) PROVE AttachStep
  BY <1>7, <1>12 DEF Detach, Held
<1>13. CASE Shutdown
  BY <1>3, <1>13 DEF Shutdown
<1>14. ASSUME NEW id \in Id, KillTimerFires(id) PROVE AttachStep
  BY <1>3, <1>4, <1>14 DEF KillTimerFires
<1>15. ASSUME NEW s \in Request, CleanupTimerFires(s) PROVE AttachStep
  BY <1>3, <1>4, <1>15 DEF CleanupTimerFires
<1>16. CASE UNCHANGED vars
  BY <1>4, <1>16 DEF vars
<1>. QED
  BY <1>1, <1>2, <1>5, <1>6, <1>8, <1>9, <1>10, <1>11, <1>12, <1>13, <1>14, <1>15, <1>16
     DEF Next, Create, SpawnReady, SpawnTimeout, Kill, KillAll

\* A client is only attached to an object that is alive, is not being killed and is
\* the one the map holds.
THEOREM AttachedToLive == Spec => AttachOnlyToLive
<1>1. TypeOK /\ StructInv /\ [Next]_vars
        => [\A s \in Request : \A k \in session'[s].clients \ session[s].clients :
              /\ IsAlive(s)' /\ ~IsTerminating(s)'
              /\ sessions'[target[s]] = s]_vars
  BY AttachHolds DEF AttachStep
<1>. QED
  BY <1>1, InitType, InitStruct, TypeStep, StructStep, PTL DEF Spec, AttachOnlyToLive

------------------------------------------------------------------------------
(* Orphans                                                                 *)
(*                                                                         *)
(* A call that creates a session has emptied the place of its id, and      *)
(* unless another creation for the id began meanwhile, nothing has filled  *)
(* it: so the object it puts there replaces none.                          *)

Reserved(r) ==
  \/ target[r] \in overlapped
  \/ /\ sessions[target[r]] = None
     /\ \A q \in Request \ {r} : InCreation(q) => target[q] # target[r]

OrphanInv ==
  /\ OrphanOnlyOnOverlap
  /\ \A r \in Request : InCreation(r) => Reserved(r)

\* An action that starts no process and takes an object out of the map only together
\* with its process.
LEMMA OrphanFrame ==
  ASSUME TypeOK, OrphanInv, UNCHANGED <<pc, target, overlapped>>,
         \A id \in Id : sessions'[id] \in {None, sessions[id]},
         \A s \in Request : session'[s].subprocess =>
           /\ session[s].subprocess
           /\ sessions[target[s]] = s => sessions'[target[s]] = s
  PROVE  OrphanInv'
<1>1. OrphanOnlyOnOverlap'
  BY DEF OrphanInv, OrphanOnlyOnOverlap, Orphan
<1>2. ASSUME NEW r \in Request, InCreation(r)' PROVE Reserved(r)'
  <2>1. Reserved(r) /\ target[r] \in Id
    BY <1>2 DEF OrphanInv, InCreation, TypeOK
  <2>. QED  BY <2>1 DEF Reserved, InCreation
<1>. QED  BY <1>1, <1>2 DEF OrphanInv

LEMMA OrphanCreate ==
  ASSUME TypeOK, StructInv, OrphanInv, NEW r \in Request, Create(r)
  PROVE  OrphanInv'
<1>. USE NoneAssumption
<1>0. HeldOK /\ NotYetSpawned /\ QueueOK
  BY DEF StructInv
<1>a. /\ target \in [Request -> Id]
      /\ \A s \in Request : Orphan(s) => target[s] \in overlapped
      /\ \A q \in Request : InCreation(q) => Reserved(q)
  BY DEF OrphanInv, OrphanOnlyOnOverlap, TypeOK
<1>1. CASE AttachExisting(r)
  <2>1. /\ pc[r] = "idle" /\ pc' = [pc EXCEPT ![r] = "done"]
        /\ UNCHANGED <<sessions, target, overlapped>>
        /\ \A q \in Request : session'[q].subprocess = session[q].subprocess
    BY <1>1 DEF AttachExisting, TypeOK, SessionFields
  <2>2. \A q \in Request : /\ InCreation(q)' => InCreation(q)
                           /\ pc'[q] # "starting" => pc[q] # "starting"
    BY <2>1 DEF InCreation, TypeOK
  <2>. QED  BY <1>a, <2>1, <2>2 DEF OrphanInv, OrphanOnlyOnOverlap, Orphan, Reserved
<1>2. CASE BeginCreate(r)
  <2>1. /\ pc[r] = "idle" /\ Acquire(r) /\ target[r] \in Id
        /\ sessions' = [sessions EXCEPT ![target[r]] = None]
        /\ session' = Dispose({sessions[target[r]]})
        /\ overlapped' = IF \E q \in Request : InCreation(q) /\ target[q] = target[r]
                         THEN overlapped \cup {target[r]} ELSE overlapped
        /\ UNCHANGED target
    BY <1>2 DEF BeginCreate, TypeOK
  <2>2. /\ pc'[r] \in {"granted", "queued"}
        /\ \A q \in Request \ {r} : pc'[q] = pc[q]
    BY <1>0, <2>1, AcquireQueue
  <2>3. \A q \in Request : /\ q # sessions[target[r]] => session'[q] = session[q]
                           /\ q = sessions[target[r]] => ~session'[q].subprocess
    BY <2>1, DisposeFields DEF TypeOK
  <2>4. ~session[r].subprocess
    BY <1>0, <2>1 DEF NotYetSpawned, NotSpawned
  <2>5. ASSUME NEW s \in Request, Orphan(s)' PROVE target'[s] \in overlapped'
    <3>1. /\ s # r /\ s # sessions[target[r]] /\ session[s].subprocess
          /\ pc[s] # "starting" /\ sessions'[target[s]] # s
      BY <2>1, <2>2, <2>3, <2>4, <2>5 DEF Orphan
    <3>2. sessions[target[s]] # s
      BY <2>1, <3>1 DEF TypeOK
    <3>. QED  BY <1>a, <2>1, <3>1, <3>2 DEF Orphan
  <2>6. ASSUME NEW q \in Request, InCreation(q)' PROVE Reserved(q)'
    <3>1. CASE target[q] = target[r] /\ \E p \in Request : InCreation(p) /\ target[p] = target[r]
      BY <2>1, <3>1 DEF Reserved
    <3>2. CASE target[q] = target[r] /\ ~\E p \in Request : InCreation(p) /\ target[p] = target[r]
      <4>1. \A p \in Request \ {r} : InCreation(p)' => target[p] # target[r]
        BY <2>2, <3>2 DEF InCreation
      <4>2. q = r
        BY <2>6, <3>2, <4>1
      <4>3. sessions'[target[r]] = None
        BY <2>1 DEF TypeOK
      <4>. QED  BY <2>1, <4>1, <4>2, <4>3 DEF Reserved
    <3>3. CASE target[q] # target[r]
      <4>1. q # r /\ InCreation(q)
        BY <2>2, <2>6, <3>3 DEF InCreation
      <4>2. sessions'[target[q]] = sessions[target[q]]
        BY <2>1, <3>3, <1>a DEF TypeOK
      <4>3. \A p \in Request : p # r => (InCreation(p)' <=> InCreation(p))
        BY <2>2 DEF InCreation
      <4>. QED  BY <1>a, <2>1, <3>3, <4>1, <4>2, <4>3 DEF Reserved
    <3>. QED  BY <3>1, <3>2, <3>3
  <2>. QED  BY <2>5, <2>6 DEF OrphanInv, OrphanOnlyOnOverlap
<1>3. CASE SpawnSession(r)
  <2>1. /\ pc[r] = "granted" /\ pc' = [pc EXCEPT ![r] = "starting"]
        /\ UNCHANGED <<sessions, target, overlapped>>
        /\ \A q \in Request \ {r} : session'[q] = session[q]
    BY <1>3 DEF SpawnSession, TypeOK
  <2>2. /\ pc'[r] = "starting"
        /\ \A q \in Request \ {r} : pc'[q] = pc[q]
        /\ \A q \in Request : InCreation(q)' => InCreation(q)
    BY <2>1 DEF InCreation, TypeOK
  <2>. QED  BY <1>a, <2>1, <2>2 DEF OrphanInv, OrphanOnlyOnOverlap, Orphan, Reserved
<1>4. ASSUME NEW next \in {"done", "failed"}, pc[r] # "queued", InCreation(r), Release(r, next)
      PROVE  /\ pc'[r] = next
             /\ \A q \in Request \ {r} : InCreation(q)' <=> InCreation(q)
             /\ \A q \in Request \ {r} : pc'[q] # "starting" => pc[q] # "starting"
  BY <1>0, <1>4, ReleaseQueue DEF InCreation
<1>5. CASE SpawnThrows(r)
  <2>1. /\ pc[r] = "granted" /\ Release(r, "failed")
        /\ UNCHANGED <<sessions, session, target, overlapped>>
    BY <1>5 DEF SpawnThrows
  <2>2. /\ pc'[r] = "failed"
        /\ \A q \in Request \ {r} : InCreation(q)' <=> InCreation(q)
        /\ \A q \in Request \ {r} : pc'[q] # "starting" => pc[q] # "starting"
    BY <1>4, <2>1 DEF InCreation
  <2>3. ~session[r].subprocess
    BY <1>0, <2>1 DEF NotYetSpawned, NotSpawned
  <2>4. \A q \in Request : InCreation(q)' => InCreation(q)
    BY <2>2 DEF InCreation
  <2>. QED  BY <1>a, <2>1, <2>2, <2>3, <2>4 DEF OrphanInv, OrphanOnlyOnOverlap, Orphan, Reserved
<1>6. CASE FinishCreate(r)
  <2>0. pc[r] = "starting" /\ InCreation(r) /\ target[r] \in Id /\ UNCHANGED <<target, overlapped>>
    BY <1>6 DEF FinishCreate, InCreation, TypeOK
  <2>1. CASE IsAlive(r)
    <3>1. /\ Release(r, "done")
          /\ sessions' = [sessions EXCEPT ![target[r]] = r]
          /\ session' = [session EXCEPT ![r].clients = @ \cup {from[r]}]
      BY <1>6, <2>1 DEF FinishCreate
    <3>2. /\ pc'[r] = "done"
          /\ \A q \in Request \ {r} : InCreation(q)' <=> InCreation(q)
          /\ \A q \in Request \ {r} : pc'[q] # "starting" => pc[q] # "starting"
      BY <1>4, <2>0, <3>1
    <3>3. \A q \in Request : session'[q].subprocess = session[q].subprocess
      BY <3>1 DEF TypeOK, SessionFields
    <3>4. /\ sessions'[target[r]] = r
          /\ \A i \in Id : i # target[r] => sessions'[i] = sessions[i]
      BY <2>0, <3>1 DEF TypeOK
    <3>5. ASSUME NEW s \in Request, Orphan(s)' PROVE target'[s] \in overlapped'
      <4>1. /\ s # r /\ session[s].subprocess /\ pc[s] # "starting"
        BY <2>0, <3>2, <3>3, <3>4, <3>5 DEF Orphan
      <4>2. CASE sessions[target[s]] # s
        BY <1>a, <2>0, <4>1, <4>2 DEF Orphan
      <4>3. CASE sessions[target[s]] = s
        <5>1. target[s] = target[r]
          BY <1>a, <2>0, <3>4, <3>5, <4>1, <4>3 DEF Orphan
        <5>. QED  BY <1>a, <2>0, <4>3, <5>1 DEF Reserved
      <4>. QED  BY <4>2, <4>3
    <3>6. ASSUME NEW q \in Request, InCreation(q)' PROVE Reserved(q)'
      <4>1. q # r /\ InCreation(q)
        BY <3>2, <3>6 DEF InCreation
      <4>2. CASE target[q] \in overlapped
        BY <2>0, <4>2 DEF Reserved
      <4>3. CASE target[q] \notin overlapped
        <5>1. sessions[target[q]] = None /\ \A p \in Request \ {q} : InCreation(p) => target[p] # target[q]
          BY <1>a, <4>1, <4>3 DEF Reserved
        <5>2. target[q] # target[r]
          BY <2>0, <4>1, <5>1
        <5>3. \A p \in Request : InCreation(p)' => InCreation(p)
          BY <2>0, <3>2
        <5>. QED  BY <1>a, <2>0, <3>4, <5>1, <5>2, <5>3 DEF Reserved
      <4>. QED  BY <4>2, <4>3
    <3>. QED  BY <3>5, <3>6 DEF OrphanInv, OrphanOnlyOnOverlap
  <2>2. CASE ~IsAlive(r)
    <3>1. Release(r, "failed") /\ session' = Dispose({r}) /\ UNCHANGED sessions
      BY <1>6, <2>2 DEF FinishCreate
    <3>2. /\ pc'[r] = "failed"
          /\ \A q \in Request \ {r} : InCreation(q)' <=> InCreation(q)
          /\ \A q \in Request \ {r} : pc'[q] # "starting" => pc[q] # "starting"
      BY <1>4, <2>0, <3>1
    <3>3. ~session'[r].subprocess /\ \A q \in Request \ {r} : session'[q] = session[q]
      BY <3>1, DisposeFields DEF TypeOK
    <3>4. \A q \in Request : InCreation(q)' => InCreation(q)
      BY <2>0, <3>2
    <3>. QED
      BY <1>a, <2>0, <3>1, <3>2, <3>3, <3>4
         DEF OrphanInv, OrphanOnlyOnOverlap, Orphan, Reserved
  <2>. QED  BY <2>1, <2>2
<1>. QED  BY <1>1, <1>2, <1>3, <1>5, <1>6 DEF Create, SpawnReady, SpawnTimeout

LEMMA OrphanStep == TypeOK /\ StructInv /\ OrphanInv /\ [Next]_vars => OrphanInv'
<1> SUFFICES ASSUME TypeOK, StructInv, OrphanInv, [Next]_vars PROVE OrphanInv'
  OBVIOUS
<1>. USE NoneAssumption
<1>0. HeldOK /\ target \in [Request -> Id]
  BY DEF StructInv, TypeOK
<1>1. ASSUME NEW r \in Request, Create(r) PROVE OrphanInv'
  BY <1>1, OrphanCreate
<1>2. ASSUME NEW I \in SUBSET Id, KillIds(I) PROVE OrphanInv'
  <2>1. \A s \in Request : session'[s].subprocess = session[s].subprocess
    BY <1>2 DEF KillIds, TypeOK, SessionFields
  <2>. QED  BY <1>2, <2>1, OrphanFrame DEF KillIds
<1>3. ASSUME NEW k \in Socket, NEW S \in SUBSET Held, DetachFrom(k, S),
             UNCHANGED <<pc, target, overlapped>>
      PROVE  OrphanInv'
  <2> DEFINE left(s) == session[s].clients \ {k}
             dropped == {s \in S : ~IsAlive(s) /\ left(s) = {}}
  <2>1. /\ session' = [s \in Request |->
                         IF s \in dropped THEN Dispose(dropped)[s]
                         ELSE IF s \in S THEN [session[s] EXCEPT !.clients = left(s)]
                         ELSE session[s]]
        /\ sessions' = [i \in Id |-> IF sessions[i] \in dropped THEN None ELSE sessions[i]]
    BY <1>3 DEF DetachFrom
  <2> HIDE DEF dropped
  <2>2. \A s \in Request : /\ s \in dropped => ~session'[s].subprocess
                           /\ s \notin dropped => session'[s].subprocess = session[s].subprocess
    BY <2>1, DisposeFields DEF TypeOK, SessionFields
  <2>. QED  BY <1>0, <1>3, <2>1, <2>2, OrphanFrame
<1>4. ASSUME NEW k \in Socket, SocketClose(k) PROVE OrphanInv'
  BY <1>3, <1>4 DEF SocketClose
<1>5. ASSUME NEW k \in Socket, NEW id \in Id, Detach(k, id) PROVE OrphanInv'
  BY <1>3, <1>5 DEF Detach, Held
<1>6. CASE Shutdown
  <2>1. /\ sessions' = [i \in Id |-> None] /\ session' = Dispose(Held)
        /\ UNCHANGED <<pc, target, overlapped>>
    BY <1>6 DEF Shutdown
  <2>2. \A s \in Request : /\ s \in Held => ~session'[s].subprocess
                           /\ s \notin Held => session'[s] = session[s]
    BY <2>1, DisposeFields DEF TypeOK
  <2>3. \A s \in Request : sessions[target[s]] = s => s \in Held
    BY <1>0 DEF Held
  <2>. QED  BY <2>1, <2>2, <2>3, OrphanFrame
<1>7. ASSUME NEW s \in Request, Process(s) PROVE OrphanInv'
  <2>1. UNCHANGED <<pc, target, overlapped, sessions>>
    BY <1>7 DEF Process, SpawnedFrame, ExitFrame, SubprocessExit
  <2>2. session'[s].subprocess => session[s].subprocess
    <3>1. CASE SpawnedFrame(s) \/ ExitFrame(s)
      BY <3>1 DEF SpawnedFrame, ExitFrame
    <3>2. CASE SubprocessExit(s)
      <4>1. session' = [session EXCEPT ![s] = [@ EXCEPT !.exited = TRUE, !.ready = TRUE,
                                                        !.subprocess = FALSE]]
        BY <3>2 DEF SubprocessExit
      <4>. QED  BY <4>1 DEF TypeOK, SessionFields
    <3>. QED  BY <1>7, <3>1, <3>2 DEF Process
  <2>3. \A q \in Request \ {s} : session'[q] = session[q]
    BY <1>7, ProcessFields
  <2>. QED  BY <2>1, <2>2, <2>3, OrphanFrame
<1>8. ASSUME NEW id \in Id, sessions[id] # None, session' = Dispose({sessions[id]}),
             sessions' = [sessions EXCEPT ![id] = None], UNCHANGED <<pc, target, overlapped>>
      PROVE  OrphanInv'
  <2>1. \A s \in Request : /\ s = sessions[id] => ~session'[s].subprocess
                           /\ s # sessions[id] => session'[s] = session[s]
    BY <1>8, DisposeFields DEF TypeOK
  <2>2. \A i \in Id : sessions'[i] = IF i = id THEN None ELSE sessions[i]
    BY <1>8 DEF TypeOK
  <2>. QED  BY <1>0, <1>8, <2>1, <2>2, OrphanFrame
<1>9. ASSUME UNCHANGED <<sessions, session, pc, target, overlapped>> PROVE OrphanInv'
  BY <1>9, OrphanFrame
<1>10. ASSUME NEW id \in Id, KillTimerFires(id) PROVE OrphanInv'
  BY <1>8, <1>9, <1>10 DEF KillTimerFires
<1>11. ASSUME NEW s \in Request, CleanupTimerFires(s) PROVE OrphanInv'
  BY <1>0, <1>8, <1>9, <1>11 DEF CleanupTimerFires
<1>12. CASE UNCHANGED vars
  BY <1>9, <1>12 DEF vars
<1>. QED
  BY <1>1, <1>2, <1>4, <1>5, <1>6, <1>7, <1>10, <1>11, <1>12 DEF Next, Kill, KillAll

\* A live session that nothing can reach any more is lost only where two creations
\* for its id were in flight at once.
THEOREM OrphanAlways == Spec => []OrphanOnlyOnOverlap
<1>1. Init => OrphanInv
  BY DEF Init, OrphanInv, OrphanOnlyOnOverlap, Orphan, InCreation, NotSpawned
<1>2. OrphanInv => OrphanOnlyOnOverlap
  BY DEF OrphanInv
<1>. QED
  BY <1>1, <1>2, InitType, InitStruct, TypeStep, StructStep, OrphanStep, PTL DEF Spec

------------------------------------------------------------------------------
(* The spawn limiter                                                       *)
(*                                                                         *)
(* The code counts permits and never records who has one; what ties the    *)
(* counter to the calls is that inUse is the number of calls between the   *)
(* grant and the release, and that nobody waits while a permit is free.    *)

Holding == {r \in Request : pc[r] \in {"granted", "starting"}}

LimitInv ==
  /\ IsFiniteSet(Holding) /\ inUse = Cardinality(Holding)

\* CountingSemaphore counts with a copy of Cardinality of its own.
LEMMA SameCardinality == \A S : Limiter!Cardinality(S) = Cardinality(S)
BY DEF Limiter!Cardinality, Cardinality

\* A limiter that the other components do not touch.
LEMMA LimitFrame ==
  ASSUME LimitInv, UNCHANGED <<inUse, queue, Holding>>
  PROVE  LimitInv' /\ UNCHANGED <<Holding, queue>>
BY DEF LimitInv

\* Acquire takes a free permit or joins the end of the queue.
LEMMA AcquireLimit ==
  ASSUME TypeOK, QueueOK, LimitInv, NEW r \in Request, pc[r] = "idle", Acquire(r)
  PROVE  LimitInv' /\ (Limiter!Take(r) \/ Limiter!Wait(r))
<1>0. /\ IsFiniteSet(Holding) /\ inUse = Cardinality(Holding)
      /\ r \notin Holding /\ r \notin Limiter!Waiting
  BY DEF LimitInv, Holding, Limiter!Waiting, QueueOK, TypeOK
<1>1. CASE inUse < MaxSpawns
  <2>1. inUse' = inUse + 1 /\ pc' = [pc EXCEPT ![r] = "granted"] /\ UNCHANGED queue
    BY <1>1 DEF Acquire
  <2>2. Holding' = Holding \cup {r}
    BY <2>1 DEF Holding, TypeOK
  <2>3. IsFiniteSet(Holding \cup {r}) /\ Cardinality(Holding \cup {r}) = Cardinality(Holding) + 1
    BY <1>0, FS_AddElement
  <2>4. LimitInv'
    BY <1>0, <2>1, <2>2, <2>3 DEF LimitInv
  <2>5. /\ r \notin Holding \cup Limiter!Waiting /\ Cardinality(Holding) < MaxSpawns
        /\ Holding' = Holding \cup {r} /\ UNCHANGED queue
    BY <1>0, <1>1, <2>1, <2>2
  <2>. QED  BY <2>4, <2>5, SameCardinality DEF Limiter!Take, Holding
<1>2. CASE ~(inUse < MaxSpawns)
  <2>1. queue' = Append(queue, r) /\ pc' = [pc EXCEPT ![r] = "queued"] /\ UNCHANGED inUse
    BY <1>2 DEF Acquire
  <2>2. Holding' = Holding
    BY <1>0, <2>1 DEF Holding, TypeOK
  <2>3. inUse >= MaxSpawns
    BY <1>2, MaxSpawnsAssumption DEF TypeOK
  <2>4. LimitInv'
    BY <1>0, <2>1, <2>2 DEF LimitInv
  <2>5. /\ r \notin Holding \cup Limiter!Waiting /\ Cardinality(Holding) >= MaxSpawns
        /\ Holding' = Holding /\ queue' = Append(queue, r)
    BY <1>0, <2>1, <2>2, <2>3
  <2>. QED  BY <2>4, <2>5, SameCardinality DEF Limiter!Wait, Holding
<1>. QED  BY <1>1, <1>2

\* Release gives the permit to the head of the queue, or back when nobody waits.
LEMMA ReleaseLimit ==
  ASSUME TypeOK, QueueOK, LimitInv, NEW r \in Request, NEW next \in {"done", "failed"},
         r \in Holding, Release(r, next)
  PROVE  LimitInv' /\ (Limiter!GiveBack(r) \/ Limiter!HandOver(r))
<1>0. IsFiniteSet(Holding) /\ inUse = Cardinality(Holding) /\ Cardinality(Holding) \in Nat
  BY FS_CardinalityType DEF LimitInv
<1>1. IsFiniteSet(Holding \ {r}) /\ Cardinality(Holding \ {r}) = Cardinality(Holding) - 1
  BY <1>0, FS_RemoveElement
<1>2. Cardinality(Holding \ {r}) \in Nat
  BY <1>1, FS_CardinalityType
<1>3. inUse > 0
  BY <1>0, <1>1, <1>2
<1>4. CASE queue = <<>>
  <2>1. inUse' = inUse - 1 /\ pc' = [pc EXCEPT ![r] = next] /\ UNCHANGED queue
    BY <1>3, <1>4 DEF Release
  <2>2. Holding' = Holding \ {r}
    BY <2>1 DEF Holding, TypeOK
  <2>. QED  BY <1>0, <1>1, <1>4, <2>1, <2>2 DEF LimitInv, Limiter!GiveBack, Holding
<1>5. CASE queue # <<>>
  <2> DEFINE w == Head(queue)
  <2>1. /\ inUse' = inUse - 1 + 1 /\ queue' = Tail(queue)
        /\ pc' = [pc EXCEPT ![r] = next, ![w] = "granted"]
    BY <1>3, <1>5 DEF Release
  <2>2. w \in Request /\ pc[w] = "queued"
    BY <1>5 DEF QueueOK, TypeOK
  <2>3. w # r /\ w \notin Holding
    BY <2>2 DEF Holding
  <2>4. Holding' = (Holding \ {r}) \cup {w}
    BY <2>1, <2>2, <2>3 DEF Holding, TypeOK
  <2>5. /\ IsFiniteSet((Holding \ {r}) \cup {w})
        /\ Cardinality((Holding \ {r}) \cup {w}) = Cardinality(Holding \ {r}) + 1
    BY <1>1, <2>3, FS_AddElement
  <2>. QED
    BY <1>0, <1>1, <1>5, <2>1, <2>4, <2>5 DEF LimitInv, Limiter!HandOver, Holding
<1>. QED  BY <1>4, <1>5

LEMMA LimitStep ==
  TypeOK /\ StructInv /\ LimitInv /\ [Next]_vars
    => LimitInv' /\ [Limiter!SemNext]_<<Holding, queue>>
<1> SUFFICES ASSUME TypeOK, StructInv, LimitInv, [Next]_vars
             PROVE  LimitInv' /\ [Limiter!SemNext]_<<Holding, queue>>
  OBVIOUS
<1>0. QueueOK
  BY DEF StructInv
<1>a. ASSUME UNCHANGED <<inUse, queue, pc>>
      PROVE  LimitInv' /\ UNCHANGED <<Holding, queue>>
  BY <1>a, LimitFrame DEF Holding
<1>1. ASSUME NEW r \in Request, BeginCreate(r)
      PROVE  LimitInv' /\ Limiter!SemNext
  BY <1>0, <1>1, AcquireLimit DEF BeginCreate, Limiter!SemNext
<1>2. ASSUME NEW r \in Request, SpawnThrows(r)
      PROVE  LimitInv' /\ Limiter!SemNext
  <2>1. r \in Holding /\ Release(r, "failed")
    BY <1>2 DEF SpawnThrows, Holding
  <2>. QED  BY <1>0, <2>1, ReleaseLimit DEF Limiter!SemNext
<1>3. ASSUME NEW r \in Request, FinishCreate(r)
      PROVE  LimitInv' /\ Limiter!SemNext
  <2>1. r \in Holding /\ (Release(r, "done") \/ Release(r, "failed"))
    BY <1>3 DEF FinishCreate, Holding
  <2>. QED  BY <1>0, <2>1, ReleaseLimit DEF Limiter!SemNext
<1>4. ASSUME NEW r \in Request, AttachExisting(r) \/ SpawnSession(r)
      PROVE  LimitInv' /\ UNCHANGED <<Holding, queue>>
  BY <1>4, LimitFrame DEF AttachExisting, SpawnSession, Holding, TypeOK
<1>5. ASSUME NEW I \in SUBSET Id, KillIds(I)
      PROVE  LimitInv' /\ UNCHANGED <<Holding, queue>>
  BY <1>5, <1>a DEF KillIds
<1>6. CASE \/ \E k \in Socket : SocketClose(k) \/ \E id \in Id : Detach(k, id)
           \/ Shutdown
           \/ \E id \in Id : KillTimerFires(id)
           \/ \E s \in Request : CleanupTimerFires(s)
  BY <1>6, <1>a DEF SocketClose, Detach, Shutdown, KillTimerFires, CleanupTimerFires
<1>7. ASSUME NEW s \in Request, Process(s)
      PROVE  LimitInv' /\ UNCHANGED <<Holding, queue>>
  BY <1>7, <1>a DEF Process, SpawnedFrame, ExitFrame, SubprocessExit
<1>8. CASE UNCHANGED vars
  BY <1>8, <1>a DEF vars
<1>. QED
  BY <1>1, <1>2, <1>3, <1>4, <1>5, <1>6, <1>7, <1>8
     DEF Next, Create, SpawnReady, SpawnTimeout, Kill, KillAll

\* The Semaphore class of the daemon implements a counting semaphore with a fair
\* queue: no permit is lost or given back twice, and no waiter is overtaken.
THEOREM LimiterRefined == Spec => SpawnLimiter
<1>1. Init => LimitInv /\ Limiter!SemInit
  <2> SUFFICES ASSUME Init PROVE LimitInv /\ Limiter!SemInit
    OBVIOUS
  <2>1. Holding = {} /\ inUse = 0 /\ queue = <<>>
    BY DEF Init, Holding
  <2>2. IsFiniteSet({}) /\ Cardinality({}) = 0
    BY FS_EmptySet
  <2>. QED  BY <2>1, <2>2 DEF LimitInv, Limiter!SemInit, Holding
<1>2. TypeOK /\ StructInv /\ LimitInv /\ [Next]_vars
        => LimitInv' /\ [Limiter!SemNext]_(Limiter!semVars)
  BY LimitStep DEF Limiter!semVars, Holding
<1>. QED
  BY <1>1, <1>2, InitType, InitStruct, TypeStep, StructStep, PTL
     DEF Spec, SpawnLimiter, Limiter!SemSpec

===============================================================================
