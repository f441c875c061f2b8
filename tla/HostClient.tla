------------------------------ MODULE HostClient ------------------------------
(***************************************************************************)
(* The app's connection to the terminal host daemon                        *)
(* (main/lib/terminal-host/client.ts): two sockets with a hello on each,   *)
(* the daemon spawned when there is none, and the calls that share one     *)
(* client object and interleave at their awaits.                           *)
(*                                                                         *)
(* Several apps may share a home directory.  A call is one run of          *)
(* ensureConnected, tryConnectAndAuthenticate (here: peek) or              *)
(* shutdownIfRunning; an action is what it does between two awaits, except *)
(* that the spawn lock is read and written in two steps, between which     *)
(* another process may run.                                                *)
(***************************************************************************)
EXTENDS DaemonProcess

CONSTANTS App, Call

\* A call makes one socket of each role at a time.
Control(c) == <<c, "control">>
Stream(c) == <<c, "stream">>

ASSUME ClientAssumption == Socket = Call \X {"control", "stream"}

VARIABLES
  appOf,      \* the app that a call belongs to
  kind,       \* ensure, peek, shutdown; none
  pc,         \* where a call waits; idle; quit with its app
  lock,       \* SPAWN_LOCK_PATH: none, fresh, stale
  \* the client object of an app
  state,      \* connectionState: disconnected, connecting, connected
  control,    \* controlSocket
  stream,     \* streamSocket
  authentic,  \* the roles whose ...Authenticated flag is set
  armed,      \* disconnectArmed
  \* history, which no action reads
  overtaken   \* apps whose connection state was reset under a call in progress

objectVars == <<state, control, stream, authentic, armed, overtaken>>
vars == <<daemonVars, appOf, kind, pc, lock, objectVars>>

HostClientInit ==
  /\ appOf \in [Call -> App]
  /\ kind = [c \in Call |-> "none"] /\ pc = [c \in Call |-> "idle"]
  /\ lock = "none"
  /\ state = [a \in App |-> "disconnected"]
  /\ control = [a \in App |-> None] /\ stream = [a \in App |-> None]
  /\ authentic = [a \in App |-> {}] /\ armed = [a \in App |-> FALSE]
  /\ overtaken = {}

Init == DaemonInit /\ HostClientInit

\* The fast path of ensureConnected.
Usable(a) ==
  /\ state[a] = "connected" /\ control[a] # None /\ stream[a] # None
  /\ authentic[a] = {"control", "stream"}

------------------------------------------------------------------------------
(* Losing the connection *)

CallsOf(a) == {c \in Call : appOf[c] = a}

\* Calls that are at work on the connection, rather than waiting for another call.
Connecting(a) == {c \in CallsOf(a) : pc[c] \notin {"idle", "quit", "wait"}}

\* Calls that wait for an answer on the control socket: a reset rejects them.
Rejected(a) == {c \in CallsOf(a) : pc[c] \in {"hello", "request"}}

Forget(a) ==
  /\ control' = [control EXCEPT ![a] = None] /\ stream' = [stream EXCEPT ![a] = None]
  /\ authentic' = [authentic EXCEPT ![a] = {}]
  /\ state' = [state EXCEPT ![a] = "disconnected"]

\* resetConnectionState, and the end of the calls that end with it.
Reset(a, ending) ==
  LET over == ending \cup Rejected(a) IN
  /\ Close({control[a], stream[a]}) /\ Forget(a)
  /\ pc' = [c \in Call |-> IF c \in over THEN "idle" ELSE pc[c]]
  /\ kind' = [c \in Call |-> IF c \in over THEN "none" ELSE kind[c]]
  /\ overtaken' = IF Connecting(a) \subseteq over THEN overtaken ELSE overtaken \cup {a}

\* The catch of ensureConnected and of tryConnectAndAuthenticate, the finally of
\* shutdownIfRunning (disconnect, also when its request is rejected).
Fail(c) ==
  LET a == appOf[c] IN
  /\ Reset(a, {c})
  /\ armed' = [armed EXCEPT ![a] =
                 @ \/ \E x \in {c} \cup Rejected(a) : kind[x] = "shutdown"]

\* handleDisconnect, when a current socket closes: the other end is gone.
CloseEvent(a) ==
  /\ \E s \in {control[a], stream[a]} : s # None /\ conn[s] = None
  /\ ~armed[a]
  /\ armed' = [armed EXCEPT ![a] = TRUE]
  /\ Reset(a, {})
  /\ UNCHANGED <<daemon, sock, fault, appOf, lock>>

\* The app ends: its sockets close, its lock file stays.
AppQuits(a) ==
  /\ \E c \in CallsOf(a) : pc[c] # "quit"
  /\ pc' = [c \in Call |-> IF appOf[c] = a THEN "quit" ELSE pc[c]]
  /\ kind' = [c \in Call |-> IF appOf[c] = a THEN "none" ELSE kind[c]]
  /\ Close(CallsOf(a) \X {"control", "stream"}) /\ Forget(a)
  /\ armed' = [armed EXCEPT ![a] = FALSE]
  /\ UNCHANGED <<daemon, sock, fault, appOf, lock, overtaken>>

------------------------------------------------------------------------------
(* A call connects *)

Goto(c, place) == pc' = [pc EXCEPT ![c] = place]
Stay == UNCHANGED <<appOf, kind>>
Return(c) ==
  /\ Goto(c, "idle")
  /\ kind' = [kind EXCEPT ![c] = "none"] /\ UNCHANGED appOf

\* The call may make new sockets: those of its last run are not in use.
Spare(c) ==
  /\ pc[c] = "idle"
  /\ \A s \in {Control(c), Stream(c)} :
       conn[s] = None /\ s \notin {control[appOf[c]], stream[appOf[c]]}

Begin(c, what, place) ==
  /\ Spare(c)
  /\ Goto(c, place)
  /\ kind' = [kind EXCEPT ![c] = what]
  /\ UNCHANGED <<daemonVars, appOf, lock, control, stream, authentic, overtaken>>

\* Variant: it does not wait.
BeginEnsureNoWait(c) ==
  /\ ~Usable(appOf[c])
  /\ Begin(c, "ensure", "dial")
  /\ state' = [state EXCEPT ![appOf[c]] = "connecting"]
  /\ armed' = [armed EXCEPT ![appOf[c]] = FALSE]

\* ensureConnected without its fast path: it waits for a connection in progress, or
\* starts one.
BeginEnsure(c) ==
  LET a == appOf[c] IN
  /\ ~Usable(a)
  /\ \/ /\ state[a] = "connecting" /\ Begin(c, "ensure", "wait")
        /\ UNCHANGED <<state, armed>>
     \/ /\ state[a] # "connecting" /\ Begin(c, "ensure", "dial")
        /\ state' = [state EXCEPT ![a] = "connecting"]
        /\ armed' = [armed EXCEPT ![a] = FALSE]

\* The poll of a waiting ensureConnected: connected, given up by the other call, or
\* ten seconds have passed.
WaitEnds(c) ==
  /\ pc[c] = "wait"
  /\ Return(c)
  /\ UNCHANGED <<daemonVars, lock, objectVars>>

\* tryConnectAndAuthenticate, unless it answers at once; disconnectArmed stays.
BeginPeek(c) ==
  LET a == appOf[c] IN
  /\ control[a] = None \/ "control" \notin authentic[a]
  /\ state[a] # "connecting"
  /\ Begin(c, "peek", "dial")
  /\ state' = [state EXCEPT ![a] = "connecting"]
  /\ UNCHANGED armed

\* shutdownIfRunning, whatever the state of the connection.
BeginShutdown(c) == Begin(c, "shutdown", "dial") /\ UNCHANGED <<state, armed>>

\* tryConnectControl: the new socket becomes the current one, and hello is sent.
DialSucceeds(c) ==
  /\ pc[c] \in {"dial", "redial"} /\ Listening(sock)
  /\ conn' = [conn EXCEPT ![Control(c)] = sock]
  /\ control' = [control EXCEPT ![appOf[c]] = Control(c)]
  /\ Goto(c, "hello") /\ Stay
  /\ UNCHANGED <<daemon, sock, greeted, fault, lock, state, stream, authentic, armed, overtaken>>

\* Variant: the socket file is taken for stale without a probe.
DialFailsNoProbe(c) ==
  /\ pc[c] = "dial" /\ kind[c] = "ensure"
  /\ Goto(c, "unlink") /\ Stay
  /\ UNCHANGED <<daemonVars, lock, objectVars>>

\* No daemon, or no answer within five seconds: spawnDaemon probes the socket file,
\* if there is one.
DialFails(c) ==
  /\ pc[c] = "dial" /\ kind[c] = "ensure"
  /\ Goto(c, IF sock # None THEN "probe" ELSE "lock") /\ Stay
  /\ UNCHANGED <<daemonVars, lock, objectVars>>

\* The calls that spawn nothing give up.
DialGivesUp(c) ==
  /\ pc[c] = "dial"
  /\ \/ kind[c] = "peek" /\ Fail(c) /\ UNCHANGED appOf
     \/ kind[c] = "shutdown" /\ Return(c) /\ UNCHANGED <<conn, greeted, objectVars>>
  /\ UNCHANGED <<daemon, sock, fault, lock>>

\* "Failed to connect control socket after spawn".
RedialFails(c) ==
  /\ pc[c] = "redial"
  /\ Fail(c)
  /\ UNCHANGED <<daemon, sock, fault, appOf, lock>>

------------------------------------------------------------------------------
(* spawnDaemon *)

ProbeSocket(c) ==
  /\ pc[c] = "probe"
  /\ \/ ProbeLive /\ Goto(c, "redial")
     \/ ProbeDead /\ Goto(c, "unlink")
  /\ Stay
  /\ UNCHANGED <<daemon, sock, conn, greeted, lock, objectVars>>

UnlinkStale(c) ==
  /\ pc[c] = "unlink"
  /\ UnlinkSocket
  /\ Goto(c, "lock") /\ Stay
  /\ UNCHANGED <<daemon, conn, greeted, fault, lock, objectVars>>

\* acquireSpawnLock looks at the lock: a recent one is respected, an old one removed.
TakeLock(c) ==
  /\ pc[c] = "lock"
  /\ IF lock = "fresh"
     THEN Goto(c, "await") /\ UNCHANGED lock
     ELSE Goto(c, "spawn") /\ lock' = "none"
  /\ Stay
  /\ UNCHANGED <<daemonVars, objectVars>>

\* It writes the lock, and the daemon is spawned.
Spawn(c) ==
  /\ pc[c] = "spawn"
  /\ lock' = "fresh"
  /\ Goto(c, "awaitOwn") /\ Stay
  /\ \E d \in Daemon :
       /\ daemon[d] = "gone" /\ sock # d
       /\ daemon' = [daemon EXCEPT ![d] = "spawned"]
  /\ UNCHANGED <<sock, conn, greeted, fault, objectVars>>

\* Without a script or a process to spawn: the lock is released, the call fails.
SpawnFails(c) ==
  /\ pc[c] = "spawn"
  /\ lock' = "none"
  /\ Fail(c)
  /\ UNCHANGED <<daemon, sock, fault, appOf>>

\* waitForDaemon, for the daemon of one's own or of another holder of the lock;
\* releaseSpawnLock then removes the lock, whoever holds it by now.
Awaits(c) == pc[c] \in {"await", "awaitOwn"}
ReleaseLock(c) == lock' = IF pc[c] = "awaitOwn" THEN "none" ELSE lock

DaemonAwaited(c) ==
  /\ Awaits(c) /\ ProbeLive
  /\ ReleaseLock(c)
  /\ Goto(c, "redial") /\ Stay
  /\ UNCHANGED <<daemon, sock, conn, greeted, objectVars>>

\* "Daemon failed to start in time".
AwaitTimeout(c) ==
  /\ Awaits(c)
  /\ ReleaseLock(c)
  /\ Fail(c)
  /\ UNCHANGED <<daemon, sock, fault, appOf>>

\* Ten seconds of wall-clock time have passed since the lock was written: its app
\* has quit, or the machine was asleep.
LockExpires ==
  /\ lock = "fresh" /\ lock' = "stale"
  /\ UNCHANGED <<daemonVars, appOf, kind, pc, objectVars>>

------------------------------------------------------------------------------
(* hello *)

\* The daemon's hello handler replaces the app's earlier socket of the same role.
Older(s) ==
  {t \in greeted \ {s} : t[2] = s[2] /\ appOf[t[1]] = appOf[s[1]] /\ conn[t] = conn[s]}
Greet(s) ==
  /\ conn[s] # None
  /\ conn' = [t \in Socket |-> IF t \in Older(s) THEN None ELSE conn[t]]
  /\ greeted' = (greeted \ Older(s)) \cup {s}
  /\ UNCHANGED <<daemon, sock, fault, lock>>

\* The answer on the control socket.
HelloAnswered(c) ==
  LET a == appOf[c] IN
  /\ pc[c] = "hello" /\ Greet(Control(c))
  /\ authentic' = [authentic EXCEPT ![a] = @ \cup {"control"}]
  /\ \/ kind[c] = "ensure" /\ Goto(c, "streamDial") /\ Stay /\ UNCHANGED state
     \/ kind[c] = "shutdown" /\ Goto(c, "request") /\ Stay /\ UNCHANGED state
     \/ kind[c] = "peek" /\ Return(c) /\ state' = [state EXCEPT ![a] = "connected"]
  /\ UNCHANGED <<control, stream, armed, overtaken>>

\* Thirty seconds without an answer, or an error.
HelloFails(c) ==
  /\ pc[c] = "hello"
  /\ Fail(c)
  /\ UNCHANGED <<daemon, sock, fault, appOf, lock>>

\* tryConnectStream and the hello on it.
StreamDial(c) ==
  /\ pc[c] = "streamDial"
  /\ \/ /\ Listening(sock)
        /\ conn' = [conn EXCEPT ![Stream(c)] = sock]
        /\ stream' = [stream EXCEPT ![appOf[c]] = Stream(c)]
        /\ Goto(c, "streamHello") /\ Stay
        /\ UNCHANGED <<greeted, state, control, authentic, armed, overtaken>>
     \/ Fail(c) /\ UNCHANGED appOf
  /\ UNCHANGED <<daemon, sock, fault, lock>>

\* Variant: an overtaken call does not look at the flag it armed again.
StreamAnsweredArmed(c) ==
  LET a == appOf[c] IN
  /\ pc[c] = "streamHello" /\ Greet(Stream(c))
  /\ authentic' = [authentic EXCEPT ![a] = @ \cup {"stream"}]
  /\ state' = [state EXCEPT ![a] = "connected"]
  /\ Return(c)
  /\ UNCHANGED <<control, stream, armed, overtaken>>

\* The answer on the stream socket: ensureConnected is through.
StreamAnswered(c) ==
  LET a == appOf[c] IN
  /\ pc[c] = "streamHello" /\ Greet(Stream(c))
  /\ authentic' = [authentic EXCEPT ![a] = @ \cup {"stream"}]
  /\ state' = [state EXCEPT ![a] = "connected"]
  /\ armed' = [armed EXCEPT ![a] = FALSE]
  /\ Return(c)
  /\ UNCHANGED <<control, stream, overtaken>>

\* Its timer; sendRequestOnStream is not among the requests a reset rejects.
StreamFails(c) ==
  /\ pc[c] = "streamHello"
  /\ Fail(c)
  /\ UNCHANGED <<daemon, sock, fault, appOf, lock>>

\* The answer to a shutdown request, sent on the current control socket: the daemon
\* begins to stop, and the client disconnects.
ShutdownAnswered(c) ==
  LET d == conn[control[appOf[c]]] IN
  /\ pc[c] = "request" /\ control[appOf[c]] # None /\ d # None
  /\ IF Listening(d) THEN StopDaemon(d) ELSE UNCHANGED <<daemon, fault>>
  /\ Fail(c)
  /\ UNCHANGED <<sock, appOf, lock>>

ShutdownFails(c) ==
  /\ pc[c] = "request"
  /\ Fail(c)
  /\ UNCHANGED <<daemon, sock, fault, appOf, lock>>

------------------------------------------------------------------------------
\* The steps of a call that has begun.
Step(c) ==
  \/ WaitEnds(c) \/ DialSucceeds(c) \/ DialFails(c) \/ DialGivesUp(c) \/ RedialFails(c)
  \/ ProbeSocket(c) \/ UnlinkStale(c) \/ TakeLock(c) \/ Spawn(c) \/ SpawnFails(c)
  \/ DaemonAwaited(c) \/ AwaitTimeout(c)
  \/ HelloAnswered(c) \/ HelloFails(c) \/ StreamDial(c) \/ StreamAnswered(c) \/ StreamFails(c)
  \/ ShutdownAnswered(c) \/ ShutdownFails(c)

ClientNext ==
  \/ \E c \in Call : BeginEnsure(c) \/ BeginPeek(c) \/ BeginShutdown(c) \/ Step(c)
  \/ \E a \in App : CloseEvent(a) \/ AppQuits(a)
  \/ LockExpires

Next ==
  \/ DaemonNext /\ UNCHANGED <<appOf, kind, pc, lock, objectVars>>
  \/ ClientNext

Spec == Init /\ [][Next]_vars

------------------------------------------------------------------------------
(* Properties *)

Places == {"idle", "quit", "wait", "dial", "probe", "unlink", "lock", "spawn", "await",
           "awaitOwn", "redial", "hello", "streamDial", "streamHello", "request"}

\* Types of the daemons, the clients and the calls; a client keeps a socket in the
\* field of its role.
TypeOK ==
  /\ DaemonTypeOK
  /\ appOf \in [Call -> App] /\ kind \in [Call -> {"none", "ensure", "peek", "shutdown"}]
  /\ pc \in [Call -> Places] /\ lock \in {"none", "fresh", "stale"}
  /\ state \in [App -> {"disconnected", "connecting", "connected"}]
  /\ control \in [App -> {Control(c) : c \in Call} \cup {None}]
  /\ stream \in [App -> {Stream(c) : c \in Call} \cup {None}]
  /\ authentic \in [App -> SUBSET {"control", "stream"}] /\ armed \in [App -> BOOLEAN]
  /\ overtaken \subseteq App

\* A daemon that listens where nobody can find it.
Orphan(d) == Listening(d) /\ sock # d

\* The look at the socket before it is removed "prevents orphaning a running daemon",
\* and so at most one is listening, although two apps may both take the spawn lock:
\* as long as no daemon was stopped, none died leaving its file, and none was
\* misjudged by a probe.
NoOrphan == (\E d \in Daemon : Orphan(d)) => fault

\* While ensureConnected takes the connection for good, the loss of one of its sockets
\* will be noticed: the flag that hides the close event is down.
LossNoticed == \A a \in App : Usable(a) => ~armed[a]

\* A caller asked the app to disconnect.
Asked(a) == \E c \in CallsOf(a) : kind[c] = "shutdown" /\ pc'[c] # pc[c]

\* A connection in use is taken down by the event of its loss, or because a caller
\* asked for it, never by the failure of another call: calls wait for one another,
\* unless a reset has overtaken one.
NoSilentLoss ==
  [][\A a \in App : Usable(a) /\ ~Usable(a)' =>
       CloseEvent(a) \/ AppQuits(a) \/ Asked(a) \/ a \in overtaken]_vars

===============================================================================
