--------------------------- MODULE HostClientProofs ---------------------------
(***************************************************************************)
(* Proofs about the client of the terminal host daemon, for any number of  *)
(* apps, calls and daemon processes.                                       *)
(***************************************************************************)
EXTENDS HostClient, TLAPS

------------------------------------------------------------------------------
(* Types                                                                   *)

LEMMA Sockets ==
  ASSUME NEW c \in Call
  PROVE  Control(c) \in Socket /\ Stream(c) \in Socket
  BY ClientAssumption DEF Control, Stream

\* What of the types a reset can touch.
ClientType ==
  /\ kind \in [Call -> {"none", "ensure", "peek", "shutdown"}] /\ pc \in [Call -> Places]
  /\ state \in [App -> {"disconnected", "connecting", "connected"}]
  /\ control \in [App -> {Control(c) : c \in Call} \cup {None}]
  /\ stream \in [App -> {Stream(c) : c \in Call} \cup {None}]
  /\ authentic \in [App -> SUBSET {"control", "stream"}] /\ overtaken \subseteq App

ConnType == conn \in [Socket -> Daemon \cup {None}] /\ greeted \subseteq Socket

ArmedType == armed \in [App -> BOOLEAN]

DaemonType ==
  /\ daemon \in [Daemon -> {"gone", "spawned", "probing", "clearing", "binding",
                            "serving", "stopping", "closing"}]
  /\ sock \in Daemon \cup {None} /\ fault \in BOOLEAN

\* The types of the parts are the types of all, now and after a step.
LEMMA TypeParts ==
  ASSUME DaemonType, ConnType, ClientType, ArmedType,
         appOf \in [Call -> App], lock \in {"none", "fresh", "stale"}
  PROVE  TypeOK
  BY DEF TypeOK, DaemonTypeOK, DaemonType, ConnType, ClientType, ArmedType

LEMMA TypePartsNext ==
  ASSUME DaemonType', ConnType', ClientType', ArmedType',
         appOf' \in [Call -> App], lock' \in {"none", "fresh", "stale"}
  PROVE  TypeOK'
  BY DEF TypeOK, DaemonTypeOK, DaemonType, ConnType, ClientType, ArmedType

LEMMA TypesNow ==
  TypeOK => DaemonType /\ appOf \in [Call -> App] /\ lock \in {"none", "fresh", "stale"}
  BY DEF TypeOK, DaemonTypeOK, DaemonType

LEMMA ResetType ==
  ASSUME TypeOK, NEW a \in App, NEW ending, Reset(a, ending)
  PROVE  ClientType' /\ ConnType'
<1>. USE DEF TypeOK, DaemonTypeOK, Reset, Forget, Close
<1>1. ConnType'
  BY DEF ConnType
<1>2. /\ state' \in [App -> {"disconnected", "connecting", "connected"}]
      /\ control' \in [App -> {Control(c) : c \in Call} \cup {None}]
      /\ stream' \in [App -> {Stream(c) : c \in Call} \cup {None}]
      /\ authentic' \in [App -> SUBSET {"control", "stream"}]
  OBVIOUS
<1>3. overtaken' \subseteq App
  OBVIOUS
<1>4. pc' \in [Call -> Places] /\ kind' \in [Call -> {"none", "ensure", "peek", "shutdown"}]
  BY DEF Places
<1>. QED
  BY <1>1, <1>2, <1>3, <1>4 DEF ClientType

LEMMA FailType ==
  ASSUME TypeOK, NEW c \in Call, Fail(c)
  PROVE  ClientType' /\ ConnType' /\ ArmedType'
<1>1. appOf[c] \in App
  BY DEF TypeOK
<1>2. Reset(appOf[c], {c})
  BY DEF Fail
<1>3. ArmedType'
  <2>. DEFINE asked == \E x \in {c} \cup Rejected(appOf[c]) : kind[x] = "shutdown"
  <2>1. armed' = [armed EXCEPT ![appOf[c]] = @ \/ asked]
    BY DEF Fail
  <2>. HIDE DEF asked
  <2>2. (armed[appOf[c]] \/ asked) \in BOOLEAN
    OBVIOUS
  <2>. QED
    BY <2>1, <2>2 DEF ArmedType, TypeOK
<1>. QED
  BY <1>1, <1>2, <1>3, ResetType

LEMMA BeginType ==
  ASSUME TypeOK, NEW c \in Call, BeginEnsure(c) \/ BeginPeek(c) \/ BeginShutdown(c)
  PROVE  TypeOK'
<1>1. appOf[c] \in App /\ armed[appOf[c]] \in BOOLEAN
  BY DEF TypeOK
<1>. USE DEF Begin, Goto, daemonVars
<1>2. CASE BeginEnsure(c)
  <2>1. /\ pc' \in [Call -> Places]
        /\ kind' \in [Call -> {"none", "ensure", "peek", "shutdown"}]
        /\ UNCHANGED <<daemon, sock, conn, greeted, fault, appOf, lock, control, stream,
                      authentic, overtaken>>
    BY <1>2 DEF BeginEnsure, TypeOK, Places
  <2>2. state' \in [App -> {"disconnected", "connecting", "connected"}]
    BY <1>2 DEF BeginEnsure, TypeOK
  <2>3. armed' = armed \/ armed' = [armed EXCEPT ![appOf[c]] = FALSE]
    BY <1>2 DEF BeginEnsure
  <2>4. armed' \in [App -> BOOLEAN]
    BY <2>3 DEF TypeOK
  <2>. QED
    BY <2>1, <2>2, <2>4 DEF TypeOK, DaemonTypeOK
<1>3. CASE BeginPeek(c)
  BY <1>3 DEF BeginPeek, TypeOK, DaemonTypeOK, Places
<1>4. CASE BeginShutdown(c)
  BY <1>4 DEF BeginShutdown, TypeOK, DaemonTypeOK, Places
<1>. QED
  BY <1>2, <1>3, <1>4

\* Steps of a call that leave the daemons' side and the client object alone, but for
\* the probe's verdict and the socket's file.
LEMMA WayType ==
  ASSUME TypeOK, NEW c \in Call,
         \/ WaitEnds(c) \/ DialFails(c) \/ ProbeSocket(c) \/ UnlinkStale(c) \/ TakeLock(c)
         \/ Spawn(c) \/ DaemonAwaited(c)
  PROVE  TypeOK'
<1>. USE DEF Goto, Stay, Return, objectVars, daemonVars
<1>1. UNCHANGED <<conn, greeted, state, control, stream, authentic, armed, overtaken, appOf>>
  BY DEF WaitEnds, DialFails, ProbeSocket, UnlinkStale, TakeLock, Spawn, DaemonAwaited,
         ProbeLive, ProbeDead, UnlinkSocket
<1>2. pc' \in [Call -> Places] /\ kind' \in [Call -> {"none", "ensure", "peek", "shutdown"}]
  BY DEF WaitEnds, DialFails, ProbeSocket, UnlinkStale, TakeLock, Spawn, DaemonAwaited,
         TypeOK, Places
<1>3. lock' \in {"none", "fresh", "stale"}
  BY DEF WaitEnds, DialFails, ProbeSocket, UnlinkStale, TakeLock, Spawn, DaemonAwaited,
         ReleaseLock, TypeOK
<1>4. sock' \in Daemon \cup {None}
      /\ daemon' \in [Daemon -> {"gone", "spawned", "probing", "clearing", "binding",
                                 "serving", "stopping", "closing"}]
  BY DEF WaitEnds, DialFails, ProbeSocket, UnlinkStale, TakeLock, Spawn, DaemonAwaited,
         UnlinkSocket, TypeOK, DaemonTypeOK
<1>5. fault' \in BOOLEAN
  <2>1. fault' = fault \/ fault' = (fault \/ Listening(sock))
    BY DEF WaitEnds, DialFails, ProbeSocket, UnlinkStale, TakeLock, Spawn, DaemonAwaited,
           ProbeLive, ProbeDead
  <2>. QED
    BY <2>1 DEF TypeOK, DaemonTypeOK
<1>. QED
  BY <1>1, <1>2, <1>3, <1>4, <1>5 DEF TypeOK, DaemonTypeOK

\* Steps that connect.
LEMMA GreetType ==
  ASSUME TypeOK, NEW s \in Socket, Greet(s)
  PROVE  ConnType' /\ DaemonType' /\ lock' = lock
  BY DEF Greet, ConnType, DaemonType, TypeOK, DaemonTypeOK

LEMMA HelloType ==
  ASSUME TypeOK, NEW c \in Call,
         DialSucceeds(c) \/ HelloAnswered(c) \/ StreamAnswered(c)
  PROVE  TypeOK'
<1>1. appOf[c] \in App /\ Control(c) \in Socket /\ Stream(c) \in Socket
  BY Sockets DEF TypeOK
<1>. USE DEF Goto, Stay, Return
<1>2. CASE DialSucceeds(c)
  <2>1. sock \in Daemon
    BY <1>2 DEF DialSucceeds, Listening
  <2>2. ConnType' /\ DaemonType'
    BY <1>2, <2>1 DEF DialSucceeds, ConnType, DaemonType, TypeOK, DaemonTypeOK
  <2>3. ClientType' /\ ArmedType' /\ appOf' = appOf /\ lock' = lock
    BY <1>1, <1>2 DEF DialSucceeds, ClientType, ArmedType, TypeOK, Places
  <2>. QED
    BY <2>2, <2>3, TypesNow, TypePartsNext
<1>3. CASE HelloAnswered(c)
  <2>1. ConnType' /\ DaemonType' /\ lock' = lock
    BY <1>1, <1>3, GreetType DEF HelloAnswered
  <2>2. ClientType' /\ ArmedType' /\ appOf' = appOf
    BY <1>1, <1>3 DEF HelloAnswered, ClientType, ArmedType, TypeOK, Places
  <2>. QED
    BY <2>1, <2>2, TypesNow, TypePartsNext
<1>4. CASE StreamAnswered(c)
  <2>1. ConnType' /\ DaemonType' /\ lock' = lock
    BY <1>1, <1>4, GreetType DEF StreamAnswered
  <2>2. ClientType' /\ appOf' = appOf
    BY <1>1, <1>4 DEF StreamAnswered, ClientType, TypeOK, Places
  <2>3. ArmedType'
    BY <1>1, <1>4 DEF StreamAnswered, ArmedType, TypeOK
  <2>. QED
    BY <2>1, <2>2, <2>3, TypesNow, TypePartsNext
<1>. QED
  BY <1>2, <1>3, <1>4

LEMMA StreamDialType ==
  ASSUME TypeOK, NEW c \in Call, StreamDial(c)
  PROVE  TypeOK'
<1>1. appOf[c] \in App
  BY DEF TypeOK
<1>2. UNCHANGED <<daemon, sock, fault, lock, appOf>>
  BY DEF StreamDial, Stay
<1>3. CASE Fail(c)
  BY <1>2, <1>3, FailType, TypesNow, TypePartsNext DEF DaemonType
<1>4. CASE ~Fail(c)
  <2>1. /\ sock \in Daemon
        /\ conn' = [conn EXCEPT ![Stream(c)] = sock]
        /\ stream' = [stream EXCEPT ![appOf[c]] = Stream(c)]
        /\ pc' = [pc EXCEPT ![c] = "streamHello"]
        /\ UNCHANGED <<kind, greeted, state, control, authentic, armed, overtaken>>
    BY <1>4 DEF StreamDial, Goto, Stay, Listening
  <2>2. ConnType'
    BY <2>1 DEF ConnType, TypeOK, DaemonTypeOK
  <2>3. ClientType' /\ ArmedType'
    BY <1>1, <2>1 DEF ClientType, ArmedType, TypeOK, Places
  <2>. QED
    BY <1>2, <2>2, <2>3, TypesNow, TypePartsNext DEF DaemonType
<1>. QED
  BY <1>3, <1>4

\* Steps with which a call ends.
LEMMA EndType ==
  ASSUME TypeOK, NEW c \in Call,
         \/ DialGivesUp(c) \/ RedialFails(c) \/ SpawnFails(c) \/ AwaitTimeout(c)
         \/ HelloFails(c) \/ StreamFails(c) \/ ShutdownAnswered(c) \/ ShutdownFails(c)
  PROVE  TypeOK'
<1>1. CASE Fail(c)
  <2>1. appOf' = appOf /\ sock' = sock /\ lock' \in {"none", "fresh", "stale"}
    BY DEF DialGivesUp, RedialFails, SpawnFails, AwaitTimeout, HelloFails, StreamFails,
           ShutdownAnswered, ShutdownFails, ReleaseLock, TypeOK, Return
  <2>2. DaemonType'
    <3>1. CASE UNCHANGED <<daemon, fault>>
      BY <2>1, <3>1 DEF DaemonType, TypeOK, DaemonTypeOK
    <3>2. CASE ShutdownAnswered(c)
      <4>1. \/ UNCHANGED <<daemon, fault>>
            \/ \E d \in Daemon : StopDaemon(d)
        BY <3>2 DEF ShutdownAnswered, Listening
      <4>. QED
        BY <2>1, <3>1, <4>1 DEF StopDaemon, DaemonType, TypeOK, DaemonTypeOK
    <3>. QED
      BY <3>1, <3>2 DEF DialGivesUp, RedialFails, SpawnFails, AwaitTimeout, HelloFails,
                        StreamFails, ShutdownFails
  <2>. QED
    BY <1>1, <2>1, <2>2, FailType, TypesNow, TypePartsNext
<1>2. CASE Return(c) /\ UNCHANGED <<conn, greeted, objectVars>>
           /\ UNCHANGED <<daemon, sock, fault, lock>>
  BY <1>2 DEF Return, Goto, objectVars, TypeOK, DaemonTypeOK, Places
<1>. QED
  BY <1>1, <1>2 DEF DialGivesUp, RedialFails, SpawnFails, AwaitTimeout, HelloFails,
                    StreamFails, ShutdownAnswered, ShutdownFails

LEMMA LossType ==
  ASSUME TypeOK, NEW a \in App, CloseEvent(a) \/ AppQuits(a)
  PROVE  TypeOK'
<1>1. CASE CloseEvent(a)
  <2>1. ClientType' /\ ConnType'
    BY <1>1, ResetType DEF CloseEvent
  <2>2. ArmedType'
    BY <1>1 DEF CloseEvent, ArmedType, TypeOK
  <2>. QED
    BY <1>1, <2>1, <2>2, TypesNow, TypePartsNext DEF CloseEvent, DaemonType
<1>2. CASE AppQuits(a)
  <2>1. ClientType'
    BY <1>2 DEF AppQuits, Forget, ClientType, TypeOK, Places
  <2>2. ConnType' /\ ArmedType'
    BY <1>2 DEF AppQuits, Close, ConnType, ArmedType, TypeOK, DaemonTypeOK
  <2>. QED
    BY <1>2, <2>1, <2>2, TypesNow, TypePartsNext DEF AppQuits, DaemonType
<1>. QED
  BY <1>1, <1>2

LEMMA DaemonNextType ==
  ASSUME TypeOK, DaemonNext, UNCHANGED <<appOf, kind, pc, lock, objectVars>>
  PROVE  TypeOK'
<1>1. PICK d \in Daemon :
        CheckSocket(d) \/ Probe(d) \/ ClearSocket(d) \/ Bind(d)
          \/ Signalled(d) \/ CloseServer(d) \/ FinishStop(d) \/ Crash(d)
  BY DEF DaemonNext
<1>. USE DEF CheckSocket, Probe, ClearSocket, Bind, Signalled, StopDaemon, CloseServer,
             FinishStop, Crash, UnlinkSocket, ProbeLive, ProbeDead
<1>2. daemon' \in [Daemon -> {"gone", "spawned", "probing", "clearing", "binding",
                              "serving", "stopping", "closing"}]
      /\ sock' \in Daemon \cup {None}
  BY <1>1 DEF TypeOK, DaemonTypeOK
<1>3. fault' \in BOOLEAN
  <2>1. \/ fault' = fault \/ fault' = TRUE
        \/ fault' = (fault \/ Listening(sock)) \/ fault' = (fault \/ sock = d)
    BY <1>1
  <2>. QED
    BY <2>1 DEF TypeOK, DaemonTypeOK
<1>4. ConnType'
  BY <1>1 DEF Close, ConnType, TypeOK, DaemonTypeOK
<1>5. ClientType' /\ ArmedType' /\ appOf' = appOf /\ lock' = lock
  BY DEF objectVars, ClientType, ArmedType, TypeOK
<1>. QED
  BY <1>2, <1>3, <1>4, <1>5, TypesNow, TypePartsNext DEF DaemonType

LEMMA TypeNext == TypeOK /\ [Next]_vars => TypeOK'
<1>. SUFFICES ASSUME TypeOK, [Next]_vars PROVE TypeOK'
  OBVIOUS
<1>1. CASE DaemonNext /\ UNCHANGED <<appOf, kind, pc, lock, objectVars>>
  BY <1>1, DaemonNextType
<1>2. ASSUME NEW c \in Call,
             BeginEnsure(c) \/ BeginPeek(c) \/ BeginShutdown(c) \/ Step(c)
      PROVE  TypeOK'
  BY <1>2, BeginType, WayType, HelloType, StreamDialType, EndType DEF Step
<1>3. ASSUME NEW a \in App, CloseEvent(a) \/ AppQuits(a) PROVE TypeOK'
  BY <1>3, LossType
<1>4. CASE LockExpires \/ UNCHANGED vars
  BY <1>4 DEF LockExpires, vars, daemonVars, objectVars, TypeOK, DaemonTypeOK
<1>. QED
  BY <1>1, <1>2, <1>3, <1>4 DEF Next, ClientNext

LEMMA TypeInit == Init => TypeOK
<1>. SUFFICES ASSUME Init PROVE TypeOK
  OBVIOUS
<1>1. DaemonType /\ ConnType
  BY DEF Init, DaemonInit, DaemonType, ConnType
<1>2. ClientType /\ ArmedType
  BY DEF Init, HostClientInit, ClientType, ArmedType, Places
<1>. QED
  BY <1>1, <1>2, TypeParts DEF Init, HostClientInit

\* The daemons, the clients and the calls keep their types, and a client keeps a socket
\* in the field of its role, whatever the number of apps, calls and daemons.
THEOREM TypeCorrect == Spec => []TypeOK
<1>1. TypeOK /\ [Next]_vars => TypeOK'
  BY TypeNext
<1>. QED
  BY TypeInit, <1>1, PTL DEF Spec

------------------------------------------------------------------------------
(* Orphans                                                                 *)
(*                                                                         *)
(* Without a fault a socket file belongs to a daemon that listens, and     *)
(* nobody who has looked at it goes on to remove it.                       *)

NoFault ==
  /\ sock # None => Listening(sock)
  /\ \A d \in Daemon :
       /\ Listening(d) => sock = d
       /\ daemon[d] \notin {"stopping", "closing", "clearing"}
       /\ daemon[d] = "probing" => sock # None
  /\ \A c \in Call : pc[c] # "unlink" /\ (pc[c] = "probe" => sock # None)

OrphanInv == ~fault => NoFault

LEMMA OrphanFromInv == TypeOK /\ OrphanInv => NoOrphan
  BY DEF OrphanInv, NoFault, NoOrphan, Orphan

\* The daemons' own steps.
LEMMA DaemonNextOrphan ==
  ASSUME TypeOK, OrphanInv, DaemonNext, UNCHANGED pc, ~fault'
  PROVE  NoFault'
<1>1. PICK d \in Daemon :
        CheckSocket(d) \/ Probe(d) \/ ClearSocket(d) \/ Bind(d)
          \/ Signalled(d) \/ CloseServer(d) \/ FinishStop(d) \/ Crash(d)
  BY DEF DaemonNext
<1>2. fault \in BOOLEAN /\ sock \in Daemon \cup {None}
      /\ daemon \in [Daemon -> {"gone", "spawned", "probing", "clearing", "binding",
                                "serving", "stopping", "closing"}]
  BY DEF TypeOK, DaemonTypeOK
<1>3. ~fault
  BY <1>1, <1>2 DEF CheckSocket, Probe, ProbeLive, ProbeDead, ClearSocket, Bind, Signalled,
                    StopDaemon, CloseServer, FinishStop, Crash
<1>4. NoFault
  BY <1>3 DEF OrphanInv
<1>. USE NoneAssumption DEF Listening, NoFault
<1>5. CASE CheckSocket(d)
  BY <1>2, <1>4, <1>5 DEF CheckSocket
<1>6. CASE Probe(d)
  BY <1>2, <1>3, <1>4, <1>6 DEF Probe, ProbeLive, ProbeDead
<1>7. CASE ClearSocket(d) \/ CloseServer(d) \/ FinishStop(d) \/ Signalled(d)
  BY <1>2, <1>4, <1>7 DEF ClearSocket, CloseServer, FinishStop, Signalled, StopDaemon
<1>8. CASE Bind(d)
  BY <1>2, <1>4, <1>8 DEF Bind
<1>9. CASE Crash(d)
  <2>1. sock # d /\ sock' = sock /\ daemon' = [daemon EXCEPT ![d] = "gone"]
    BY <1>2, <1>9 DEF Crash
  <2>. QED
    BY <1>2, <1>4, <2>1
<1>. QED
  BY <1>1, <1>5, <1>6, <1>7, <1>8, <1>9

\* The steps of a call that touch a daemon or its socket.
LEMMA CallOrphan ==
  ASSUME TypeOK, OrphanInv, NEW c \in Call, ~fault',
         \/ DialFails(c) \/ ProbeSocket(c) \/ UnlinkStale(c) \/ Spawn(c) \/ DaemonAwaited(c)
         \/ ShutdownAnswered(c)
  PROVE  NoFault'
<1>1. fault \in BOOLEAN /\ sock \in Daemon \cup {None} /\ pc \in [Call -> Places]
      /\ daemon \in [Daemon -> {"gone", "spawned", "probing", "clearing", "binding",
                                "serving", "stopping", "closing"}]
  BY DEF TypeOK, DaemonTypeOK
<1>2. ~fault
  BY <1>1 DEF DialFails, ProbeSocket, ProbeLive, ProbeDead, UnlinkStale, Spawn, DaemonAwaited,
              ShutdownAnswered, StopDaemon, daemonVars
<1>3. NoFault
  BY <1>2 DEF OrphanInv
<1>. USE NoneAssumption DEF Listening, NoFault, Goto
<1>4. CASE DialFails(c)
  BY <1>1, <1>3, <1>4 DEF DialFails, daemonVars
<1>5. CASE ProbeSocket(c)
  BY <1>1, <1>2, <1>3, <1>5 DEF ProbeSocket, ProbeLive, ProbeDead
<1>6. CASE UnlinkStale(c)
  BY <1>3, <1>6 DEF UnlinkStale
<1>7. CASE Spawn(c)
  <2>1. PICK d \in Daemon : daemon[d] = "gone" /\ sock # d
                            /\ daemon' = [daemon EXCEPT ![d] = "spawned"]
    BY <1>7 DEF Spawn
  <2>2. sock' = sock /\ pc' = [pc EXCEPT ![c] = "awaitOwn"]
    BY <1>7 DEF Spawn
  <2>. QED
    BY <1>1, <1>3, <2>1, <2>2
<1>8. CASE DaemonAwaited(c)
  BY <1>1, <1>3, <1>8 DEF DaemonAwaited
<1>9. CASE ShutdownAnswered(c)
  <2>1. UNCHANGED <<daemon, sock>>
    BY <1>2, <1>9 DEF ShutdownAnswered, StopDaemon
  <2>2. \A x \in Call : pc'[x] \in {pc[x], "idle"}
    BY <1>1, <1>9 DEF ShutdownAnswered, Fail, Reset
  <2>. QED
    BY <1>1, <1>3, <2>1, <2>2
<1>. QED
  BY <1>4, <1>5, <1>6, <1>7, <1>8, <1>9

\* All other steps: a call moves to a place where it looks at no file.
LEMMA QuietOrphan ==
  ASSUME OrphanInv, UNCHANGED <<daemon, sock, fault>>,
         \A x \in Call : pc'[x] \in {pc[x]} \cup (Places \ {"probe", "unlink"})
  PROVE  OrphanInv'
  BY DEF OrphanInv, NoFault, Listening

LEMMA FailPlaces ==
  ASSUME TypeOK, NEW a \in App, NEW ending, Reset(a, ending)
  PROVE  \A x \in Call : pc'[x] \in {pc[x], "idle"}
  BY DEF Reset, TypeOK

LEMMA OrphanNext == TypeOK /\ OrphanInv /\ [Next]_vars => OrphanInv'
<1>. SUFFICES ASSUME TypeOK, OrphanInv, [Next]_vars PROVE OrphanInv'
  OBVIOUS
<1>1. CASE DaemonNext /\ UNCHANGED <<appOf, kind, pc, lock, objectVars>>
  BY <1>1, DaemonNextOrphan DEF OrphanInv
<1>2. ASSUME NEW c \in Call,
             BeginEnsure(c) \/ BeginPeek(c) \/ BeginShutdown(c) \/ Step(c)
      PROVE  OrphanInv'
  <2>0. pc \in [Call -> Places] /\ appOf[c] \in App
    BY DEF TypeOK
  <2>1. CASE \/ DialFails(c) \/ ProbeSocket(c) \/ UnlinkStale(c) \/ Spawn(c)
             \/ DaemonAwaited(c) \/ ShutdownAnswered(c)
    BY <2>1, CallOrphan DEF OrphanInv
  <2>2. CASE BeginEnsure(c) \/ BeginPeek(c) \/ BeginShutdown(c)
    <3>1. /\ UNCHANGED <<daemon, sock, fault>>
          /\ \A x \in Call : pc'[x] \in {pc[x]} \cup (Places \ {"probe", "unlink"})
      BY <2>0, <2>2
         DEF BeginEnsure, BeginPeek, BeginShutdown, Begin, Goto, daemonVars, Places
    <3>. QED
      BY <3>1, QuietOrphan
  <2>3. CASE WaitEnds(c) \/ DialSucceeds(c) \/ TakeLock(c) \/ HelloAnswered(c) \/ StreamAnswered(c)
    <3>1. /\ UNCHANGED <<daemon, sock, fault>>
          /\ \A x \in Call : pc'[x] \in {pc[x]} \cup (Places \ {"probe", "unlink"})
      BY <2>0, <2>3 DEF WaitEnds, DialSucceeds, TakeLock, HelloAnswered, StreamAnswered, Greet,
                        Goto, Return, daemonVars, Places
    <3>. QED
      BY <3>1, QuietOrphan
  <2>4. CASE \/ DialGivesUp(c) \/ RedialFails(c) \/ SpawnFails(c) \/ AwaitTimeout(c)
             \/ HelloFails(c) \/ StreamDial(c) \/ StreamFails(c) \/ ShutdownFails(c)
    <3>1. UNCHANGED <<daemon, sock, fault>>
      BY <2>4 DEF DialGivesUp, RedialFails, SpawnFails, AwaitTimeout, HelloFails, StreamDial,
                  StreamFails, ShutdownFails
    <3>2. \/ Fail(c) \/ pc' = [pc EXCEPT ![c] = "idle"] \/ pc' = [pc EXCEPT ![c] = "streamHello"]
      BY <2>4 DEF DialGivesUp, RedialFails, SpawnFails, AwaitTimeout, HelloFails, StreamDial,
                  StreamFails, ShutdownFails, Goto, Return
    <3>3. \A x \in Call : pc'[x] \in {pc[x], "idle", "streamHello"}
      BY <2>0, <3>2, FailPlaces DEF Fail
    <3>. QED
      BY <3>1, <3>3, QuietOrphan DEF Places
  <2>. QED
    BY <1>2, <2>1, <2>2, <2>3, <2>4 DEF Step
<1>3. ASSUME NEW a \in App, CloseEvent(a) \/ AppQuits(a) PROVE OrphanInv'
  <2>1. UNCHANGED <<daemon, sock, fault>>
    BY <1>3 DEF CloseEvent, AppQuits
  <2>2. \A x \in Call : pc'[x] \in {pc[x], "idle", "quit"}
    BY <1>3, FailPlaces DEF CloseEvent, AppQuits, TypeOK
  <2>. QED
    BY <2>1, <2>2, QuietOrphan DEF Places
<1>4. CASE LockExpires \/ UNCHANGED vars
  BY <1>4 DEF LockExpires, vars, daemonVars, OrphanInv, NoFault, Listening
<1>. QED
  BY <1>1, <1>2, <1>3, <1>4 DEF Next, ClientNext

LEMMA OrphanInit == Init => OrphanInv
  BY NoneAssumption DEF Init, DaemonInit, HostClientInit, OrphanInv, NoFault, Listening

\* At most one daemon listens, at the socket path, as long as none was stopped, died or was
\* misjudged (spawnDaemon, startServer): for any number of apps, calls and daemons.
THEOREM NoOrphanAlways == Spec => []NoOrphan
<1>1. TypeOK /\ OrphanInv /\ [Next]_vars => TypeOK' /\ OrphanInv'
  BY TypeNext, OrphanNext
<1>. QED
  BY TypeInit, OrphanInit, OrphanFromInv, <1>1, PTL DEF Spec

------------------------------------------------------------------------------
(* The flag that hides the loss of the connection                          *)

\* The flag is raised only with a reset, and the stream is trusted only with the flag
\* down.
LossInv == \A a \in App : "stream" \in authentic[a] => ~armed[a]

LEMMA FailLoss ==
  ASSUME TypeOK, LossInv, NEW c \in Call, Fail(c)
  PROVE  LossInv'
<1>1. appOf[c] \in App
  BY DEF TypeOK
<1>2. authentic' = [authentic EXCEPT ![appOf[c]] = {}]
  BY DEF Fail, Reset, Forget
<1>3. \A a \in App : a # appOf[c] => armed'[a] = armed[a]
  BY DEF Fail, TypeOK
<1>. QED
  BY <1>1, <1>2, <1>3 DEF LossInv, TypeOK

LEMMA LossNext == TypeOK /\ LossInv /\ [Next]_vars => LossInv'
<1>. SUFFICES ASSUME TypeOK, LossInv, [Next]_vars PROVE LossInv'
  OBVIOUS
<1>0. armed \in [App -> BOOLEAN] /\ authentic \in [App -> SUBSET {"control", "stream"}]
  BY DEF TypeOK
<1>1. CASE UNCHANGED <<authentic, armed>>
  BY <1>1 DEF LossInv
<1>2. ASSUME NEW c \in Call,
             BeginEnsure(c) \/ BeginPeek(c) \/ BeginShutdown(c) \/ Step(c)
      PROVE  LossInv'
  <2>0. appOf[c] \in App
    BY DEF TypeOK
  <2>1. CASE Fail(c)
    BY <2>1, FailLoss
  <2>2. CASE BeginEnsure(c)
    <3>1. authentic' = authentic
          /\ (armed' = armed \/ armed' = [armed EXCEPT ![appOf[c]] = FALSE])
      BY <2>2 DEF BeginEnsure, Begin
    <3>. QED
      BY <1>0, <2>0, <3>1 DEF LossInv
  <2>3. CASE HelloAnswered(c)
    <3>1. armed' = armed /\ authentic' = [authentic EXCEPT ![appOf[c]] = @ \cup {"control"}]
      BY <2>3 DEF HelloAnswered
    <3>. QED
      BY <1>0, <2>0, <3>1 DEF LossInv
  <2>4. CASE StreamAnswered(c)
    <3>1. armed' = [armed EXCEPT ![appOf[c]] = FALSE]
          /\ authentic' = [authentic EXCEPT ![appOf[c]] = @ \cup {"stream"}]
      BY <2>4 DEF StreamAnswered
    <3>. QED
      BY <1>0, <2>0, <3>1 DEF LossInv
  <2>5. CASE \/ BeginPeek(c) \/ BeginShutdown(c) \/ WaitEnds(c) \/ DialSucceeds(c)
             \/ DialFails(c) \/ ProbeSocket(c) \/ UnlinkStale(c) \/ TakeLock(c) \/ Spawn(c)
             \/ DaemonAwaited(c)
    <3>1. UNCHANGED <<authentic, armed>>
      BY <2>5 DEF BeginPeek, BeginShutdown, Begin, WaitEnds, DialSucceeds, DialFails,
                  ProbeSocket, UnlinkStale, TakeLock, Spawn, DaemonAwaited, objectVars
    <3>. QED
      BY <1>1, <3>1
  <2>6. CASE \/ DialGivesUp(c) \/ RedialFails(c) \/ SpawnFails(c) \/ AwaitTimeout(c)
             \/ HelloFails(c) \/ StreamDial(c) \/ StreamFails(c) \/ ShutdownAnswered(c)
             \/ ShutdownFails(c)
    <3>1. Fail(c) \/ UNCHANGED <<authentic, armed>>
      BY <2>6 DEF DialGivesUp, RedialFails, SpawnFails, AwaitTimeout, HelloFails, StreamDial,
                  StreamFails, ShutdownAnswered, ShutdownFails, objectVars
    <3>. QED
      BY <1>1, <2>1, <3>1
  <2>. QED
    BY <1>2, <2>2, <2>3, <2>4, <2>5, <2>6 DEF Step
<1>3. ASSUME NEW a \in App, CloseEvent(a) \/ AppQuits(a) PROVE LossInv'
  <2>1. authentic' = [authentic EXCEPT ![a] = {}]
        /\ \E flag \in BOOLEAN : armed' = [armed EXCEPT ![a] = flag]
    BY <1>3 DEF CloseEvent, AppQuits, Reset, Forget
  <2>. QED
    BY <1>0, <2>1 DEF LossInv
<1>4. CASE DaemonNext /\ UNCHANGED <<appOf, kind, pc, lock, objectVars>>
  BY <1>1, <1>4 DEF objectVars
<1>5. CASE LockExpires \/ UNCHANGED vars
  BY <1>1, <1>5 DEF LockExpires, vars, objectVars
<1>. QED
  BY <1>2, <1>3, <1>4, <1>5 DEF Next, ClientNext

\* A client that takes its connection for good has the flag down that would hide the close
\* event (disconnectArmed), however its calls interleave.
THEOREM LossNoticedAlways == Spec => []LossNoticed
<1>1. TypeOK /\ LossInv => LossNoticed
  BY DEF LossInv, LossNoticed, Usable
<1>2. TypeOK /\ LossInv /\ [Next]_vars => TypeOK' /\ LossInv'
  BY TypeNext, LossNext
<1>3. Init => LossInv
  BY DEF Init, HostClientInit, LossInv
<1>. QED
  BY TypeInit, <1>1, <1>2, <1>3, PTL DEF Spec

------------------------------------------------------------------------------
(* Connections in use                                                      *)
(*                                                                         *)
(* The calls that make a connection exclude one another by the state       *)
(* "connecting", unless a reset has taken it from one of them.             *)

AtWork == Places \ {"idle", "quit", "wait"}
Worker(a, c) == appOf[c] = a /\ pc[c] \in AtWork /\ kind[c] # "shutdown"

ConnectInv ==
  /\ \A c \in Call : pc[c] \in {"streamDial", "streamHello"} => kind[c] = "ensure"
  /\ \A a \in App \ overtaken : \A c \in Call : Worker(a, c) =>
       state[a] = "connecting" /\ \A x \in Call : Worker(a, x) => x = c

\* A reset leaves no call at work of an app, or notes that it has been overtaken.
LEMMA ResetConnect ==
  ASSUME TypeOK, ConnectInv, NEW a \in App, NEW ending \in SUBSET CallsOf(a),
         Reset(a, ending), appOf' = appOf
  PROVE  ConnectInv'
<1>. DEFINE over == ending \cup Rejected(a)
<1>1. /\ pc \in [Call -> Places] /\ kind \in [Call -> {"none", "ensure", "peek", "shutdown"}]
      /\ state \in [App -> {"disconnected", "connecting", "connected"}]
  BY DEF TypeOK
<1>2. /\ pc' = [c \in Call |-> IF c \in over THEN "idle" ELSE pc[c]]
      /\ kind' = [c \in Call |-> IF c \in over THEN "none" ELSE kind[c]]
      /\ state' = [state EXCEPT ![a] = "disconnected"]
      /\ overtaken' = IF Connecting(a) \subseteq over THEN overtaken ELSE overtaken \cup {a}
  BY DEF Reset, Forget
<1>3. over \subseteq CallsOf(a)
  BY DEF Rejected
<1>. HIDE DEF over
<1>4. ASSUME NEW c \in Call, pc'[c] \in {"streamDial", "streamHello"} PROVE kind'[c] = "ensure"
  BY <1>1, <1>2, <1>4 DEF ConnectInv
<1>5. ASSUME NEW c \in Call, Worker(a, c)', a \notin overtaken' PROVE FALSE
  <2>1. c \in Connecting(a) /\ c \notin over
    BY <1>1, <1>2, <1>5 DEF Worker, AtWork, Connecting, CallsOf
  <2>. QED
    BY <1>2, <1>5, <2>1
<1>6. ASSUME NEW b \in App \ {a}, NEW c \in Call, Worker(b, c)' PROVE Worker(b, c)
  BY <1>1, <1>2, <1>3, <1>6 DEF Worker, AtWork, CallsOf
<1>7. \A b \in App \ {a} : state'[b] = state[b] /\ (b \notin overtaken' => b \notin overtaken)
  BY <1>1, <1>2
<1>. QED
  BY <1>4, <1>5, <1>6, <1>7 DEF ConnectInv

LEMMA FailConnect ==
  ASSUME TypeOK, ConnectInv, NEW c \in Call, Fail(c), appOf' = appOf
  PROVE  ConnectInv'
<1>1. appOf[c] \in App /\ {c} \in SUBSET CallsOf(appOf[c])
  BY DEF TypeOK, CallsOf
<1>2. Reset(appOf[c], {c})
  BY DEF Fail
<1>. QED
  BY <1>1, <1>2, ResetConnect

LEMMA BeginConnect ==
  ASSUME TypeOK, ConnectInv, NEW c \in Call, BeginEnsure(c) \/ BeginPeek(c) \/ BeginShutdown(c)
  PROVE  ConnectInv'
<1>. DEFINE a == appOf[c]
<1>1. /\ a \in App /\ pc \in [Call -> Places]
      /\ kind \in [Call -> {"none", "ensure", "peek", "shutdown"}]
      /\ state \in [App -> {"disconnected", "connecting", "connected"}]
  BY DEF TypeOK
<1>2. pc[c] = "idle" /\ UNCHANGED <<appOf, overtaken>>
  BY DEF BeginEnsure, BeginPeek, BeginShutdown, Begin, Spare
<1>3. CASE \/ /\ pc' = [pc EXCEPT ![c] = "wait"] /\ kind' = [kind EXCEPT ![c] = "ensure"]
              /\ state' = state
           \/ /\ pc' = [pc EXCEPT ![c] = "dial"] /\ kind' = [kind EXCEPT ![c] = "shutdown"]
              /\ state' = state
  BY <1>1, <1>2, <1>3 DEF ConnectInv, Worker, AtWork
<1>4. CASE /\ state[a] # "connecting" /\ pc' = [pc EXCEPT ![c] = "dial"]
           /\ \/ kind' = [kind EXCEPT ![c] = "ensure"] \/ kind' = [kind EXCEPT ![c] = "peek"]
           /\ state' = [state EXCEPT ![a] = "connecting"]
  <2>1. \A x \in Call : pc'[x] \in {"streamDial", "streamHello"} => kind'[x] = "ensure"
    BY <1>1, <1>4 DEF ConnectInv
  <2>2. \A b \in App : \A x \in Call \ {c} : Worker(b, x)' <=> Worker(b, x)
    BY <1>1, <1>2, <1>4 DEF Worker
  <2>3. \A b \in App : Worker(b, c)' => b = a
    BY <1>2 DEF Worker
  <2>4. \A x \in Call : a \notin overtaken => ~Worker(a, x)
    BY <1>1, <1>4 DEF ConnectInv
  <2>5. state'[a] = "connecting" /\ \A b \in App : b # a => state'[b] = state[b]
    BY <1>1, <1>4
  <2>. QED
    BY <1>1, <1>2, <2>1, <2>2, <2>3, <2>4, <2>5 DEF ConnectInv
<1>. QED
  BY <1>3, <1>4 DEF BeginEnsure, BeginPeek, BeginShutdown, Begin, Goto

\* A call that goes on, or that is not at work and stops waiting.
LEMMA GoesOnConnect ==
  ASSUME TypeOK, ConnectInv, NEW c \in Call, NEW place \in Places,
         pc' = [pc EXCEPT ![c] = place], UNCHANGED <<appOf, state, overtaken>>,
         \/ pc[c] \in AtWork /\ UNCHANGED kind
         \/ place = "idle" /\ kind' = [kind EXCEPT ![c] = "none"],
         place \in {"streamDial", "streamHello"} => kind[c] = "ensure"
  PROVE  ConnectInv'
<1>1. /\ pc \in [Call -> Places] /\ kind \in [Call -> {"none", "ensure", "peek", "shutdown"}]
  BY DEF TypeOK
<1>2. \A x \in Call : pc'[x] \in {"streamDial", "streamHello"} => kind'[x] = "ensure"
  BY <1>1 DEF ConnectInv
<1>3. \A a \in App, x \in Call : Worker(a, x)' => Worker(a, x)
  BY <1>1 DEF Worker, AtWork
<1>. QED
  BY <1>2, <1>3 DEF ConnectInv

\* The call that was at work on the connection has made it.
LEMMA DoneConnect ==
  ASSUME TypeOK, ConnectInv, NEW c \in Call, pc[c] \in AtWork, kind[c] # "shutdown", Return(c),
         state' = [state EXCEPT ![appOf[c]] = "connected"], UNCHANGED overtaken
  PROVE  ConnectInv'
<1>. DEFINE a == appOf[c]
<1>1. /\ a \in App /\ pc \in [Call -> Places]
      /\ kind \in [Call -> {"none", "ensure", "peek", "shutdown"}]
      /\ state \in [App -> {"disconnected", "connecting", "connected"}]
  BY DEF TypeOK
<1>2. /\ pc' = [pc EXCEPT ![c] = "idle"] /\ kind' = [kind EXCEPT ![c] = "none"]
      /\ appOf' = appOf
  BY DEF Return, Goto
<1>3. \A x \in Call : pc'[x] \in {"streamDial", "streamHello"} => kind'[x] = "ensure"
  BY <1>1, <1>2 DEF ConnectInv
<1>4. \A b \in App, x \in Call : Worker(b, x)' => Worker(b, x) /\ x # c
  BY <1>1, <1>2 DEF Worker, AtWork
<1>5. Worker(a, c)
  BY DEF Worker
<1>6. ASSUME NEW b \in App \ overtaken, NEW x \in Call, Worker(b, x)'
      PROVE  b # a
  BY <1>4, <1>5, <1>6 DEF ConnectInv
<1>7. \A b \in App \ {a} : state'[b] = state[b]
  BY <1>1
<1>. HIDE DEF a
<1>. QED
  BY <1>3, <1>4, <1>6, <1>7 DEF ConnectInv

LEMMA ConnectNext == TypeOK /\ ConnectInv /\ [Next]_vars => ConnectInv'
<1>. SUFFICES ASSUME TypeOK, ConnectInv, [Next]_vars PROVE ConnectInv'
  OBVIOUS
<1>1. CASE UNCHANGED <<appOf, pc, kind, state, overtaken>>
  BY <1>1 DEF ConnectInv, Worker
<1>2. ASSUME NEW c \in Call,
             BeginEnsure(c) \/ BeginPeek(c) \/ BeginShutdown(c) \/ Step(c)
      PROVE  ConnectInv'
  <2>. USE DEF AtWork, Places
  <2>1. CASE BeginEnsure(c) \/ BeginPeek(c) \/ BeginShutdown(c)
    BY <2>1, BeginConnect
  <2>2. CASE /\ UNCHANGED <<appOf, kind, state, overtaken>> /\ pc[c] \in AtWork
             /\ \E place \in AtWork \ {"streamDial", "streamHello"} :
                  pc' = [pc EXCEPT ![c] = place]
    BY <2>2, GoesOnConnect
  <2>3. CASE /\ WaitEnds(c) \/ (Return(c) /\ UNCHANGED objectVars)
    BY <2>3, GoesOnConnect DEF WaitEnds, Return, Goto, objectVars
  <2>4. CASE Fail(c) /\ UNCHANGED appOf
    BY <2>4, FailConnect
  <2>5. CASE DialSucceeds(c) \/ DialFails(c) \/ ProbeSocket(c) \/ UnlinkStale(c)
    BY <2>2, <2>5 DEF DialSucceeds, DialFails, ProbeSocket, UnlinkStale, Goto, Stay, objectVars
  <2>6. CASE TakeLock(c) \/ Spawn(c) \/ DaemonAwaited(c)
    BY <2>2, <2>6 DEF TakeLock, Spawn, DaemonAwaited, Awaits, Goto, Stay, objectVars
  <2>7. CASE HelloAnswered(c)
    <3>1. CASE kind[c] = "ensure"
      <4>1. pc' = [pc EXCEPT ![c] = "streamDial"] /\ pc[c] = "hello"
            /\ UNCHANGED <<appOf, kind, state, overtaken>>
        BY <2>7, <3>1 DEF HelloAnswered, Goto, Stay
      <4>. QED
        BY <3>1, <4>1, GoesOnConnect
    <3>2. CASE kind[c] = "shutdown"
      BY <2>2, <2>7, <3>2 DEF HelloAnswered, Goto, Stay
    <3>3. CASE kind[c] = "peek"
      BY <2>7, <3>3, DoneConnect DEF HelloAnswered
    <3>. QED
      BY <2>7, <3>1, <3>2, <3>3 DEF HelloAnswered
  <2>8. CASE StreamDial(c)
    <3>1. CASE Fail(c)
      BY <2>4, <2>8, <3>1 DEF StreamDial, Stay
    <3>2. CASE ~Fail(c)
      <4>1. pc' = [pc EXCEPT ![c] = "streamHello"] /\ pc[c] = "streamDial"
            /\ UNCHANGED <<appOf, kind, state, overtaken>>
        BY <2>8, <3>2 DEF StreamDial, Goto, Stay
      <4>2. kind[c] = "ensure"
        BY <4>1 DEF ConnectInv
      <4>. QED
        BY <4>1, <4>2, GoesOnConnect
    <3>. QED
      BY <3>1, <3>2
  <2>9. CASE StreamAnswered(c)
    <3>1. pc[c] = "streamHello" /\ kind[c] = "ensure"
      BY <2>9 DEF StreamAnswered, ConnectInv
    <3>. QED
      BY <2>9, <3>1, DoneConnect DEF StreamAnswered
  <2>10. CASE \/ DialGivesUp(c) \/ RedialFails(c) \/ SpawnFails(c) \/ AwaitTimeout(c)
              \/ HelloFails(c) \/ StreamFails(c) \/ ShutdownAnswered(c) \/ ShutdownFails(c)
    BY <2>3, <2>4, <2>10
       DEF DialGivesUp, RedialFails, SpawnFails, AwaitTimeout, HelloFails, StreamFails,
           ShutdownAnswered, ShutdownFails
  <2>. QED
    BY <1>2, <2>1, <2>3, <2>5, <2>6, <2>7, <2>8, <2>9, <2>10 DEF Step
<1>3. ASSUME NEW a \in App, CloseEvent(a) PROVE ConnectInv'
  BY <1>3, ResetConnect DEF CloseEvent
<1>4. ASSUME NEW a \in App, AppQuits(a) PROVE ConnectInv'
  <2>0. pc \in [Call -> Places] /\ state \in [App -> {"disconnected", "connecting", "connected"}]
    BY DEF TypeOK
  <2>1. /\ pc' = [c \in Call |-> IF appOf[c] = a THEN "quit" ELSE pc[c]]
        /\ kind' = [c \in Call |-> IF appOf[c] = a THEN "none" ELSE kind[c]]
        /\ state' = [state EXCEPT ![a] = "disconnected"] /\ UNCHANGED <<appOf, overtaken>>
    BY <1>4 DEF AppQuits, Forget
  <2>2. \A b \in App, c \in Call : Worker(b, c)' => b # a /\ Worker(b, c)
    BY <2>0, <2>1 DEF Worker, AtWork
  <2>3. \A b \in App \ {a} : state'[b] = state[b]
    BY <2>0, <2>1
  <2>4. \A c \in Call : pc'[c] \in {"streamDial", "streamHello"} => kind'[c] = "ensure"
    BY <2>0, <2>1 DEF ConnectInv
  <2>. QED
    BY <2>1, <2>2, <2>3, <2>4 DEF ConnectInv
<1>5. CASE DaemonNext /\ UNCHANGED <<appOf, kind, pc, lock, objectVars>>
  BY <1>1, <1>5 DEF objectVars
<1>6. CASE LockExpires \/ UNCHANGED vars
  BY <1>1, <1>6 DEF LockExpires, vars, objectVars
<1>. QED
  BY <1>2, <1>3, <1>4, <1>5, <1>6 DEF Next, ClientNext

\* What takes a connection down that was in use.
LEMMA LossStep ==
  ASSUME TypeOK, ConnectInv, [Next]_vars, NEW a \in App, Usable(a), ~Usable(a)'
  PROVE  CloseEvent(a) \/ AppQuits(a) \/ Asked(a) \/ a \in overtaken
<1>0. /\ state \in [App -> {"disconnected", "connecting", "connected"}]
      /\ authentic \in [App -> SUBSET {"control", "stream"}]
      /\ pc \in [Call -> Places] /\ appOf \in [Call -> App]
      /\ control \in [App -> {Control(c) : c \in Call} \cup {None}]
      /\ stream \in [App -> {Stream(c) : c \in Call} \cup {None}]
  BY DEF TypeOK
<1>1. ASSUME UNCHANGED <<state, control, stream, authentic>> PROVE FALSE
  BY <1>1 DEF Usable
<1>2. ASSUME NEW c \in Call, Fail(c), pc[c] \in AtWork
      PROVE  Asked(a) \/ a \in overtaken
  <2>1. CASE appOf[c] # a
    <3>1. state'[a] = state[a] /\ control'[a] = control[a] /\ stream'[a] = stream[a]
          /\ authentic'[a] = authentic[a]
      BY <1>0, <1>2, <2>1 DEF Fail, Reset, Forget
    <3>. QED
      BY <3>1 DEF Usable
  <2>2. CASE appOf[c] = a /\ kind[c] = "shutdown"
    <3>1. pc'[c] = "idle"
      BY <1>2 DEF Fail, Reset
    <3>. QED
      BY <1>2, <2>2, <3>1 DEF Asked, CallsOf, AtWork
  <2>3. CASE appOf[c] = a /\ kind[c] # "shutdown"
    <3>1. Worker(a, c)
      BY <1>2, <2>3 DEF Worker
    <3>. QED
      BY <3>1 DEF ConnectInv, Usable
  <2>. QED
    BY <2>1, <2>2, <2>3
<1>3. ASSUME NEW c \in Call,
             BeginEnsure(c) \/ BeginPeek(c) \/ BeginShutdown(c) \/ Step(c)
      PROVE  Asked(a) \/ a \in overtaken
  <2>. USE DEF AtWork, Places
  <2>1. CASE BeginEnsure(c) \/ BeginPeek(c) \/ BeginShutdown(c)
    <3>1. UNCHANGED <<control, stream, authentic>>
          /\ (state' = state
                \/ (appOf[c] # a /\ state' = [state EXCEPT ![appOf[c]] = "connecting"]))
      BY <2>1 DEF BeginEnsure, BeginPeek, BeginShutdown, Begin, Usable
    <3>2. state'[a] = state[a]
      BY <1>0, <3>1
    <3>. QED
      BY <3>1, <3>2 DEF Usable
  <2>2. CASE \/ WaitEnds(c) \/ DialFails(c) \/ ProbeSocket(c) \/ UnlinkStale(c) \/ TakeLock(c)
             \/ Spawn(c) \/ DaemonAwaited(c)
    <3>1. UNCHANGED <<state, control, stream, authentic>>
      BY <2>2 DEF WaitEnds, DialFails, ProbeSocket, UnlinkStale, TakeLock, Spawn,
                  DaemonAwaited, objectVars
    <3>. QED
      BY <1>1, <3>1
  <2>3. CASE DialSucceeds(c)
    <3>1. control' = [control EXCEPT ![appOf[c]] = Control(c)]
          /\ UNCHANGED <<state, stream, authentic>>
      BY <2>3 DEF DialSucceeds
    <3>2. Control(c) # None
      BY Sockets, NoneAssumption
    <3>3. control'[a] # None
      BY <1>0, <3>1, <3>2 DEF Usable
    <3>. QED
      BY <3>1, <3>3 DEF Usable
  <2>4. CASE HelloAnswered(c)
    <3>1. /\ authentic' = [authentic EXCEPT ![appOf[c]] = @ \cup {"control"}]
          /\ state' = state \/ state' = [state EXCEPT ![appOf[c]] = "connected"]
          /\ UNCHANGED <<control, stream>>
      BY <2>4 DEF HelloAnswered
    <3>2. state'[a] = "connected" /\ authentic'[a] = {"control", "stream"}
      BY <1>0, <3>1 DEF Usable
    <3>. QED
      BY <3>1, <3>2 DEF Usable
  <2>5. CASE StreamDial(c)
    <3>1. CASE Fail(c)
      BY <1>2, <2>5, <3>1 DEF StreamDial
    <3>2. CASE ~Fail(c)
      <4>1. stream' = [stream EXCEPT ![appOf[c]] = Stream(c)]
            /\ UNCHANGED <<state, control, authentic>>
        BY <2>5, <3>2 DEF StreamDial
      <4>2. Stream(c) # None
        BY Sockets, NoneAssumption
      <4>3. stream'[a] # None
        BY <1>0, <4>1, <4>2 DEF Usable
      <4>. QED
        BY <4>1, <4>3 DEF Usable
    <3>. QED
      BY <3>1, <3>2
  <2>6. CASE StreamAnswered(c)
    <3>1. /\ authentic' = [authentic EXCEPT ![appOf[c]] = @ \cup {"stream"}]
          /\ state' = [state EXCEPT ![appOf[c]] = "connected"]
          /\ UNCHANGED <<control, stream>>
      BY <2>6 DEF StreamAnswered
    <3>2. state'[a] = "connected" /\ authentic'[a] = {"control", "stream"}
      BY <1>0, <3>1 DEF Usable
    <3>. QED
      BY <3>1, <3>2 DEF Usable
  <2>7. CASE \/ DialGivesUp(c) \/ RedialFails(c) \/ SpawnFails(c) \/ AwaitTimeout(c)
             \/ HelloFails(c) \/ StreamFails(c) \/ ShutdownAnswered(c) \/ ShutdownFails(c)
    <3>1. (Fail(c) /\ pc[c] \in AtWork) \/ UNCHANGED <<state, control, stream, authentic>>
      BY <2>7 DEF DialGivesUp, RedialFails, SpawnFails, AwaitTimeout, HelloFails, StreamFails,
                  ShutdownAnswered, ShutdownFails, Awaits, objectVars
    <3>. QED
      BY <1>1, <1>2, <3>1
  <2>. QED
    BY <1>3, <2>1, <2>2, <2>3, <2>4, <2>5, <2>6, <2>7 DEF Step
<1>4. ASSUME NEW b \in App, CloseEvent(b) \/ AppQuits(b)
      PROVE  CloseEvent(a) \/ AppQuits(a)
  <2>1. CASE b # a
    <3>1. state'[a] = state[a] /\ control'[a] = control[a] /\ stream'[a] = stream[a]
          /\ authentic'[a] = authentic[a]
      BY <1>0, <1>4, <2>1 DEF CloseEvent, AppQuits, Reset, Forget
    <3>. QED
      BY <3>1 DEF Usable
  <2>. QED
    BY <1>4, <2>1
<1>5. CASE DaemonNext /\ UNCHANGED <<appOf, kind, pc, lock, objectVars>>
  BY <1>1, <1>5 DEF objectVars
<1>6. CASE LockExpires \/ UNCHANGED vars
  BY <1>1, <1>6 DEF LockExpires, vars, objectVars
<1>. QED
  BY <1>3, <1>4, <1>5, <1>6 DEF Next, ClientNext

\* A connection in use goes by its own loss or on request, never by another call that fails
\* (ensureConnected, resetConnectionState), unless a reset has overtaken a call.
THEOREM NoSilentLossAlways == Spec => NoSilentLoss
<1>1. TypeOK /\ ConnectInv /\ [Next]_vars => TypeOK' /\ ConnectInv'
  BY TypeNext, ConnectNext
<1>2. Init => ConnectInv
  BY DEF Init, HostClientInit, ConnectInv, Worker, AtWork
<1>3. TypeOK /\ ConnectInv /\ [Next]_vars =>
        [\A a \in App : Usable(a) /\ ~Usable(a)' =>
           CloseEvent(a) \/ AppQuits(a) \/ Asked(a) \/ a \in overtaken]_vars
  BY LossStep
<1>. QED
  BY TypeInit, <1>1, <1>2, <1>3, PTL DEF Spec, NoSilentLoss

===============================================================================
