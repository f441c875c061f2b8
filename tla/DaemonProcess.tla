----------------------------- MODULE DaemonProcess -----------------------------
(***************************************************************************)
(* The life of the terminal host daemon as other processes see it          *)
(* (main/terminal-host/index.ts: startServer, stopServer): its socket in   *)
(* the home directory, which every daemon and every app may unlink, and    *)
(* the connections that hold up its end.                                   *)
(*                                                                         *)
(* Daemons are processes: what one does between two awaits is not atomic   *)
(* for the others, so that a look at the file and its unlink are two       *)
(* steps.                                                                  *)
(***************************************************************************)
EXTENDS Naturals, FiniteSets

CONSTANTS Daemon,  \* daemon processes; one that is gone may be spawned again
          Socket,  \* client sockets
          None

ASSUME NoneAssumption == None \notin Daemon /\ None \notin Socket

VARIABLES
  daemon,   \* gone; spawned; probing; clearing; binding; serving; stopping; closing
  sock,     \* the daemon whose socket is bound at SOCKET_PATH: alive, or a stale file
  conn,     \* the daemon a client socket is connected to
  greeted,  \* sockets that have said hello
  \* history, which no action reads
  fault     \* a daemon was told to stop, died and left its socket file, or was
            \* listening when a probe of its socket gave up

daemonVars == <<daemon, sock, conn, greeted, fault>>

Listening(d) == d \in Daemon /\ daemon[d] \in {"serving", "stopping"}
Connections(d) == {s \in Socket : conn[s] = d}

\* Client sockets are closed, by either end.
Close(sockets) ==
  /\ conn' = [s \in Socket |-> IF s \in sockets THEN None ELSE conn[s]]
  /\ greeted' = greeted \ sockets

\* Nothing runs, with or without the file of a daemon that died; or one serves.
DaemonInit ==
  /\ conn = [s \in Socket |-> None] /\ greeted = {}
  /\ \/ /\ daemon = [d \in Daemon |-> "gone"]
        /\ sock \in {None} \cup Daemon
     \/ \E d \in Daemon :
          /\ daemon = [e \in Daemon |-> IF e = d THEN "serving" ELSE "gone"]
          /\ sock = d
  /\ fault = (sock # None /\ ~Listening(sock))

\* What isSocketLive may find.  Without an answer within a second (the listener's
\* backlog is full, or the prober was busy) it reports a dead socket.
ProbeLive == Listening(sock) /\ UNCHANGED fault
ProbeDead == fault' = (fault \/ Listening(sock))

\* Someone unlinks the socket file, whosever it is.
UnlinkSocket == sock' = None

------------------------------------------------------------------------------
(* startServer *)

\* The look at SOCKET_PATH.
CheckSocket(d) ==
  /\ daemon[d] = "spawned"
  /\ daemon' = [daemon EXCEPT ![d] = IF sock = None THEN "binding" ELSE "probing"]
  /\ UNCHANGED <<sock, conn, greeted, fault>>

\* isSocketLive has returned: "Another daemon is already running" ends the process.
Probe(d) ==
  /\ daemon[d] = "probing"
  /\ \/ ProbeLive /\ daemon' = [daemon EXCEPT ![d] = "gone"]
     \/ ProbeDead /\ daemon' = [daemon EXCEPT ![d] = "clearing"]
  /\ UNCHANGED <<sock, conn, greeted>>

\* The socket file is removed; if it is not there any more, unlinkSync throws.
ClearSocket(d) ==
  /\ daemon[d] = "clearing"
  /\ daemon' = [daemon EXCEPT ![d] = IF sock = None THEN "gone" ELSE "binding"]
  /\ UnlinkSocket
  /\ UNCHANGED <<conn, greeted, fault>>

\* listen: EADDRINUSE if there is a file at the path, else the daemon serves.
Bind(d) ==
  /\ daemon[d] = "binding"
  /\ IF sock # None
     THEN daemon' = [daemon EXCEPT ![d] = "gone"] /\ UNCHANGED sock
     ELSE daemon' = [daemon EXCEPT ![d] = "serving"] /\ sock' = d
  /\ UNCHANGED <<conn, greeted, fault>>

------------------------------------------------------------------------------
(* stopServer *)

\* A shutdown request or a signal.  The daemon goes on to listen and to answer
\* until terminalHost.dispose has killed the sessions.
StopDaemon(d) ==
  /\ daemon[d] \in {"serving", "stopping"}
  /\ daemon' = [daemon EXCEPT ![d] = "stopping"]
  /\ fault' = TRUE

Signalled(d) ==
  /\ daemon[d] = "serving"
  /\ StopDaemon(d)
  /\ UNCHANGED <<sock, conn, greeted>>

\* server.close: the listening handle is closed, which unlinks its path.
CloseServer(d) ==
  /\ daemon[d] = "stopping"
  /\ daemon' = [daemon EXCEPT ![d] = "closing"]
  /\ UnlinkSocket
  /\ UNCHANGED <<conn, greeted, fault>>

\* Its callback, when every connection has ended: the socket is unlinked once more,
\* and the process exits.
FinishStop(d) ==
  /\ daemon[d] = "closing" /\ Connections(d) = {}
  /\ daemon' = [daemon EXCEPT ![d] = "gone"]
  /\ UnlinkSocket
  /\ UNCHANGED <<conn, greeted, fault>>

\* The process dies; its file stays.
Crash(d) ==
  /\ daemon[d] # "gone"
  /\ daemon' = [daemon EXCEPT ![d] = "gone"]
  /\ Close(Connections(d))
  /\ fault' = (fault \/ sock = d)
  /\ UNCHANGED sock

DaemonNext ==
  \E d \in Daemon :
    CheckSocket(d) \/ Probe(d) \/ ClearSocket(d) \/ Bind(d)
      \/ Signalled(d) \/ CloseServer(d) \/ FinishStop(d) \/ Crash(d)

DaemonTypeOK ==
  /\ daemon \in [Daemon -> {"gone", "spawned", "probing", "clearing", "binding",
                            "serving", "stopping", "closing"}]
  /\ sock \in Daemon \cup {None}
  /\ conn \in [Socket -> Daemon \cup {None}] /\ greeted \subseteq Socket
  /\ fault \in BOOLEAN

===============================================================================
