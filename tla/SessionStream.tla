---------------------------- MODULE SessionStream ----------------------------
(***************************************************************************)
(* The output side of one terminal session in the daemon                   *)
(* (main/terminal-host/session.ts): frames arrive from the PTY             *)
(* subprocess, go to every attached client and, through a queue, to the    *)
(* emulator that makes the snapshots; a client that is slow pauses the     *)
(* subprocess; the exit is announced once.                                 *)
(*                                                                         *)
(* The daemon is one JavaScript thread: an action is one callback.  What a *)
(* Data frame carries is its number.  The session has been spawned and is  *)
(* ready (TerminalHost models how); input, resize and kill frames are left *)
(* out: what a kill does here is that the subprocess ends.                 *)
(***************************************************************************)
EXTENDS Naturals, Sequences, SequencesExt

CONSTANTS Client,     \* stream sockets, one per connected client
          MaxData,    \* bound: Data frames the subprocess writes
          PipeSize,   \* frames the stdout pipe of the subprocess holds
          HighWater   \* unread events from which socket.write returns false

ASSUME ConstantsAssumption ==
  /\ MaxData \in Nat /\ PipeSize \in Nat \ {0} /\ HighWater \in Nat \ {0}

VARIABLES
  child,      \* the subprocess: alive, gone (its exit event is due), reaped
  made,       \* Data frames it has written
  ended,      \* it has written the Exit frame
  pipe,       \* frames in its stdout that the daemon has not read
  paused,     \* subprocessStdoutPaused
  queue,      \* emulatorWriteQueue
  processed,  \* emulatorWriteProcessedItems
  scheduled,  \* emulatorWriteScheduled: processEmulatorWriteQueue will be called
  emulator,   \* what was written to the emulator
  exited,     \* exitCode # null
  attached,   \* attachedClients
  draining,   \* clientSocketsWaitingForDrain
  armed,      \* sockets with a listener for "drain"
  open,       \* sockets that are open
  outbox,     \* events a client has not read yet
  fresh,      \* the call that created the session has not attached yet
  call,       \* the attach of each client, with its snapshot boundary
  \* history, which no action reads
  read,       \* Data frames the daemon has handled
  got,        \* events sent to each client since it attached
  cut         \* attaches that were waiting when the session lost its queue

sub == <<child, made, ended>>
stdout == <<pipe, paused>>
screen == <<queue, processed, scheduled, emulator>>
sockets == <<attached, draining, armed, open, outbox>>
vars == <<child, made, ended, pipe, paused, queue, processed, scheduled,
          emulator, exited, attached, draining, armed, open, outbox, fresh,
          call, read, got, cut>>

history == <<read, got, cut>>

Exit == MaxData + 1          \* the Exit frame, and the exit event
Frame == 1..Exit
NoCall == [pc |-> "none", target |-> 0, late |-> FALSE, snapshot |-> <<>>]

Init ==
  /\ child = "alive" /\ made = 0 /\ ended = FALSE
  /\ pipe = <<>> /\ paused = FALSE
  /\ queue = <<>> /\ processed = 0 /\ scheduled = FALSE /\ emulator = <<>>
  /\ exited = FALSE
  /\ attached = {} /\ draining = {} /\ armed = {} /\ open = Client
  /\ outbox = [c \in Client |-> <<>>]
  /\ fresh = TRUE
  /\ call = [c \in Client |-> NoCall]
  /\ read = 0 /\ got = [c \in Client |-> <<>>] /\ cut = {}

------------------------------------------------------------------------------
(* The subprocess *)

\* flushOutput; a full pipe blocks the write, which holds the PTY back.
WriteData ==
  /\ child = "alive" /\ ~ended /\ made < MaxData /\ Len(pipe) < PipeSize
  /\ made' = made + 1
  /\ pipe' = Append(pipe, made + 1)
  /\ UNCHANGED <<child, ended, paused, screen, exited, sockets, fresh, call, history>>

\* onExit of the PTY: the output was flushed, now the Exit frame.
WriteExit ==
  /\ child = "alive" /\ ~ended /\ Len(pipe) < PipeSize
  /\ ended' = TRUE
  /\ pipe' = Append(pipe, Exit)
  /\ UNCHANGED <<child, made, paused, screen, exited, sockets, fresh, call, history>>

\* process.exit after the Exit frame, or the subprocess dies.
SubprocessEnds ==
  /\ child = "alive"
  /\ child' = "gone"
  /\ UNCHANGED <<made, ended, stdout, screen, exited, sockets, fresh, call, history>>

------------------------------------------------------------------------------
(* Sending to the clients *)

\* Node discards what is written to a closed socket, and write returns false.
Outbox(events) ==
  [c \in Client |-> IF c \in attached \cap open THEN outbox[c] \o events ELSE outbox[c]]

IsFull(c, box) == c \notin open \/ Len(box[c]) >= HighWater
Full(events) == {c \in attached : IsFull(c, Outbox(events))}

\* broadcastEvent and handleClientBackpressure, once per event.
Broadcast(events) ==
  /\ outbox' = Outbox(events)
  /\ draining' = draining \cup Full(events)
  /\ armed' = armed \cup Full(events)
  /\ got' = [c \in Client |-> IF c \in attached THEN got[c] \o events ELSE got[c]]
  /\ UNCHANGED <<attached, open>>

\* Variant: output resumes only if the caller says so.
StayPaused(waiting) == UNCHANGED paused

\* maybeResumeSubprocessStdout, when these sockets wait for their drain.
MaybeResume(waiting) == paused' = (paused /\ waiting # {})

------------------------------------------------------------------------------
(* The emulator queue *)

\* Variant: a waiter is let go one item early.
ResolvedEarly(count) ==
  [c \in Client |->
     IF call[c].pc = "flush" /\ call[c].target <= count + 1
     THEN [call[c] EXCEPT !.pc = "snapshot"] ELSE call[c]]

\* Attaches whose boundary the queue has passed go on to take their snapshot.
Resolved(count) ==
  [c \in Client |->
     IF call[c].pc = "flush" /\ call[c].target <= count
     THEN [call[c] EXCEPT !.pc = "snapshot"] ELSE call[c]]

\* Variant: the next callback is forgotten.
ProcessOnce ==
  /\ scheduled
  /\ \E n \in 0..Len(queue) :
       /\ queue = <<>> \/ n > 0
       /\ emulator' = emulator \o SubSeq(queue, 1, n)
       /\ queue' = SubSeq(queue, n + 1, Len(queue))
       /\ processed' = processed + n
       /\ call' = Resolved(processed + n)
       /\ scheduled' = FALSE
  /\ UNCHANGED <<sub, stdout, exited, sockets, fresh, history>>

\* processEmulatorWriteQueue writes what the time budget allows, at least one
\* item, and calls itself again while something is left.
ProcessQueue ==
  /\ scheduled
  /\ \E n \in 0..Len(queue) :
       /\ queue = <<>> \/ n > 0
       /\ emulator' = emulator \o SubSeq(queue, 1, n)
       /\ queue' = SubSeq(queue, n + 1, Len(queue))
       /\ processed' = processed + n
       /\ call' = Resolved(processed + n)
       /\ scheduled' = (n < Len(queue))
  /\ UNCHANGED <<sub, stdout, exited, sockets, fresh, history>>

------------------------------------------------------------------------------
(* Reading the subprocess *)

\* The Data frames of a chunk: the subprocess writes nothing after its Exit frame,
\* which can only be the last one.
DataOf(frames) == IF Last(frames) = Exit THEN Front(frames) ELSE frames

\* One chunk of stdout: all its complete frames are handled, also when the first
\* of them fills a client's socket and pauses the stream.
ReadChunk ==
  /\ child # "reaped" /\ ~paused
  /\ \E n \in 1..Len(pipe) :
       LET frames == SubSeq(pipe, 1, n)
           data == DataOf(frames) IN
       /\ pipe' = SubSeq(pipe, n + 1, Len(pipe))
       /\ queue' = queue \o data
       /\ scheduled' = (scheduled \/ data # <<>>)
       /\ exited' = (exited \/ Contains(frames, Exit))
       /\ Broadcast(frames)
       /\ paused' = (Full(frames) # {})
       /\ read' = read + Len(data)
  /\ UNCHANGED <<sub, processed, emulator, fresh, call, cut>>

\* Without a decoder, what is left in the pipe is read and dropped.
ReadDropped ==
  /\ child = "reaped" /\ pipe # <<>>
  /\ pipe' = <<>>
  /\ UNCHANGED <<sub, paused, screen, exited, sockets, fresh, call, history>>

\* Variant: the exit is announced whether or not the Exit frame was.
AnnounceAlways == Broadcast(<<Exit>>)

\* The exit event of handleSubprocessExit, unless the Exit frame came first.
AnnounceExit ==
  IF exited THEN UNCHANGED <<sockets, got>> ELSE Broadcast(<<Exit>>)

\* resetProcessState: the queue is dropped and whoever waits for it is let go.
ResetProcessState ==
  /\ paused' = FALSE
  /\ queue' = <<>> /\ processed' = 0 /\ scheduled' = FALSE
  /\ call' = [c \in Client |-> IF call[c].pc = "flush"
                               THEN [call[c] EXCEPT !.pc = "snapshot"] ELSE call[c]]
  /\ cut' = cut \cup {c \in Client : call[c].pc = "flush"}

\* handleSubprocessExit.  Node reports the end of a process
\* whether or not its stdout has been read.
Reap ==
  /\ child = "gone"
  /\ child' = "reaped"
  /\ AnnounceExit
  /\ exited' = TRUE
  /\ ResetProcessState
  /\ UNCHANGED <<made, ended, pipe, emulator, fresh, read>>

------------------------------------------------------------------------------
(* Clients *)

\* attachedClients.set, at the start of attach.
Register(c) == attached' = attached \cup {c}

\* attach up to flushToSnapshotBoundary.  The caller has asked whether the session
\* is alive; only the call that created the session has awaited something since it
\* looked up the client's socket, which may be closed by now.
Attach(c) ==
  /\ ~exited /\ child # "reaped"
  /\ c \in open \/ fresh
  /\ call[c].pc \in {"none", "done"}
  /\ fresh' = FALSE
  /\ Register(c)
  /\ call' = [call EXCEPT ![c] =
       [pc |-> IF queue = <<>> THEN "snapshot" ELSE "flush",
        target |-> processed + Len(queue), late |-> FALSE, snapshot |-> <<>>]]
  /\ scheduled' = (scheduled \/ queue # <<>>)
  /\ got' = [got EXCEPT ![c] = <<>>] /\ cut' = cut \ {c}
  /\ UNCHANGED <<sub, stdout, queue, processed, emulator, exited,
                 draining, armed, open, outbox, read>>

\* ATTACH_FLUSH_TIMEOUT_MS is over: the snapshot is taken as the emulator is.
AttachTimeout(c) ==
  /\ call[c].pc = "flush"
  /\ call' = [call EXCEPT ![c] = [@ EXCEPT !.pc = "snapshot", !.late = TRUE]]
  /\ UNCHANGED <<sub, stdout, screen, exited, sockets, fresh, history>>

\* getSnapshotAsync: the emulator has parsed what was written to it.
TakeSnapshot(c) ==
  /\ call[c].pc = "snapshot"
  /\ call' = [call EXCEPT ![c] =
       IF c \in attached THEN [@ EXCEPT !.pc = "done", !.snapshot = emulator]
                         ELSE NoCall]
  /\ UNCHANGED <<sub, stdout, screen, exited, sockets, fresh, history>>

\* Variant: the socket is still expected to drain.
DetachStillDraining(c) ==
  /\ attached' = attached \ {c}
  /\ UNCHANGED draining
  /\ MaybeResume(draining)

\* Session.detach.
DetachClient(c) ==
  /\ attached' = attached \ {c}
  /\ draining' = draining \ {c}
  /\ MaybeResume(draining \ {c})

\* History: what a client was sent and shown matters while it is attached.
Forget(c) ==
  /\ got' = [got EXCEPT ![c] = <<>>]
  /\ call' = IF call[c].pc = "done" THEN [call EXCEPT ![c] = NoCall] ELSE call
  /\ cut' = cut \ {c}
  /\ UNCHANGED read

Detach(c) ==
  /\ c \in attached
  /\ DetachClient(c) /\ Forget(c)
  /\ UNCHANGED <<sub, pipe, screen, exited, armed, open, outbox, fresh>>

\* The socket closes: handleDisconnect detaches it from the session.
SocketClose(c) ==
  /\ c \in open
  /\ open' = open \ {c}
  /\ outbox' = [outbox EXCEPT ![c] = <<>>]
  /\ armed' = armed \ {c}
  /\ IF c \in attached THEN DetachClient(c) ELSE UNCHANGED <<attached, draining, paused>>
  /\ Forget(c)
  /\ UNCHANGED <<sub, pipe, screen, exited, fresh>>

\* The client reads an event; when nothing is left the drain listeners run.
ClientReads(c) ==
  /\ outbox[c] # <<>>
  /\ outbox' = [outbox EXCEPT ![c] = Tail(@)]
  /\ IF Len(outbox[c]) = 1 /\ c \in armed
     THEN /\ armed' = armed \ {c}
          /\ draining' = draining \ {c}
          /\ MaybeResume(draining \ {c})
     ELSE UNCHANGED <<armed, draining, paused>>
  /\ UNCHANGED <<sub, pipe, screen, exited, attached, open, fresh, call, history>>

------------------------------------------------------------------------------
Next ==
  \/ WriteData \/ WriteExit \/ SubprocessEnds
  \/ ReadChunk \/ ReadDropped \/ Reap \/ ProcessQueue
  \/ \E c \in Client :
       Attach(c) \/ AttachTimeout(c) \/ TakeSnapshot(c)
         \/ Detach(c) \/ SocketClose(c) \/ ClientReads(c)

Spec == Init /\ [][Next]_vars

\* Callbacks that are due are run, and a connected client reads its socket.  No
\* fairness on the attach timer: an attach must not need it.
Fairness ==
  /\ WF_vars(ReadChunk) /\ WF_vars(ProcessQueue) /\ WF_vars(Reap)
  /\ \A c \in Client : WF_vars(TakeSnapshot(c)) /\ WF_vars(ClientReads(c))
FairSpec == Spec /\ Fairness

------------------------------------------------------------------------------
(* Properties *)

Call == [pc : {"none", "flush", "snapshot", "done"}, target : Nat,
         late : BOOLEAN, snapshot : Seq(Frame)]

\* Types of the session's fields and of the attach calls.
TypeOK ==
  /\ child \in {"alive", "gone", "reaped"}
  /\ made \in 0..MaxData /\ ended \in BOOLEAN
  /\ pipe \in Seq(Frame) /\ paused \in BOOLEAN
  /\ queue \in Seq(Frame) /\ processed \in Nat /\ scheduled \in BOOLEAN
  /\ emulator \in Seq(Frame) /\ exited \in BOOLEAN
  /\ attached \subseteq Client /\ draining \subseteq Client
  /\ armed \subseteq Client /\ open \subseteq Client
  /\ outbox \in [Client -> Seq(Frame)]
  /\ fresh \in BOOLEAN
  /\ call \in [Client -> Call]
  /\ read \in 0..MaxData /\ got \in [Client -> Seq(Frame)] /\ cut \subseteq Client

\* The clients that attached with a socket that was closed already.
Ghosts == attached \ open

\* The snapshot of a client and the events it has been sent since it attached
\* leave out nothing of the output so far, whatever arrived during the attach;
\* except where the boundary timed out or the subprocess ended during the attach.
NoGap ==
  \A c \in attached :
    call[c].pc = "done" /\ ~call[c].late /\ c \notin cut
      => 1..read \subseteq ToSet(call[c].snapshot) \cup ToSet(got[c])

\* Output is held back only while a connected client has something to read, whose
\* drain will let it go on; a socket that was closed when it was attached is the
\* one exception.
PauseHasReason ==
  paused => \/ Ghosts # {}
            \/ \E c \in draining \cap attached \cap armed : outbox[c] # <<>>

\* A client hears of the exit once, and of nothing afterwards.
ExitOnceAndLast ==
  \A c \in Client : \A i \in DOMAIN got[c] : got[c][i] = Exit => i = Len(got[c])

\* "Clients receive all terminal output before the exit event": once the subprocess
\* has flushed its output and written its Exit frame, a client that hears of the
\* exit has been sent everything before.
AllOutputBeforeExit ==
  \A c \in attached : ended /\ Contains(got[c], Exit) => read = made

\* As long as clients read what they are sent, output reaches them or the exit
\* does, without anybody detaching; a ghost stops it for everybody.
OutputFlows ==
  \A n \in 1..MaxData : (made = n) ~> (read >= n \/ exited \/ Ghosts # {})

\* An attach gets its snapshot from the queue alone, without its timer.
AttachEnds == \A c \in Client : (call[c].pc = "flush") ~> (call[c].pc # "flush")

==============================================================================
