----------------------------- MODULE SessionInput -----------------------------
(***************************************************************************)
(* The input side of one terminal session: frames that the daemon          *)
(* (main/terminal-host/session.ts) sends to the PTY subprocess through its *)
(* stdin, and the subprocess (main/terminal-host/pty-subprocess.ts) that   *)
(* decodes them, writes to the PTY, kills it and ends with it.             *)
(*                                                                         *)
(* Two processes, each one JavaScript thread, and a pipe.  An action is    *)
(* one callback; a callback that loops over several frames (a paste in the *)
(* daemon, a chunk of stdin in the subprocess) keeps its thread by the     *)
(* variable todo or chunk until it is through.  A frame is two buffers,    *)
(* its header and its payload: frame f is the buffers 2f-1 and 2f, so that *)
(* the right content of the pipe is a run of consecutive numbers.          *)
(***************************************************************************)
EXTENDS Integers, Sequences, SequencesExt

CONSTANTS MaxFrames,   \* bound: frames the session tries to send
          QueueLimit,  \* MAX_SUBPROCESS_STDIN_QUEUE_BYTES, in buffers
          PipeSize,    \* buffers the operating system's pipe holds
          HighWater,   \* buffers in Node's stream from which write returns false
          ChunkSize,   \* bytes of a Write frame
          HighMark,    \* INPUT_QUEUE_HIGH_WATERMARK_BYTES
          LowMark,     \* INPUT_QUEUE_LOW_WATERMARK_BYTES
          HardLimit    \* INPUT_QUEUE_HARD_LIMIT_BYTES

\* A buffer is smaller than the stream's high-water mark.  One of 8192 characters
\* that need three bytes each is not: write returns false for it even if the stream
\* is empty, and the code repeats it, which the properties except by "repeated".
ASSUME SizesAssumption ==
  /\ MaxFrames \in Nat /\ QueueLimit \in Nat /\ PipeSize \in Nat \ {0}
  /\ HighWater \in Nat \ {0, 1} /\ ChunkSize \in Nat \ {0}
  /\ HighMark \in Nat \ {0} /\ LowMark \in Nat /\ HardLimit \in Nat
  /\ LowMark < HighMark

\* The most that one chunk of stdin can add to the backlog.
Burst == ((PipeSize + 1) \div 2) * ChunkSize

\* 8 MB, a pipe full of Write frames and the limit of 64 MB.
ASSUME HardLimitAssumption == HighMark + Burst <= HardLimit

VARIABLES
  \* the session in the daemon
  session,      \* live; disposed; reset (the exit was handled); crashed (no daemon)
  ready,        \* subprocessReady
  terminating,  \* terminatingAt # null
  todo,         \* chunks left of the write that is being sent
  queue,        \* subprocessStdinQueue
  armed,        \* subprocessStdinDrainArmed, and a listener for the next drain
  wire,         \* buffers the stream has accepted and the subprocess has not read
  \* the subprocess
  child,        \* booting, up, ending (handleDispose ran), gone
  pty,          \* none; running; ended (onExit not called yet); closed (null again)
  fd,           \* the PTY's file descriptor can be used
  chunk,        \* what is left of the chunk of stdin being decoded
  expect,       \* the buffer that the decoder can make sense of next
  wedged,       \* the decoder is out of step: each further chunk throws
  backlog,      \* writeQueue: frames with the bytes left of them
  queued,       \* queuedBytes
  flush,        \* flushing, and where: idle, due, writing (fs.write), backoff
  stdinPaused,  \* stdinPaused
  escalation,   \* timers of handleKill: none, term (2 s), kill (1 s)
  \* history, which no action reads
  sent,         \* kinds of the frames that were accepted, in order
  repeated,     \* a buffer that the stream accepted has stayed in the queue
  lost,         \* the Kill frame was dropped at the limit
  failed,       \* a write to the PTY failed
  typed         \* Write frames that the PTY took completely

daemonVars == <<session, ready, terminating, todo, queue, armed, sent, repeated, lost>>
decoderVars == <<chunk, expect, wedged>>
writeVars == <<backlog, queued, flush, stdinPaused, failed, typed>>
processVars == <<child, pty, fd, escalation>>
vars == <<session, ready, terminating, todo, queue, armed, wire, child, pty, fd, chunk,
          expect, wedged, backlog, queued, flush, stdinPaused, escalation, sent,
          repeated, lost, failed, typed>>

Init ==
  /\ session = "live" /\ ready = FALSE /\ terminating = FALSE /\ todo = 0
  /\ queue = <<>> /\ armed = FALSE /\ wire = <<>>
  /\ child = "booting" /\ pty = "none" /\ fd = FALSE
  /\ chunk = <<>> /\ expect = 1 /\ wedged = FALSE
  /\ backlog = <<>> /\ queued = 0 /\ flush = "idle" /\ stdinPaused = FALSE
  /\ escalation = "none"
  /\ sent = <<>> /\ repeated = FALSE /\ lost = FALSE /\ failed = FALSE /\ typed = <<>>

------------------------------------------------------------------------------
(* The session: sending frames *)

\* The stream takes this many buffers, in the pipe and in its own buffer, before
\* write returns false.
Easy == PipeSize + HighWater - 1

\* Buffers of q that leave the queue when the stream holds w.
Leaving(q, w) ==
  IF Len(w) + Len(q) <= Easy THEN Len(q) ELSE IF Len(w) < Easy THEN Easy - Len(w) ELSE 0

\* flushSubprocessStdinQueue: the buffer for which write returns false is accepted
\* like every other, but it stays at the head of the queue.
FlushQueue(q, listening) ==
  LET n == Leaving(q, wire)
      stuck == n < Len(q) IN
  /\ queue' = SubSeq(q, n + 1, Len(q))
  /\ wire' = wire \o SubSeq(q, 1, IF stuck THEN n + 1 ELSE n)
  /\ armed' = (listening \/ stuck)
  /\ repeated' = (repeated \/ stuck)

\* Variant: the payload is queued before its header.
SendPayloadFirst(kind) ==
  IF Len(queue) + 2 > QueueLimit
  THEN /\ lost' = (lost \/ kind = "kill")
       /\ UNCHANGED <<queue, wire, armed, repeated, sent>>
  ELSE LET f == Len(sent) + 1 IN
       /\ FlushQueue(queue \o <<2 * f, 2 * f - 1>>, armed)
       /\ sent' = Append(sent, kind)
       /\ UNCHANGED lost

\* sendFrameToSubprocess: over the limit the whole frame is dropped.
SendFrame(kind) ==
  IF Len(queue) + 2 > QueueLimit
  THEN /\ lost' = (lost \/ kind = "kill")
       /\ UNCHANGED <<queue, wire, armed, repeated, sent>>
  ELSE LET f == Len(sent) + 1 IN
       /\ FlushQueue(queue \o <<2 * f - 1, 2 * f>>, armed)
       /\ sent' = Append(sent, kind)
       /\ UNCHANGED lost

Subprocess == <<decoderVars, writeVars, processVars>>
Idle == session = "live" /\ todo = 0

\* handleSubprocessFrame of the Ready frame: the pending Spawn is sent.
HandleReady ==
  /\ Idle /\ ~ready /\ child # "booting"
  /\ ready' = TRUE
  /\ SendFrame("spawn")
  /\ UNCHANGED <<session, terminating, todo, Subprocess>>

\* TerminalHost.write of a live session; sendWriteToSubprocess cuts it into chunks.
Write(chunks) ==
  /\ Idle /\ ready /\ ~terminating /\ Len(sent) + chunks <= MaxFrames
  /\ todo' = chunks
  /\ UNCHANGED <<session, ready, terminating, queue, armed, wire, sent, repeated, lost, Subprocess>>

SendChunk ==
  /\ session = "live" /\ todo > 0
  /\ todo' = todo - 1
  /\ SendFrame("write")
  /\ UNCHANGED <<session, ready, terminating, Subprocess>>

\* resize and sendSignal: a frame that changes nothing else modelled here.
ResizeOrSignal ==
  /\ Idle /\ ready /\ ~terminating /\ Len(sent) < MaxFrames
  /\ SendFrame("other")
  /\ UNCHANGED <<session, ready, terminating, todo, Subprocess>>

\* kill: by a frame, or by a signal to a subprocess that is not ready.
Kill ==
  /\ Idle /\ ~terminating
  /\ terminating' = TRUE
  /\ \/ /\ ready
        /\ SendFrame("kill")
        /\ UNCHANGED child
     \/ /\ ~ready
        /\ child' = "gone"
        /\ UNCHANGED <<queue, armed, wire, sent, repeated, lost>>
  /\ UNCHANGED <<session, ready, todo, decoderVars, writeVars, pty, fd, escalation>>

\* The stream's own buffer is empty: the drain listener flushes the queue.
Drain ==
  /\ Idle /\ armed /\ Len(wire) <= PipeSize
  /\ FlushQueue(queue, FALSE)
  /\ UNCHANGED <<session, ready, terminating, todo, sent, lost, Subprocess>>

\* resetProcessState, as far as the input goes.
ResetProcessState ==
  /\ queue' = <<>> /\ armed' = FALSE /\ ready' = FALSE

\* dispose, of this session, or of all when the daemon stops: disposed is set first,
\* so that no Dispose frame is sent; treeKill with SIGKILL for the subprocess and the
\* PTY follows (TreeKilled).
Dispose ==
  /\ Idle
  /\ session' = "disposed"
  /\ ResetProcessState
  /\ UNCHANGED <<terminating, todo, wire, sent, repeated, lost, Subprocess>>

TreeKilled ==
  /\ session = "disposed" /\ child # "gone"
  /\ child' = "gone"
  /\ UNCHANGED <<daemonVars, wire, decoderVars, writeVars, pty, fd, escalation>>

\* handleSubprocessExit.
Reap ==
  /\ Idle /\ child = "gone"
  /\ session' = "reset"
  /\ ResetProcessState
  /\ UNCHANGED <<terminating, todo, wire, sent, repeated, lost, Subprocess>>

\* The daemon is killed, and does not dispose of its sessions.  What the stream has
\* not handed to the pipe is lost.
DaemonEnds ==
  /\ session = "live"
  /\ session' = "crashed"
  /\ todo' = 0
  /\ ResetProcessState
  /\ wire' = SubSeq(wire, 1, IF Len(wire) < PipeSize THEN Len(wire) ELSE PipeSize)
  /\ UNCHANGED <<terminating, sent, repeated, lost, Subprocess>>

------------------------------------------------------------------------------
(* The subprocess: decoding its stdin *)

HasPty == pty \in {"running", "ended"}        \* ptyProcess # null
Free == child = "up" /\ chunk = <<>>         \* no callback is running

\* The process has started: it sends its Ready frame.
Boot ==
  /\ child = "booting"
  /\ child' = "up"
  /\ UNCHANGED <<daemonVars, wire, decoderVars, writeVars, pty, fd, escalation>>

InStep(buffers) == \A i \in DOMAIN buffers : buffers[i] = expect + i - 1

\* One chunk of stdin: some of what is in the pipe.  A buffer out of place is text read
\* as a header, the length in it is over MAX_FRAME_BYTES, and push throws: the frames
\* of this chunk are lost, and so is every later one.
ReadChunk ==
  /\ Free /\ ~stdinPaused
  /\ \E n \in 1..Len(wire) :
       /\ n <= PipeSize
       /\ wire' = SubSeq(wire, n + 1, Len(wire))
       /\ LET buffers == SubSeq(wire, 1, n) IN
            \/ ~wedged /\ chunk' = buffers /\ UNCHANGED wedged
            \/ (wedged \/ ~InStep(buffers)) /\ chunk' = <<>> /\ wedged' = TRUE
  /\ UNCHANGED <<daemonVars, expect, writeVars, processVars>>

HandleSpawn ==
  /\ \/ pty' = "running" /\ fd' \in BOOLEAN
     \/ UNCHANGED <<pty, fd>>                      \* "Spawn failed"
  /\ UNCHANGED <<writeVars, escalation>>

\* Variant: stdin is paused one byte late.
PausesLate(bytes) == stdinPaused \/ bytes > HighMark

\* maybePauseStdin
Pauses(bytes) == stdinPaused \/ bytes >= HighMark

\* maybeResumeStdin, and the opposite
StaysPaused(bytes) == stdinPaused /\ bytes > LowMark

\* handleWrite and queueWriteBuffer.
HandleWrite(f) ==
  /\ IF HasPty /\ queued + ChunkSize <= HardLimit
     THEN /\ backlog' = Append(backlog, [frame |-> f, left |-> ChunkSize])
          /\ queued' = queued + ChunkSize
          /\ stdinPaused' = Pauses(queued + ChunkSize)
          /\ flush' = IF flush = "idle" THEN "due" ELSE flush
     ELSE UNCHANGED <<backlog, queued, stdinPaused, flush>>
  /\ UNCHANGED <<failed, typed, pty, fd, escalation>>

\* Variant: the signal is sent, and that is all.
HandleKillOnce == UNCHANGED <<writeVars, pty, fd, escalation>>

\* handleKill: the signal may or may not end the shell (PtyEnds); the timer is set.
HandleKill ==
  /\ escalation' = IF HasPty THEN "term" ELSE escalation
  /\ UNCHANGED <<writeVars, pty, fd>>

HandleFrame(f) ==
  \/ sent[f] = "spawn" /\ HandleSpawn
  \/ sent[f] = "write" /\ HandleWrite(f)
  \/ sent[f] = "kill" /\ HandleKill
  \/ sent[f] = "other" /\ UNCHANGED <<writeVars, pty, fd, escalation>>

KeepsPty == UNCHANGED <<writeVars, pty, fd, escalation>>

\* The next buffer of the chunk is the one expected: with a payload a frame is
\* complete and its handler runs.
Decode ==
  /\ child = "up" /\ chunk # <<>> /\ Head(chunk) = expect
  /\ chunk' = Tail(chunk)
  /\ expect' = expect + 1
  /\ IF expect % 2 = 0 THEN HandleFrame(expect \div 2) ELSE KeepsPty
  /\ UNCHANGED <<daemonVars, wire, wedged, child>>

\* A buffer out of place in a chunk that ends before push throws: it may be taken for
\* the payload of a frame that is then complete, with the wrong content.
DecodeGarbled ==
  /\ child = "up" /\ chunk # <<>> /\ Head(chunk) # expect
  /\ chunk' = <<>> /\ wedged' = TRUE
  /\ \/ expect % 2 = 0 /\ expect' = expect + 1 /\ HandleFrame(expect \div 2)
     \/ UNCHANGED expect /\ KeepsPty
  /\ UNCHANGED <<daemonVars, wire, child>>

------------------------------------------------------------------------------
(* The subprocess: writing to the PTY *)

\* Variant: what a short write has left over is forgotten.
RestDropped(n) == Tail(backlog)

\* The queue after n bytes of its head were written.
Rest(n) ==
  IF n = Head(backlog).left THEN Tail(backlog)
  ELSE [backlog EXCEPT ![1].left = @ - n]

\* flush with nothing to do.
FlushIdle ==
  /\ Free /\ flush \in {"due", "backoff"} /\ (~HasPty \/ backlog = <<>>)
  /\ flush' = "idle"
  /\ UNCHANGED <<daemonVars, wire, decoderVars, processVars,
                 backlog, queued, stdinPaused, failed, typed>>

\* flush with a file descriptor starts fs.write of the head of the queue; after
\* EAGAIN its timer does so again.
FlushAsync ==
  /\ Free /\ flush \in {"due", "backoff"} /\ HasPty /\ backlog # <<>> /\ fd
  /\ flush' = "writing"
  /\ UNCHANGED <<daemonVars, wire, decoderVars, processVars,
                 backlog, queued, stdinPaused, failed, typed>>

\* n bytes of the head have been written.
Wrote(n) ==
  /\ queued' = queued - n
  /\ backlog' = Rest(n)
  /\ typed' = IF n = Head(backlog).left THEN Append(typed, Head(backlog).frame) ELSE typed
  /\ stdinPaused' = StaysPaused(queued - n)
  /\ flush' = IF Rest(n) = <<>> THEN "idle" ELSE "due"
  /\ UNCHANGED failed

\* An error of the write: the queue is dropped; stdin stays as it is.
WriteError(paused) ==
  /\ backlog' = <<>> /\ queued' = 0 /\ flush' = "idle" /\ stdinPaused' = paused
  /\ failed' = TRUE /\ UNCHANGED typed

\* The callback of fs.write.
WriteReturns ==
  /\ Free /\ flush = "writing"
  /\ \/ \E n \in 0..Head(backlog).left : Wrote(n)
     \/ flush' = "backoff" /\ UNCHANGED <<backlog, queued, stdinPaused, failed, typed>>
     \/ WriteError(stdinPaused)
  /\ UNCHANGED <<daemonVars, wire, decoderVars, processVars>>

\* flush without a file descriptor: node-pty's write of one buffer, all or an error;
\* the bytes are discounted and stdin is resumed before.
FlushSync ==
  /\ Free /\ flush \in {"due", "backoff"} /\ HasPty /\ backlog # <<>> /\ ~fd
  /\ LET n == Head(backlog).left IN
       Wrote(n) \/ WriteError(StaysPaused(queued - n))
  /\ UNCHANGED <<daemonVars, wire, decoderVars, processVars>>

------------------------------------------------------------------------------
(* The subprocess: ending *)

\* The shell ends, by itself or by a signal.
PtyEnds ==
  /\ child = "up" /\ pty = "running"
  /\ pty' = "ended"
  /\ UNCHANGED <<daemonVars, wire, decoderVars, writeVars, child, fd, escalation>>

\* onExit of node-pty, "which may not fire reliably": the Exit frame is written.
PtyExit ==
  /\ Free /\ pty = "ended"
  /\ pty' = "closed" /\ fd' = FALSE
  /\ UNCHANGED <<daemonVars, wire, decoderVars, writeVars, child, escalation>>

\* process.exit, 100 ms after onExit.
ExitTimer ==
  /\ Free /\ pty = "closed"
  /\ child' = "gone"
  /\ UNCHANGED <<daemonVars, wire, decoderVars, writeVars, pty, fd, escalation>>

\* Two seconds after the signal: SIGKILL, if onExit has not been called.
EscalateTimer ==
  /\ Free /\ escalation = "term"
  /\ escalation' = IF HasPty THEN "kill" ELSE "none"
  /\ UNCHANGED <<daemonVars, wire, decoderVars, writeVars, child, pty, fd>>

\* One second later: an Exit frame is made up and the process exits.
ForceExitTimer ==
  /\ Free /\ escalation = "kill"
  /\ escalation' = "none"
  /\ IF HasPty THEN child' = "gone" /\ pty' = "closed" /\ fd' = FALSE
               ELSE UNCHANGED <<child, pty, fd>>
  /\ UNCHANGED <<daemonVars, wire, decoderVars, writeVars>>

\* The end of stdin, when all of it has been read: handleDispose.
StdinEnds ==
  /\ session = "crashed" /\ Free /\ ~stdinPaused /\ wire = <<>>
  /\ child' = "ending" /\ pty' = (IF HasPty THEN "closed" ELSE pty) /\ fd' = FALSE
  /\ backlog' = <<>> /\ queued' = 0 /\ flush' = "idle"
  /\ UNCHANGED <<daemonVars, wire, decoderVars, stdinPaused, failed, typed, escalation>>

\* treeKill of handleDispose has returned.
DisposeDone ==
  /\ child = "ending"
  /\ child' = "gone"
  /\ UNCHANGED <<daemonVars, wire, decoderVars, writeVars, pty, fd, escalation>>

\* The subprocess dies: a crash, or somebody kills it.
ChildDies ==
  /\ child \in {"booting", "up"}
  /\ child' = "gone"
  /\ UNCHANGED <<daemonVars, wire, decoderVars, writeVars, pty, fd, escalation>>

------------------------------------------------------------------------------
Next ==
  \/ HandleReady \/ SendChunk \/ ResizeOrSignal \/ Kill \/ Drain \/ Dispose \/ TreeKilled
  \/ Reap \/ DaemonEnds \/ \E chunks \in 1..MaxFrames : Write(chunks)
  \/ Boot \/ ReadChunk \/ Decode \/ DecodeGarbled
  \/ FlushIdle \/ FlushAsync \/ WriteReturns \/ FlushSync
  \/ PtyEnds \/ PtyExit \/ ExitTimer \/ EscalateTimer \/ ForceExitTimer
  \/ StdinEnds \/ DisposeDone \/ ChildDies

Spec == Init /\ [][Next]_vars

\* Both processes run their callbacks and timers, and treeKill returns.  Nothing is
\* assumed of the shell: neither that it reads its input nor that it dies of a
\* signal, nor that node-pty reports its end.
Fairness ==
  /\ WF_vars(HandleReady) /\ WF_vars(SendChunk) /\ WF_vars(Drain) /\ WF_vars(Reap)
  /\ WF_vars(TreeKilled) /\ WF_vars(Boot) /\ WF_vars(ReadChunk)
  /\ WF_vars(Decode) /\ WF_vars(DecodeGarbled)
  /\ WF_vars(FlushIdle) /\ WF_vars(FlushAsync) /\ WF_vars(WriteReturns) /\ WF_vars(FlushSync)
  /\ WF_vars(ExitTimer) /\ WF_vars(EscalateTimer) /\ WF_vars(ForceExitTimer)
  /\ WF_vars(StdinEnds) /\ WF_vars(DisposeDone)

FairSpec == Spec /\ Fairness

------------------------------------------------------------------------------
(* Properties *)

Kinds == {"spawn", "write", "other", "kill"}

\* Types of the fields on both sides of the pipe.
TypeOK ==
  /\ session \in {"live", "disposed", "reset", "crashed"}
  /\ ready \in BOOLEAN /\ terminating \in BOOLEAN /\ todo \in 0..MaxFrames
  /\ queue \in Seq(Nat) /\ armed \in BOOLEAN /\ wire \in Seq(Nat)
  /\ child \in {"booting", "up", "ending", "gone"}
  /\ pty \in {"none", "running", "ended", "closed"} /\ fd \in BOOLEAN
  /\ chunk \in Seq(Nat) /\ expect \in Nat \ {0} /\ wedged \in BOOLEAN
  /\ backlog \in Seq([frame : Nat, left : 1..ChunkSize])
  /\ queued \in Int /\ flush \in {"idle", "due", "writing", "backoff"}
  /\ stdinPaused \in BOOLEAN /\ escalation \in {"none", "term", "kill"}
  /\ sent \in Seq(Kinds)
  /\ repeated \in BOOLEAN /\ lost \in BOOLEAN /\ failed \in BOOLEAN
  /\ typed \in Seq(Nat)

\* What is on its way to the decoder, nearest first.
OnTheWay == chunk \o wire \o queue

\* Input reaches the decoder in order, every buffer once, for as long as the stream
\* of stdin has never been full; only a full stream can put the decoder out of step;
\* and whenever buffers wait in the session's queue a listener is there to go on.
InputInStep ==
  /\ session = "live" /\ ~repeated =>
       OnTheWay = [i \in 1..(2 * Len(sent) + 1 - expect) |-> expect + i - 1]
  /\ wedged => repeated
  /\ session = "live" /\ queue # <<>> => armed

\* What the PTY is given: the frames it took, then those in the backlog.
Given == typed \o [i \in DOMAIN backlog |-> backlog[i].frame]

\* The PTY is given the Write frames that were decoded, each once and in order, and
\* none of them is missing while no write to it has failed.
PtyInOrder ==
  /\ \A i, j \in DOMAIN Given : i < j => Given[i] < Given[j]
  /\ HasPty /\ ~failed =>
       ToSet(Given) = {f \in DOMAIN sent : 2 * f < expect /\ sent[f] = "write"}

\* The bytes in the backlog, of which at most the head is partly written.
Held == IF backlog = <<>> THEN 0 ELSE Head(backlog).left + (Len(backlog) - 1) * ChunkSize

\* Pausing stdin bounds the backlog: beyond the high watermark by one chunk at most,
\* so that the hard limit drops nothing; and queuedBytes is what the backlog holds,
\* whatever was written in pieces.
BacklogBounded ==
  /\ queued < HighMark + Burst
  /\ queued = Held
  /\ \A i \in 2..Len(backlog) : backlog[i].left = ChunkSize

\* A kill whose frame was accepted ends the subprocess, whatever the shell does with
\* the signal: unless its spawn failed, the decoder is out of step, or stdin stays
\* paused because the shell does not take its input or a write to it failed.  Nor do
\* the subprocess and its shell stay without the daemon: the end of stdin is noticed.
SubprocessEnds ==
  \/ /\ (terminating /\ ~lost) ~>
          (child = "gone" \/ wedged \/ (pty = "none" /\ expect > 2))
     /\ session = "crashed" ~> child = "gone"
  \/ <>[]stdinPaused

==============================================================================
