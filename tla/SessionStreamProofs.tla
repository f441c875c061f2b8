-------------------------- MODULE SessionStreamProofs --------------------------
(***************************************************************************)
(* Proofs about the output of a session for any number of clients, any     *)
(* amount of output and any size of the buffers.                           *)
(***************************************************************************)
EXTENDS SessionStream, SequenceTheorems, TLAPS

------------------------------------------------------------------------------
(* Why output is held back                                                 *)
(*                                                                         *)
(* The property is about one moment: somebody must drain.  The fact that   *)
(* every step keeps is about each socket the code waits for: it belongs to *)
(* an attached client, and either it was closed when it was attached, or   *)
(* it has something to read and a listener for the end of that.            *)

SocketType ==
  /\ pipe \in Seq(Frame)
  /\ paused \in BOOLEAN
  /\ attached \subseteq Client /\ draining \subseteq Client
  /\ armed \subseteq Client /\ open \subseteq Client
  /\ outbox \in [Client -> Seq(Frame)]

Awaited ==
  /\ draining \subseteq attached
  /\ \A c \in draining \cap open : c \in armed /\ outbox[c] # <<>>
  /\ \A c \in Client \ open : outbox[c] = <<>>
  /\ paused => draining # {}

PauseInv == SocketType /\ Awaited

\* Only frames of the right numbers are ever written.
MadeOK == made \in 0..MaxData

LEMMA MadeNext == MadeOK /\ [Next]_vars => MadeOK'
<1>. SUFFICES ASSUME MadeOK, [Next]_vars PROVE MadeOK'
  OBVIOUS
<1>1. CASE WriteData
  BY <1>1, ConstantsAssumption DEF WriteData, MadeOK
<1>2. CASE made' = made
  BY <1>2 DEF MadeOK
<1>. QED
  BY <1>1, <1>2 DEF Next, vars, sub, WriteExit, SubprocessEnds, ReadChunk, ReadDropped,
     Reap, ProcessQueue, Attach, AttachTimeout, TakeSnapshot, Detach, SocketClose, ClientReads

\* Broadcasting something leaves every socket it finds full with something to read.
LEMMA BroadcastPause ==
  ASSUME PauseInv, NEW events \in Seq(Frame), events # <<>>, Broadcast(events)
  PROVE  /\ attached' \subseteq Client /\ draining' \subseteq Client
         /\ armed' \subseteq Client /\ open' \subseteq Client
         /\ outbox' \in [Client -> Seq(Frame)]
         /\ draining' \subseteq attached'
         /\ \A c \in draining' \cap open' : c \in armed' /\ outbox'[c] # <<>>
         /\ \A c \in Client \ open' : outbox'[c] = <<>>
         /\ Full(events) \subseteq draining'
<1>1. Full(events) \subseteq attached
  BY DEF Full
<1>2. attached' = attached /\ open' = open
      /\ draining' = draining \cup Full(events) /\ armed' = armed \cup Full(events)
  BY DEF Broadcast
<1>3. outbox' = [c \in Client |-> IF c \in attached \cap open THEN outbox[c] \o events
                                                            ELSE outbox[c]]
  BY DEF Broadcast, Outbox
<1>4. \A c \in Client : outbox[c] \o events \in Seq(Frame) /\ outbox[c] \o events # <<>>
  BY DEF PauseInv, SocketType
<1>5. outbox' \in [Client -> Seq(Frame)]
  BY <1>3, <1>4 DEF PauseInv, SocketType
<1>6. ASSUME NEW c \in draining' \cap open'
      PROVE  c \in armed' /\ outbox'[c] # <<>>
  <2>1. c \in attached /\ c \in open /\ c \in Client
    BY <1>1, <1>2, <1>6 DEF PauseInv, SocketType, Awaited
  <2>. QED  BY <1>1, <1>2, <1>3, <1>4, <1>6, <2>1 DEF PauseInv, Awaited
<1>7. \A c \in Client \ open' : outbox'[c] = <<>>
  BY <1>2, <1>3 DEF PauseInv, Awaited
<1>. QED  BY <1>1, <1>2, <1>5, <1>6, <1>7 DEF PauseInv, SocketType, Awaited

LEMMA TailOfMany ==
  ASSUME NEW s \in Seq(Frame), s # <<>>
  PROVE  Tail(s) \in Seq(Frame) /\ (Len(s) # 1 => Tail(s) # <<>>)
<1>1. Tail(s) \in Seq(Frame) /\ Len(Tail(s)) = Len(s) - 1 /\ Len(s) \in Nat
  BY HeadTailProperties, EmptySeq
<1>2. ASSUME Tail(s) = <<>> PROVE Len(s) = 1
  <2>1. Len(Tail(s)) = 0
    BY <1>2, EmptySeq, Zenon
  <2>2. \A n \in Nat : n - 1 = 0 => n = 1
    OBVIOUS
  <2>. QED  BY <1>1, <2>1, <2>2, Zenon
<1>. QED  BY <1>1, <1>2

LEMMA PauseNext == MadeOK /\ PauseInv /\ [Next]_vars => PauseInv'
<1>. SUFFICES ASSUME MadeOK, PauseInv, [Next]_vars PROVE PauseInv'
  OBVIOUS
<1>. USE ConstantsAssumption
<1>f. Exit \in Frame
  BY DEF Exit, Frame
<1>1. CASE WriteData
  <2>1. made + 1 \in Frame
    BY <1>1 DEF WriteData, MadeOK, Frame, Exit
  <2>2. pipe' \in Seq(Frame)
    BY <1>1, <2>1 DEF WriteData, PauseInv, SocketType
  <2>. QED  BY <1>1, <2>1, <2>2 DEF WriteData, sockets, PauseInv, SocketType, Awaited
<1>2. CASE WriteExit
  <2>1. pipe' \in Seq(Frame)
    BY <1>2, <1>f DEF WriteExit, PauseInv, SocketType
  <2>. QED  BY <1>2, <2>1 DEF WriteExit, sockets, PauseInv, SocketType, Awaited
<1>3. CASE SubprocessEnds
  BY <1>3 DEF SubprocessEnds, sockets, stdout, PauseInv, SocketType, Awaited
<1>4. CASE ReadChunk
  <2>1. PICK n \in 1..Len(pipe) :
          /\ pipe' = SubSeq(pipe, n + 1, Len(pipe))
          /\ Broadcast(SubSeq(pipe, 1, n))
          /\ paused' = (Full(SubSeq(pipe, 1, n)) # {})
    BY <1>4 DEF ReadChunk
  <2>2. pipe \in Seq(Frame)
    BY DEF PauseInv, SocketType
  <2>3. /\ SubSeq(pipe, 1, n) \in Seq(Frame) /\ SubSeq(pipe, 1, n) # <<>>
        /\ pipe' \in Seq(Frame)
    BY <2>1, <2>2
  <2>. QED  BY <2>1, <2>3, BroadcastPause DEF PauseInv, SocketType, Awaited
<1>5. CASE ReadDropped
  BY <1>5 DEF ReadDropped, sockets, PauseInv, SocketType, Awaited
<1>6. CASE Reap
  <2>1. pipe' = pipe /\ paused' = FALSE /\ AnnounceExit
    BY <1>6 DEF Reap, ResetProcessState
  <2>2. CASE exited
    BY <2>1, <2>2 DEF AnnounceExit, sockets, PauseInv, SocketType, Awaited
  <2>3. CASE ~exited
    <3>1. <<Exit>> \in Seq(Frame) /\ <<Exit>> # <<>>
      BY <1>f
    <3>2. Broadcast(<<Exit>>)
      BY <2>1, <2>3 DEF AnnounceExit
    <3>. QED  BY <2>1, <3>1, <3>2, BroadcastPause DEF PauseInv, SocketType, Awaited
  <2>. QED  BY <2>2, <2>3
<1>7. CASE ProcessQueue
  BY <1>7 DEF ProcessQueue, sockets, stdout, PauseInv, SocketType, Awaited
<1>8. ASSUME NEW c \in Client, Attach(c) PROVE PauseInv'
  BY <1>8 DEF Attach, Register, stdout, PauseInv, SocketType, Awaited
<1>9. ASSUME NEW c \in Client, AttachTimeout(c) \/ TakeSnapshot(c) PROVE PauseInv'
  BY <1>9 DEF AttachTimeout, TakeSnapshot, sockets, stdout, PauseInv, SocketType, Awaited
<1>10. ASSUME NEW c \in Client, Detach(c) PROVE PauseInv'
  BY <1>10 DEF Detach, DetachClient, MaybeResume, PauseInv, SocketType, Awaited
<1>11. ASSUME NEW c \in Client, SocketClose(c) PROVE PauseInv'
  <2>1. /\ open' = open \ {c} /\ outbox' = [outbox EXCEPT ![c] = <<>>]
        /\ armed' = armed \ {c} /\ pipe' = pipe
    BY <1>11 DEF SocketClose
  <2>2. /\ attached' = attached \ {c} /\ draining' = draining \ {c}
        /\ paused' = (paused /\ draining \ {c} # {})
    <3>1. CASE c \in attached
      BY <1>11, <3>1 DEF SocketClose, DetachClient, MaybeResume
    <3>2. CASE c \notin attached
      <4>1. UNCHANGED <<attached, draining, paused>>
        BY <1>11, <3>2 DEF SocketClose
      <4>2. c \notin draining
        BY <3>2 DEF PauseInv, Awaited
      <4>. QED  BY <3>2, <4>1, <4>2 DEF PauseInv, Awaited, SocketType
    <3>. QED  BY <3>1, <3>2
  <2>3. <<>> \in Seq(Frame)
    OBVIOUS
  <2>. QED  BY <2>1, <2>2, <2>3 DEF PauseInv, SocketType, Awaited
<1>12. ASSUME NEW c \in Client, ClientReads(c) PROVE PauseInv'
  <2>1. /\ outbox[c] # <<>> /\ outbox' = [outbox EXCEPT ![c] = Tail(@)]
        /\ UNCHANGED <<pipe, attached, open>>
    BY <1>12 DEF ClientReads
  <2>2. /\ Tail(outbox[c]) \in Seq(Frame)
        /\ Len(outbox[c]) # 1 => Tail(outbox[c]) # <<>>
    <3>1. outbox[c] \in Seq(Frame)
      BY DEF PauseInv, SocketType
    <3>. QED  BY <2>1, <3>1, TailOfMany
  <2>3. outbox' \in [Client -> Seq(Frame)]
    <3>1. PICK rest \in Seq(Frame) : rest = Tail(outbox[c])
      BY <2>2
    <3>2. outbox' = [outbox EXCEPT ![c] = rest]
      BY <2>1, <3>1
    <3>. QED  BY <3>2 DEF PauseInv, SocketType
  <2>4. CASE Len(outbox[c]) = 1 /\ c \in armed
    <3>1. /\ armed' = armed \ {c} /\ draining' = draining \ {c}
          /\ paused' = (paused /\ draining \ {c} # {})
      BY <1>12, <2>4 DEF ClientReads, MaybeResume
    <3>2. \A d \in Client \ {c} : outbox'[d] = outbox[d]
      BY <2>1 DEF PauseInv, SocketType
    <3>3. SocketType'
      BY <2>1, <2>3, <3>1 DEF PauseInv, SocketType
    <3>4. c \in open
      BY <2>1 DEF PauseInv, Awaited
    <3>5. Awaited'
      BY <2>1, <3>1, <3>2, <3>4 DEF PauseInv, SocketType, Awaited
    <3>. QED  BY <3>3, <3>5 DEF PauseInv
  <2>5. CASE ~(Len(outbox[c]) = 1 /\ c \in armed)
    <3>1. UNCHANGED <<armed, draining, paused>>
      BY <1>12, <2>5 DEF ClientReads
    <3>2. \A d \in draining \cap open : d \in armed /\ outbox'[d] # <<>>
      BY <2>1, <2>2, <2>5 DEF PauseInv, SocketType, Awaited
    <3>. QED  BY <2>1, <2>3, <3>1, <3>2 DEF PauseInv, SocketType, Awaited
  <2>. QED  BY <2>4, <2>5
<1>13. CASE UNCHANGED vars
  BY <1>13 DEF vars, PauseInv, SocketType, Awaited
<1>. QED
  BY <1>1, <1>2, <1>3, <1>4, <1>5, <1>6, <1>7, <1>8, <1>9, <1>10, <1>11, <1>12, <1>13
     DEF Next

\* Output is paused only while a connected client has something to read, whose
\* drain resumes it, or while a socket is attached that was closed already.
THEOREM PausedForAReason == Spec => []PauseHasReason
<1>1. Init => PauseInv
  <2>. SUFFICES ASSUME Init PROVE PauseInv
    OBVIOUS
  <2>1. <<>> \in Seq(Frame)
    OBVIOUS
  <2>2. outbox \in [Client -> Seq(Frame)] /\ pipe \in Seq(Frame)
    BY <2>1 DEF Init
  <2>. QED  BY <2>2, ConstantsAssumption DEF Init, PauseInv, SocketType, Awaited
<1>2. PauseInv => PauseHasReason
  BY DEF PauseInv, SocketType, Awaited, PauseHasReason, Ghosts
<1>3. Init => MadeOK
  BY ConstantsAssumption DEF Init, MadeOK
<1>. QED  BY <1>1, <1>2, <1>3, MadeNext, PauseNext, PTL DEF Spec

------------------------------------------------------------------------------
(* The exit                                                                *)
(*                                                                         *)
(* The exit may be announced by its frame or by the end of the process.    *)
(* The frame is the last one in the pipe, so that nothing can be left to   *)
(* read when it was handled; after the end of the process no frame is.     *)

ExitIsLast(s) == \A i \in 1..Len(s) : s[i] = Exit => i = Len(s)

ExitInv ==
  /\ pipe \in Seq(Frame) /\ got \in [Client -> Seq(Frame)]
  /\ exited => child = "reaped" \/ (ended /\ pipe = <<>>)
  /\ ExitIsLast(pipe) /\ (Contains(pipe, Exit) => ended)
  /\ \A c \in Client : ExitIsLast(got[c]) /\ (Contains(got[c], Exit) => exited)

\* Sending events to clients that have not heard of the exit.
LEMMA BroadcastExit ==
  ASSUME ExitInv, ~exited, NEW events \in Seq(Frame), ExitIsLast(events),
         Broadcast(events), Contains(events, Exit) => exited'
  PROVE  /\ got' \in [Client -> Seq(Frame)]
         /\ \A c \in Client : ExitIsLast(got'[c]) /\ (Contains(got'[c], Exit) => exited')
<1>1. \A c \in Client : got'[c] = IF c \in attached THEN got[c] \o events ELSE got[c]
  BY DEF Broadcast
<1>2. \A c \in Client : got[c] \in Seq(Frame) /\ got[c] \o events \in Seq(Frame)
  BY DEF ExitInv
<1>3. got' \in [Client -> Seq(Frame)]
  BY <1>2 DEF Broadcast
<1>4. ASSUME NEW c \in Client
      PROVE  ExitIsLast(got'[c]) /\ (Contains(got'[c], Exit) => exited')
  <2>1. \A i \in 1..Len(got[c]) : got[c][i] # Exit
    BY DEF ExitInv, Contains
  <2>2. CASE c \notin attached
    BY <1>1, <2>1, <2>2 DEF ExitIsLast, Contains
  <2>3. CASE c \in attached
    <3>1. got'[c] = got[c] \o events /\ got[c] \in Seq(Frame)
      BY <1>1, <1>2, <2>3
    <3>2. Len(got'[c]) = Len(got[c]) + Len(events)
          /\ \A i \in 1..Len(got'[c]) :
                got'[c][i] = IF i <= Len(got[c]) THEN got[c][i] ELSE events[i - Len(got[c])]
      BY <3>1, ConcatProperties
    <3>3. Len(got[c]) \in Nat /\ Len(events) \in Nat
      BY <3>1
    <3>4. ASSUME NEW i \in 1..Len(got'[c]), got'[c][i] = Exit
          PROVE  /\ i - Len(got[c]) \in 1..Len(events)
                 /\ events[i - Len(got[c])] = Exit
      <4>1. ~(i <= Len(got[c]))
        BY <2>1, <3>2, <3>3, <3>4
      <4>. QED  BY <3>2, <3>3, <3>4, <4>1
    <3>5. ExitIsLast(got'[c])
      <4>. SUFFICES ASSUME NEW i \in 1..Len(got'[c]), got'[c][i] = Exit
                    PROVE  i = Len(got'[c])
        BY DEF ExitIsLast
      <4>1. i - Len(got[c]) = Len(events)
        BY <3>4 DEF ExitIsLast
      <4>. QED  BY <3>2, <3>3, <4>1
    <3>6. Contains(got'[c], Exit) => exited'
      BY <3>4 DEF Contains
    <3>. QED  BY <3>5, <3>6
  <2>. QED  BY <2>2, <2>3
<1>. QED  BY <1>3, <1>4

\* A sequence of length zero is the empty one.
LEMMA NothingInEmpty ==
  ASSUME NEW s \in Seq(Frame), Len(s) = 0
  PROVE  s = <<>>
<1>1. s # <<>> => Len(s) \in Nat \ {0}
  BY EmptySeq, Zenon
<1>2. ~(Len(s) \in Nat \ {0})
  OBVIOUS
<1>. QED  BY <1>1, <1>2

LEMMA EmptyHasNoExit == <<>> \in Seq(Frame) /\ ExitIsLast(<<>>) /\ ~Contains(<<>>, Exit)
BY EmptySeq DEF ExitIsLast, Contains

\* A client that attaches or leaves has heard of nothing.
LEMMA ForgetExit ==
  ASSUME ExitInv, NEW c \in Client, got' = [got EXCEPT ![c] = <<>>],
         UNCHANGED <<child, ended, pipe, exited>>
  PROVE  ExitInv'
<1>1. got' \in [Client -> Seq(Frame)]
  BY EmptyHasNoExit DEF ExitInv
<1>2. \A d \in Client : got'[d] = got[d] \/ got'[d] = <<>>
  BY DEF ExitInv
<1>3. ASSUME NEW d \in Client
      PROVE  ExitIsLast(got'[d]) /\ (Contains(got'[d], Exit) => exited')
  <2>1. CASE got'[d] = got[d]
    BY <2>1 DEF ExitInv
  <2>2. CASE got'[d] = <<>>
    BY <2>2, EmptyHasNoExit
  <2>. QED  BY <1>2, <2>1, <2>2
<1>4. ExitIsLast(pipe') /\ (Contains(pipe', Exit) => ended')
  BY DEF ExitInv
<1>. QED  BY <1>1, <1>3, <1>4 DEF ExitInv

\* One more frame is written behind frames that are all output.
LEMMA AppendFrame ==
  ASSUME ExitInv, ~ended, NEW f \in Frame, pipe' = Append(pipe, f)
  PROVE  /\ pipe' \in Seq(Frame) /\ ExitIsLast(pipe')
         /\ Contains(pipe', Exit) => f = Exit
<1>1. pipe \in Seq(Frame) /\ \A i \in 1..Len(pipe) : pipe[i] # Exit
  BY DEF ExitInv, Contains
<1>. QED  BY <1>1 DEF ExitIsLast, Contains

LEMMA ExitNext == MadeOK /\ ExitInv /\ [Next]_vars => ExitInv'
<1>. SUFFICES ASSUME MadeOK, ExitInv, [Next]_vars PROVE ExitInv'
  OBVIOUS
<1>. USE ConstantsAssumption
<1>f. Exit \in Frame
  BY DEF Exit, Frame
\* Steps that keep the pipe and what the clients were sent.
<1>k. ASSUME UNCHANGED <<child, ended, pipe, exited, got>> PROVE ExitInv'
  BY <1>k DEF ExitInv, ExitIsLast, Contains
<1>1. CASE WriteData
  <2>1. made + 1 \in Frame /\ made + 1 # Exit
    BY <1>1 DEF WriteData, MadeOK, Frame, Exit
  <2>2. /\ ~ended /\ child = "alive" /\ pipe' = Append(pipe, made + 1)
        /\ UNCHANGED <<child, ended, exited, got>>
    BY <1>1 DEF WriteData, history
  <2>3. ~exited
    BY <2>2 DEF ExitInv
  <2>4. /\ pipe' \in Seq(Frame) /\ ExitIsLast(pipe')
        /\ ~Contains(pipe', Exit)
    BY <2>1, <2>2, AppendFrame
  <2>. QED  BY <2>2, <2>3, <2>4 DEF ExitInv, ExitIsLast, Contains
<1>2. CASE WriteExit
  <2>1. /\ ~ended /\ ended' /\ child = "alive" /\ pipe' = Append(pipe, Exit)
        /\ UNCHANGED <<child, exited, got>>
    BY <1>2 DEF WriteExit, history
  <2>2. ~exited
    BY <2>1 DEF ExitInv
  <2>3. pipe' \in Seq(Frame) /\ ExitIsLast(pipe')
    BY <1>f, <2>1, AppendFrame
  <2>. QED  BY <2>1, <2>2, <2>3 DEF ExitInv, ExitIsLast, Contains
<1>3. CASE SubprocessEnds
  <2>1. child = "alive" /\ UNCHANGED <<ended, pipe, exited, got>>
    BY <1>3 DEF SubprocessEnds, stdout, history
  <2>. QED  BY <2>1 DEF ExitInv, ExitIsLast, Contains
<1>4. CASE ReadChunk
  <2>1. PICK n \in 1..Len(pipe) :
          /\ pipe' = SubSeq(pipe, n + 1, Len(pipe))
          /\ exited' = (exited \/ Contains(SubSeq(pipe, 1, n), Exit))
          /\ Broadcast(SubSeq(pipe, 1, n))
    BY <1>4 DEF ReadChunk
  <2>2. child # "reaped" /\ UNCHANGED <<child, ended>>
    BY <1>4 DEF ReadChunk, sub
  <2>3. pipe \in Seq(Frame) /\ Len(pipe) \in Nat /\ n \in Nat /\ 1 <= n /\ n <= Len(pipe)
    BY <2>1 DEF ExitInv
  <2>4. ~exited
    <3>1. pipe # <<>>
      BY <2>3, EmptySeq
    <3>. QED  BY <2>2, <3>1 DEF ExitInv
  <2> DEFINE frames == SubSeq(pipe, 1, n)
  <2>5. /\ frames \in Seq(Frame) /\ Len(frames) = n
        /\ \A i \in 1..n : frames[i] = pipe[i]
    BY <2>3
  <2>6. /\ pipe' \in Seq(Frame) /\ Len(pipe') = Len(pipe) - n
        /\ \A i \in 1..(Len(pipe) - n) : pipe'[i] = pipe[i + n]
    BY <2>1, <2>3
  <2>7. ExitIsLast(frames)
    BY <2>3, <2>5 DEF ExitInv, ExitIsLast
  <2>8. Contains(frames, Exit) => n = Len(pipe) /\ ended
    BY <2>3, <2>5 DEF ExitInv, ExitIsLast, Contains
  <2>9. Contains(frames, Exit) => exited'
    BY <2>1
  <2>10. /\ got' \in [Client -> Seq(Frame)]
         /\ \A c \in Client : ExitIsLast(got'[c]) /\ (Contains(got'[c], Exit) => exited')
    BY <2>1, <2>4, <2>5, <2>7, <2>9, BroadcastExit
  <2>11. exited' => ended' /\ pipe' = <<>>
    <3>1. exited' => Contains(frames, Exit)
      BY <2>1, <2>4, Zenon
    <3>2. exited' => n = Len(pipe) /\ ended'
      BY <2>2, <2>8, <3>1
    <3>3. exited' => Len(pipe') = 0
      BY <2>3, <2>6, <3>2
    <3>4. pipe' \in Seq(Frame)
      BY <2>6
    <3>. QED  BY <3>2, <3>3, <3>4, NothingInEmpty
  <2>12. ExitIsLast(pipe') /\ (Contains(pipe', Exit) => ended')
    <3>1. \A i \in 1..Len(pipe') : i + n \in 1..Len(pipe) /\ pipe'[i] = pipe[i + n]
      BY <2>3, <2>6
    <3>2. ExitIsLast(pipe')
      BY <2>3, <2>6, <3>1 DEF ExitInv, ExitIsLast
    <3>3. Contains(pipe', Exit) => ended'
      BY <2>2, <3>1 DEF ExitInv, Contains
    <3>. QED  BY <3>2, <3>3
  <2>. QED  BY <2>6, <2>10, <2>11, <2>12 DEF ExitInv
<1>5. CASE ReadDropped
  <2>1. child' = "reaped" /\ pipe' = <<>> /\ UNCHANGED <<exited, got>>
    BY <1>5 DEF ReadDropped, sub, history
  <2>2. /\ pipe' \in Seq(Frame) /\ ExitIsLast(pipe') /\ ~Contains(pipe', Exit)
    BY <2>1, EmptyHasNoExit
  <2>. QED  BY <2>1, <2>2 DEF ExitInv, ExitIsLast, Contains
<1>6. CASE Reap
  <2>1. /\ child' = "reaped" /\ exited' = TRUE /\ AnnounceExit
        /\ UNCHANGED <<ended, pipe>>
    BY <1>6 DEF Reap
  <2>2. CASE exited
    BY <2>1, <2>2 DEF AnnounceExit, ExitInv, ExitIsLast, Contains
  <2>3. CASE ~exited
    <3>1. <<Exit>> \in Seq(Frame) /\ ExitIsLast(<<Exit>>)
      <4>1. <<Exit>> \in Seq(Frame) /\ Len(<<Exit>>) = 1
        BY <1>f
      <4>2. \A i \in 1..1 : i = 1
        OBVIOUS
      <4>. QED  BY <4>1, <4>2, Zenon DEF ExitIsLast
    <3>2. Broadcast(<<Exit>>)
      BY <2>1, <2>3 DEF AnnounceExit
    <3>3. /\ got' \in [Client -> Seq(Frame)]
          /\ \A c \in Client : ExitIsLast(got'[c]) /\ (Contains(got'[c], Exit) => exited')
      BY <2>1, <2>3, <3>1, <3>2, BroadcastExit
    <3>. QED  BY <2>1, <3>3 DEF ExitInv, ExitIsLast, Contains
  <2>. QED  BY <2>2, <2>3
<1>7. CASE ProcessQueue
  BY <1>7, <1>k DEF ProcessQueue, sub, stdout, history
<1>8. ASSUME NEW c \in Client, Attach(c) PROVE ExitInv'
  BY <1>8, ForgetExit DEF Attach, sub, stdout
<1>9. ASSUME NEW c \in Client, AttachTimeout(c) \/ TakeSnapshot(c) \/ ClientReads(c)
      PROVE  ExitInv'
  BY <1>9, <1>k DEF AttachTimeout, TakeSnapshot, ClientReads, sub, stdout, history
<1>10. ASSUME NEW c \in Client, Detach(c) \/ SocketClose(c) PROVE ExitInv'
  BY <1>10, ForgetExit DEF Detach, SocketClose, Forget, sub
<1>11. CASE UNCHANGED vars
  BY <1>11, <1>k DEF vars
<1>. QED
  BY <1>1, <1>2, <1>3, <1>4, <1>5, <1>6, <1>7, <1>8, <1>9, <1>10, <1>11 DEF Next

\* A client hears of the exit at most once, and of no output afterwards, whether
\* the Exit frame or the end of the process is seen first.
THEOREM ExitAnnouncedOnce == Spec => []ExitOnceAndLast
<1>1. Init => ExitInv /\ MadeOK
  <2>. SUFFICES ASSUME Init PROVE ExitInv /\ MadeOK
    OBVIOUS
  <2>1. got \in [Client -> Seq(Frame)] /\ \A c \in Client : got[c] = <<>>
    BY EmptyHasNoExit DEF Init
  <2>2. pipe = <<>> /\ ~exited /\ made = 0
    BY DEF Init
  <2>. QED  BY <2>1, <2>2, EmptyHasNoExit, ConstantsAssumption DEF ExitInv, MadeOK
<1>2. ExitInv => ExitOnceAndLast
  <2>. SUFFICES ASSUME ExitInv, NEW c \in Client PROVE \A i \in DOMAIN got[c] :
                  got[c][i] = Exit => i = Len(got[c])
    BY DEF ExitOnceAndLast
  <2>1. got[c] \in Seq(Frame)
    BY DEF ExitInv
  <2>2. DOMAIN got[c] = 1..Len(got[c])
    BY <2>1
  <2>. QED  BY <2>2 DEF ExitInv, ExitIsLast
<1>. QED  BY <1>1, <1>2, MadeNext, ExitNext, PTL DEF Spec

------------------------------------------------------------------------------
(* Nothing is missing                                                      *)
(*                                                                         *)
(* The output that was read is cut in two by the boundary of an attach:    *)
(* what comes up to it is in the emulator when the snapshot is taken,      *)
(* because the emulator is fed in order and the waiter is let go when so   *)
(* many items were written; what comes after it is broadcast to the client *)
(* that registered before the boundary was set.                            *)

StreamType ==
  /\ child \in {"alive", "gone", "reaped"} /\ ended \in BOOLEAN
  /\ queue \in Seq(Frame) /\ processed \in Nat /\ scheduled \in BOOLEAN
  /\ emulator \in Seq(Frame) /\ exited \in BOOLEAN
  /\ fresh \in BOOLEAN
  /\ call \in [Client -> Call]
  /\ read \in 0..MaxData /\ cut \subseteq Client

\* Output numbers that follow on from one.
Follows(s, last) == \A i \in 1..Len(s) : s[i] = last + i

\* While the decoder exists, the pipe goes on where the daemon has read to.
PipeInOrder ==
  child # "reaped" =>
    /\ \A i \in 1..Len(pipe) : pipe[i] # Exit => pipe[i] = read + i
    /\ ~ended => read + Len(pipe) = made

\* The emulator and its queue hold what was read, in order.
ScreenInOrder ==
  /\ Follows(emulator, 0)
  /\ child # "reaped" => /\ processed = Len(emulator) /\ Follows(queue, processed)
                         /\ processed + Len(queue) = read
  /\ child = "reaped" => ~scheduled /\ \A c \in Client : call[c].pc # "flush"

\* What was read since the boundary was set has been sent.
SentSince ==
  \A c \in attached :
    /\ call[c].pc # "none"
    /\ \A k \in Nat : call[c].target < k /\ k <= read => Contains(got[c], k)

\* What was read before is on the screen that makes the snapshot.
ShownBefore ==
  \A c \in attached :
    ~call[c].late /\ c \notin cut =>
      /\ call[c].pc = "snapshot" => call[c].target <= Len(emulator)
      /\ call[c].pc = "done" => /\ call[c].target <= Len(call[c].snapshot)
                                /\ Follows(call[c].snapshot, 0)

GapFacts == PipeInOrder /\ ScreenInOrder /\ SentSince /\ ShownBefore
GapInv == MadeOK /\ PauseInv /\ ExitInv /\ StreamType /\ GapFacts

LEMMA ConcatContains ==
  ASSUME NEW s \in Seq(Frame), NEW t \in Seq(Frame), NEW k, Contains(s, k) \/ Contains(t, k)
  PROVE  Contains(s \o t, k)
<1>1. /\ Len(s \o t) = Len(s) + Len(t) /\ Len(s) \in Nat /\ Len(t) \in Nat
      /\ \A i \in 1..Len(s) + Len(t) :
           (s \o t)[i] = IF i <= Len(s) THEN s[i] ELSE t[i - Len(s)]
  BY ConcatProperties
<1>2. CASE Contains(s, k)
  BY <1>1, <1>2 DEF Contains
<1>3. ASSUME NEW j \in 1..Len(t), t[j] = k
      PROVE  Contains(s \o t, k)
  <2>1. j + Len(s) \in 1..Len(s) + Len(t) /\ ~(j + Len(s) <= Len(s))
        /\ (j + Len(s)) - Len(s) = j
    BY <1>1
  <2>. QED  BY <1>1, <1>3, <2>1 DEF Contains
<1>. QED  BY <1>2, <1>3 DEF Contains

\* Numbers that follow on are followed by numbers that follow on from them.
LEMMA ConcatFollows ==
  ASSUME NEW s \in Seq(Frame), NEW t \in Seq(Frame), NEW n \in Nat,
         Follows(s, n), Follows(t, n + Len(s))
  PROVE  Follows(s \o t, n)
<1>1. /\ Len(s \o t) = Len(s) + Len(t) /\ Len(s) \in Nat /\ Len(t) \in Nat
      /\ \A i \in 1..Len(s) + Len(t) :
           (s \o t)[i] = IF i <= Len(s) THEN s[i] ELSE t[i - Len(s)]
  BY ConcatProperties
<1>2. ASSUME NEW i \in 1..Len(s) + Len(t), ~(i <= Len(s))
      PROVE  i - Len(s) \in 1..Len(t) /\ (n + Len(s)) + (i - Len(s)) = n + i
  BY <1>1, <1>2
<1>. QED  BY <1>1, <1>2 DEF Follows

\* Cutting a sequence in two.
LEMMA Halves ==
  ASSUME NEW s \in Seq(Frame), NEW n \in 0..Len(s)
  PROVE  /\ SubSeq(s, 1, n) \in Seq(Frame) /\ Len(SubSeq(s, 1, n)) = n
         /\ \A i \in 1..n : SubSeq(s, 1, n)[i] = s[i]
         /\ SubSeq(s, n + 1, Len(s)) \in Seq(Frame)
         /\ Len(SubSeq(s, n + 1, Len(s))) = Len(s) - n
         /\ \A i \in 1..(Len(s) - n) : SubSeq(s, n + 1, Len(s))[i] = s[i + n]
<1>1. Len(s) \in Nat /\ n \in Nat /\ n <= Len(s) /\ \A i \in 1..Len(s) : s[i] \in Frame
  BY ElementOfSeq
<1>2. /\ SubSeq(s, 1, n) \in Seq(Frame)
      /\ Len(SubSeq(s, 1, n)) = IF 1 <= n THEN n - 1 + 1 ELSE 0
      /\ \A i \in 1..n - 1 + 1 : SubSeq(s, 1, n)[i] = s[1 + i - 1]
  BY <1>1, SubSeqProperties
<1>3. /\ SubSeq(s, n + 1, Len(s)) \in Seq(Frame)
      /\ Len(SubSeq(s, n + 1, Len(s))) = IF n + 1 <= Len(s) THEN Len(s) - (n + 1) + 1 ELSE 0
      /\ \A i \in 1..Len(s) - (n + 1) + 1 : SubSeq(s, n + 1, Len(s))[i] = s[(n + 1) + i - 1]
  BY <1>1, SubSeqProperties
<1>. QED  BY <1>1, <1>2, <1>3

\* What one chunk of stdout holds.
LEMMA ChunkInOrder ==
  ASSUME GapInv, child # "reaped", NEW n \in 1..Len(pipe)
  PROVE  LET frames == SubSeq(pipe, 1, n)
             data == DataOf(frames) IN
         /\ data \in Seq(Frame) /\ Follows(data, read)
         /\ Len(data) \in 0..n /\ read + Len(data) \in 0..MaxData
         /\ \A k \in Nat : read < k /\ k <= read + Len(data) => Contains(frames, k)
         /\ Len(data) = n \/ (n = Len(pipe) /\ ended)
<1>. DEFINE frames == SubSeq(pipe, 1, n)
            data == DataOf(frames)
<1>1. /\ pipe \in Seq(Frame) /\ Len(pipe) \in Nat /\ n \in 1..Len(pipe)
      /\ read \in 0..MaxData /\ MaxData \in Nat
  BY ConstantsAssumption DEF GapInv, PauseInv, SocketType, StreamType
<1>2. /\ frames \in Seq(Frame) /\ Len(frames) = n
      /\ \A i \in 1..n : frames[i] = pipe[i]
  <2>1. n \in 0..Len(pipe)
    BY <1>1
  <2>. QED  BY <1>1, <2>1, Halves
<1>d. data = IF frames[n] = Exit THEN SubSeq(frames, 1, n - 1) ELSE frames
  BY <1>2 DEF DataOf, Last, Front
<1>g. SUFFICES
        /\ data \in Seq(Frame) /\ Follows(data, read)
        /\ Len(data) \in 0..n /\ read + Len(data) \in 0..MaxData
        /\ \A k \in Nat : read < k /\ k <= read + Len(data) => Contains(frames, k)
        /\ Len(data) = n \/ (n = Len(pipe) /\ ended)
  OBVIOUS
<1>. HIDE DEF frames, data
<1>3. \A i \in 1..n : frames[i] \in Frame /\ (frames[i] = Exit => i = Len(pipe) /\ ended)
  BY <1>1, <1>2 DEF GapInv, ExitInv, ExitIsLast, Contains
<1>4. \A i \in 1..n : frames[i] # Exit => frames[i] = read + i /\ read + i <= MaxData
  <2>1. \A i \in 1..n : frames[i] # Exit => frames[i] = read + i
    BY <1>1, <1>2 DEF GapInv, GapFacts, PipeInOrder
  <2>2. \A f \in Frame : f # Exit => f <= MaxData
    BY <1>1 DEF Frame, Exit
  <2>. QED  BY <1>3, <2>1, <2>2
<1>5. CASE frames[n] = Exit
  <2>1. data = SubSeq(frames, 1, n - 1) /\ n = Len(pipe) /\ ended /\ n - 1 \in 0..n
    BY <1>d, <1>1, <1>2, <1>3, <1>5
  <2>2. /\ data \in Seq(Frame) /\ Len(data) = n - 1
        /\ \A i \in 1..(n - 1) : data[i] = frames[i]
    <3>1. n - 1 \in 0..Len(frames)
      BY <1>1, <1>2
    <3>. QED  BY <1>2, <2>1, <3>1, Halves
  <2>3. \A i \in 1..(n - 1) : data[i] = read + i /\ read + i <= MaxData /\ frames[i] = read + i
    BY <1>1, <1>3, <1>4, <2>1, <2>2
  <2>4. Follows(data, read)
    BY <2>2, <2>3 DEF Follows
  <2>5. read + (n - 1) \in 0..MaxData
    <3>1. CASE n = 1
      BY <1>1, <3>1
    <3>2. CASE n # 1
      <4>1. n - 1 \in 1..(n - 1) /\ n - 1 \in Nat
        BY <1>1, <3>2
      <4>2. read + (n - 1) <= MaxData
        BY <2>3, <4>1
      <4>. QED  BY <1>1, <4>1, <4>2
    <3>. QED  BY <3>1, <3>2
  <2>6. ASSUME NEW k \in Nat, read < k, k <= read + (n - 1)
        PROVE  Contains(frames, k)
    <3>1. k - read \in 1..(n - 1) /\ k - read \in 1..Len(frames) /\ read + (k - read) = k
      BY <1>1, <1>2, <2>6
    <3>. QED  BY <2>3, <3>1 DEF Contains
  <2>. QED  BY <1>1, <2>1, <2>2, <2>4, <2>5, <2>6
<1>6. CASE frames[n] # Exit
  <2>1. data = frames
    BY <1>d, <1>6
  <2>2. \A i \in 1..n : frames[i] = read + i /\ read + i <= MaxData
    <3>1. \A i \in 1..n : frames[i] # Exit
      BY <1>1, <1>3, <1>6
    <3>. QED  BY <1>4, <3>1
  <2>3. Follows(data, read)
    BY <1>2, <2>1, <2>2 DEF Follows
  <2>4. read + n \in 0..MaxData
    BY <1>1, <2>2
  <2>5. ASSUME NEW k \in Nat, read < k, k <= read + n
        PROVE  Contains(frames, k)
    <3>1. k - read \in 1..n /\ k - read \in 1..Len(frames) /\ read + (k - read) = k
      BY <1>1, <1>2, <2>5
    <3>. QED  BY <2>2, <3>1 DEF Contains
  <2>. QED  BY <1>1, <1>2, <2>1, <2>3, <2>4, <2>5
<1>. QED  BY <1>5, <1>6

\* What a broadcast adds to what the clients were sent.
LEMMA BroadcastSends ==
  ASSUME PauseInv, ExitInv, NEW events \in Seq(Frame), Broadcast(events)
  PROVE  /\ \A c \in attached, k \in Nat :
              Contains(got[c], k) \/ Contains(events, k) => Contains(got'[c], k)
         /\ attached' = attached
<1>1. \A c \in attached : c \in Client /\ got[c] \in Seq(Frame)
  BY DEF PauseInv, SocketType, ExitInv
<1>2. \A c \in attached : got'[c] = got[c] \o events
  BY <1>1 DEF Broadcast
<1>3. ASSUME NEW c \in attached, NEW k \in Nat, Contains(got[c], k) \/ Contains(events, k)
      PROVE  Contains(got'[c], k)
  BY <1>1, <1>2, <1>3, ConcatContains
<1>. QED  BY <1>3 DEF Broadcast

\* A step that neither reads nor shows anything, and leaves every attached client
\* what it was sent and its attach.
LEMMA GapStays ==
  ASSUME GapInv, UNCHANGED <<child, scheduled, queue, processed, emulator, read>>,
         pipe' = pipe /\ made' = made /\ ended' = ended,
         attached' \subseteq attached,
         \A c \in attached' : /\ call'[c] = call[c] /\ got'[c] = got[c]
                              /\ c \in cut => c \in cut',
         \A c \in Client : call'[c].pc = "flush" => call[c].pc = "flush"
  PROVE  GapFacts'
<1>1. PipeInOrder'
  BY DEF GapInv, GapFacts, PipeInOrder
<1>2. ScreenInOrder'
  BY DEF GapInv, GapFacts, ScreenInOrder, Follows
<1>3. SentSince'
  BY DEF GapInv, GapFacts, SentSince, Contains
<1>4. ShownBefore'
  BY DEF GapInv, GapFacts, ShownBefore, Follows
<1>. QED  BY <1>1, <1>2, <1>3, <1>4 DEF GapFacts

\* The subprocess writes, or ends.
LEMMA WriteKeepsGap ==
  ASSUME GapInv, WriteData \/ WriteExit \/ SubprocessEnds
  PROVE  StreamType' /\ GapFacts'
<1>1. /\ UNCHANGED <<queue, processed, scheduled, emulator, exited, fresh, call, read, cut,
                     attached, got>>
      /\ child = "alive" /\ child' \in {"alive", "gone"}
  BY DEF WriteData, WriteExit, SubprocessEnds, screen, sockets, history
<1>2. ended' \in BOOLEAN
  BY DEF WriteData, WriteExit, SubprocessEnds, GapInv, StreamType
<1>3. StreamType'
  BY <1>1, <1>2 DEF GapInv, StreamType
<1>4. ScreenInOrder' /\ SentSince' /\ ShownBefore'
  BY <1>1 DEF GapInv, GapFacts, ScreenInOrder, SentSince, ShownBefore, Follows, Contains
<1>5. PipeInOrder'
  <2>1. /\ pipe \in Seq(Frame) /\ Len(pipe) \in Nat /\ read \in Nat /\ made \in Nat
        /\ \A i \in 1..Len(pipe) : pipe[i] # Exit => pipe[i] = read + i
        /\ ~ended => read + Len(pipe) = made
    BY <1>1, ConstantsAssumption
       DEF GapInv, PauseInv, SocketType, StreamType, MadeOK, GapFacts, PipeInOrder
  <2>2. ASSUME NEW f \in Frame, pipe' = Append(pipe, f), ~ended, f # Exit => f = made + 1
        PROVE  /\ Len(pipe') = Len(pipe) + 1
               /\ \A i \in 1..Len(pipe') : pipe'[i] # Exit => pipe'[i] = read + i
    <3>1. /\ Len(pipe') = Len(pipe) + 1 /\ pipe'[Len(pipe) + 1] = f
          /\ \A i \in 1..Len(pipe) : pipe'[i] = pipe[i]
      BY <2>1, <2>2, AppendProperties
    <3>. QED  BY <2>1, <2>2, <3>1
  <2>3. CASE WriteData
    <3>1. made + 1 \in Frame /\ made + 1 # Exit
      BY <2>3, ConstantsAssumption DEF WriteData, GapInv, MadeOK, Frame, Exit
    <3>. QED  BY <1>1, <2>1, <2>2, <2>3, <3>1 DEF WriteData, PipeInOrder
  <2>4. CASE WriteExit
    <3>1. Exit \in Frame
      BY ConstantsAssumption DEF Exit, Frame
    <3>. QED  BY <1>1, <2>1, <2>2, <2>4, <3>1 DEF WriteExit, PipeInOrder
  <2>5. CASE SubprocessEnds
    BY <1>1, <2>1, <2>5 DEF SubprocessEnds, stdout, PipeInOrder
  <2>. QED  BY <2>3, <2>4, <2>5
<1>. QED  BY <1>3, <1>4, <1>5 DEF GapFacts

LEMMA ReadChunkKeepsGap ==
  ASSUME GapInv, ReadChunk
  PROVE  StreamType' /\ GapFacts'
<1>1. PICK n \in 1..Len(pipe) :
        LET frames == SubSeq(pipe, 1, n)
            data == DataOf(frames) IN
        /\ pipe' = SubSeq(pipe, n + 1, Len(pipe))
        /\ queue' = queue \o data
        /\ scheduled' = (scheduled \/ data # <<>>)
        /\ exited' = (exited \/ Contains(frames, Exit))
        /\ Broadcast(frames)
        /\ read' = read + Len(data)
  BY DEF ReadChunk
<1>2. PICK frames, data :
        /\ frames = SubSeq(pipe, 1, n) /\ data = DataOf(frames)
        /\ pipe' = SubSeq(pipe, n + 1, Len(pipe))
        /\ queue' = queue \o data
        /\ scheduled' = (scheduled \/ data # <<>>)
        /\ exited' = (exited \/ Contains(frames, Exit))
        /\ Broadcast(frames)
        /\ read' = read + Len(data)
  BY <1>1
<1>3. child # "reaped" /\ UNCHANGED <<child, made, ended, processed, emulator, fresh, call, cut>>
  BY DEF ReadChunk, sub
<1>4. /\ data \in Seq(Frame) /\ Follows(data, read)
      /\ Len(data) \in 0..n /\ read + Len(data) \in 0..MaxData
      /\ \A k \in Nat : read < k /\ k <= read + Len(data) => Contains(frames, k)
      /\ Len(data) = n \/ (n = Len(pipe) /\ ended)
  BY <1>2, <1>3, ChunkInOrder
<1>5. /\ pipe \in Seq(Frame) /\ Len(pipe) \in Nat /\ n \in 0..Len(pipe) /\ read \in Nat
      /\ queue \in Seq(Frame) /\ Len(queue) \in Nat /\ processed \in Nat /\ Len(data) \in Nat
      /\ scheduled \in BOOLEAN /\ exited \in BOOLEAN
  BY <1>4, ConstantsAssumption DEF GapInv, PauseInv, SocketType, StreamType
<1>6. /\ pipe' \in Seq(Frame) /\ Len(pipe') = Len(pipe) - n
      /\ \A i \in 1..(Len(pipe) - n) : pipe'[i] = pipe[i + n]
      /\ frames \in Seq(Frame)
  BY <1>2, <1>5, Halves
<1>7. queue' \in Seq(Frame) /\ Len(queue') = Len(queue) + Len(data)
  BY <1>2, <1>4, <1>5, ConcatProperties
<1>8. StreamType'
  <2>1. scheduled' \in BOOLEAN /\ exited' \in BOOLEAN
    BY <1>2, <1>5
  <2>. QED  BY <1>2, <1>3, <1>4, <1>7, <2>1 DEF GapInv, StreamType
<1>9. PipeInOrder'
  <2>1. CASE Len(data) = n
    <3>1. /\ \A i \in 1..Len(pipe) : pipe[i] # Exit => pipe[i] = read + i
          /\ ~ended => read + Len(pipe) = made
      BY <1>3 DEF GapInv, GapFacts, PipeInOrder
    <3>2. \A i \in 1..(Len(pipe) - n) :
            i + n \in 1..Len(pipe) /\ read + (i + n) = (read + n) + i
      BY <1>5
    <3>3. ~ended => read' + Len(pipe') = made
      <4>1. \A a, b, m \in Nat : (a + m) + (b - m) = a + b
        OBVIOUS
      <4>2. n \in Nat /\ read' = read + n /\ Len(pipe') = Len(pipe) - n
        BY <1>2, <1>5, <1>6, <2>1
      <4>. QED  BY <1>5, <3>1, <4>1, <4>2
    <3>4. \A i \in 1..Len(pipe') : pipe'[i] # Exit => pipe'[i] = read' + i
      BY <1>2, <1>6, <2>1, <3>1, <3>2
    <3>. QED  BY <1>3, <3>3, <3>4 DEF PipeInOrder
  <2>2. CASE n = Len(pipe) /\ ended
    <3>1. Len(pipe') = 0
      BY <1>5, <1>6, <2>2
    <3>. QED  BY <1>3, <2>2, <3>1 DEF PipeInOrder
  <2>. QED  BY <1>4, <2>1, <2>2
<1>10. ScreenInOrder'
  <2>1. processed = Len(emulator) /\ Follows(queue, processed) /\ processed + Len(queue) = read
    BY <1>3 DEF GapInv, GapFacts, ScreenInOrder
  <2>2. Follows(queue', processed)
    BY <1>2, <1>4, <1>5, <2>1, ConcatFollows
  <2>3. processed + Len(queue') = read'
    <3>1. \A a, b, m \in Nat : a + (b + m) = (a + b) + m
      OBVIOUS
    <3>2. read' = read + Len(data) /\ Len(queue') = Len(queue) + Len(data)
      BY <1>2, <1>7
    <3>. QED  BY <1>5, <2>1, <3>1, <3>2
  <2>. QED  BY <1>3, <2>1, <2>2, <2>3 DEF GapInv, GapFacts, ScreenInOrder, Follows
<1>11. SentSince'
  <2>1. /\ \A c \in attached, k \in Nat :
             Contains(got[c], k) \/ Contains(frames, k) => Contains(got'[c], k)
        /\ attached' = attached
    BY <1>2, <1>6, BroadcastSends DEF GapInv
  <2>2. ASSUME NEW c \in attached, NEW k \in Nat, call[c].target < k, k <= read'
        PROVE  Contains(got'[c], k)
    <3>1. CASE k <= read
      BY <2>1, <2>2, <3>1 DEF GapInv, GapFacts, SentSince
    <3>2. CASE ~(k <= read)
      <4>1. read < k /\ k <= read + Len(data)
        BY <1>2, <1>5, <2>2, <3>2
      <4>. QED  BY <1>4, <2>1, <4>1
    <3>. QED  BY <3>1, <3>2
  <2>. QED  BY <1>3, <2>1, <2>2 DEF GapInv, GapFacts, SentSince
<1>12. ShownBefore'
  <2>1. attached' = attached
    BY <1>2 DEF Broadcast
  <2>. QED  BY <1>3, <2>1 DEF GapInv, GapFacts, ShownBefore, Follows
<1>. QED  BY <1>8, <1>9, <1>10, <1>11, <1>12 DEF GapFacts

\* What letting waiters go does to the calls.
LEMMA ResolvedCalls ==
  ASSUME call \in [Client -> Call], NEW count \in Nat
  PROVE  /\ Resolved(count) \in [Client -> Call]
         /\ \A c \in Client :
              /\ Resolved(count)[c].target = call[c].target
              /\ Resolved(count)[c].late = call[c].late
              /\ Resolved(count)[c].snapshot = call[c].snapshot
              /\ \/ Resolved(count)[c].pc = call[c].pc
                 \/ /\ call[c].pc = "flush" /\ Resolved(count)[c].pc = "snapshot"
                    /\ call[c].target <= count
BY DEF Resolved, Call

LEMMA ProcessKeepsGap ==
  ASSUME GapInv, ProcessQueue
  PROVE  StreamType' /\ GapFacts'
<1>1. PICK n \in 0..Len(queue) :
        /\ emulator' = emulator \o SubSeq(queue, 1, n)
        /\ queue' = SubSeq(queue, n + 1, Len(queue))
        /\ processed' = processed + n
        /\ call' = Resolved(processed + n)
        /\ scheduled' = (n < Len(queue))
  BY DEF ProcessQueue
<1>2. scheduled /\ UNCHANGED <<child, made, ended, pipe, exited, fresh, read, cut, attached, got>>
  BY DEF ProcessQueue, sub, stdout, sockets, history
<1>3. /\ queue \in Seq(Frame) /\ Len(queue) \in Nat /\ n \in Nat /\ processed \in Nat
      /\ emulator \in Seq(Frame) /\ Len(emulator) \in Nat /\ read \in Nat
      /\ call \in [Client -> Call] /\ processed + n \in Nat
  BY <1>1, ConstantsAssumption DEF GapInv, StreamType
<1>4. /\ child # "reaped" /\ processed = Len(emulator) /\ Follows(emulator, 0)
      /\ Follows(queue, processed) /\ processed + Len(queue) = read
  BY <1>2 DEF GapInv, GapFacts, ScreenInOrder
<1>5. PICK now : now = SubSeq(queue, 1, n)
  OBVIOUS
<1>6. /\ now \in Seq(Frame) /\ Len(now) = n /\ \A i \in 1..n : now[i] = queue[i]
      /\ queue' \in Seq(Frame) /\ Len(queue') = Len(queue) - n
      /\ \A i \in 1..(Len(queue) - n) : queue'[i] = queue[i + n]
  BY <1>1, <1>3, <1>5, Halves
<1>7. Follows(now, processed)
  BY <1>3, <1>4, <1>6 DEF Follows
<1>8. /\ emulator' \in Seq(Frame) /\ Len(emulator') = Len(emulator) + n
      /\ Follows(emulator', 0)
  <2>1. emulator' = emulator \o now
    BY <1>1, <1>5
  <2>2. emulator' \in Seq(Frame) /\ Len(emulator') = Len(emulator) + n
    BY <2>1, <1>3, <1>6, ConcatProperties
  <2>3. Follows(now, 0 + Len(emulator))
    BY <1>3, <1>4, <1>7
  <2>. QED  BY <2>1, <2>2, <2>3, <1>3, <1>4, <1>6, ConcatFollows
<1>9. Follows(queue', processed')
  <2>1. \A i \in 1..(Len(queue) - n) :
          i + n \in 1..Len(queue) /\ processed + (i + n) = (processed + n) + i
    BY <1>3
  <2>. QED  BY <1>1, <1>4, <1>6, <2>1 DEF Follows
<1>10. \A c \in Client :
         /\ call'[c].target = call[c].target /\ call'[c].late = call[c].late
         /\ call'[c].snapshot = call[c].snapshot
         /\ \/ call'[c].pc = call[c].pc
            \/ /\ call[c].pc = "flush" /\ call'[c].pc = "snapshot"
               /\ call[c].target <= processed + n
  BY <1>1, <1>3, ResolvedCalls
<1>11. \A c \in attached : c \in Client /\ call[c].target \in Nat
  BY <1>3 DEF GapInv, PauseInv, SocketType, Call
<1>12. StreamType'
  <2>1. call' \in [Client -> Call] /\ scheduled' \in BOOLEAN /\ processed' \in Nat
    BY <1>1, <1>3, ResolvedCalls
  <2>. QED  BY <1>2, <1>6, <1>8, <2>1 DEF GapInv, StreamType
<1>13. PipeInOrder'
  BY <1>2 DEF GapInv, GapFacts, PipeInOrder
<1>14. ScreenInOrder'
  <2>1. processed' = Len(emulator')
    BY <1>1, <1>4, <1>8
  <2>2. processed' + Len(queue') = read'
    <3>1. \A a, b, m \in Nat : (a + m) + (b - m) = a + b
      OBVIOUS
    <3>2. processed' = processed + n /\ Len(queue') = Len(queue) - n /\ read' = read
      BY <1>1, <1>2, <1>6
    <3>3. processed + Len(queue) = read
      BY <1>4
    <3>. QED  BY <1>3, <3>1, <3>2, <3>3
  <2>. QED  BY <1>2, <1>4, <1>8, <1>9, <2>1, <2>2 DEF ScreenInOrder
<1>15. SentSince'
  <2>1. \A c \in attached : call'[c].pc # "none" /\ call'[c].target = call[c].target
    BY <1>10, <1>11 DEF GapInv, GapFacts, SentSince
  <2>. QED  BY <1>2, <2>1 DEF GapInv, GapFacts, SentSince
<1>16. ShownBefore'
  <2>1. ASSUME NEW c \in attached, ~call[c].late, c \notin cut
        PROVE  /\ call'[c].pc = "snapshot" => call'[c].target <= Len(emulator')
               /\ call'[c].pc = "done" => /\ call'[c].target <= Len(call'[c].snapshot)
                                          /\ Follows(call'[c].snapshot, 0)
    <3>1. CASE call'[c].pc = call[c].pc
      <4>1. \A t, a \in Nat : t <= a => t <= a + n
        BY <1>3
      <4>2. call[c].pc = "snapshot" => call[c].target <= Len(emulator)
        BY <2>1 DEF GapInv, GapFacts, ShownBefore
      <4>3. call[c].pc = "done" => /\ call[c].target <= Len(call[c].snapshot)
                                   /\ Follows(call[c].snapshot, 0)
        BY <2>1 DEF GapInv, GapFacts, ShownBefore
      <4>. QED  BY <1>3, <1>8, <1>10, <1>11, <3>1, <4>1, <4>2, <4>3
    <3>2. CASE call'[c].pc = "snapshot" /\ call[c].target <= processed + n
      BY <1>4, <1>8, <1>10, <1>11, <3>2
    <3>. QED  BY <1>10, <1>11, <3>1, <3>2
  <2>2. \A c \in attached : call'[c].late = call[c].late
    BY <1>10, <1>11
  <2>. QED  BY <1>2, <2>1, <2>2 DEF ShownBefore
<1>. QED  BY <1>12, <1>13, <1>14, <1>15, <1>16 DEF GapFacts

\* The end of the process: whoever waits for the queue is let go without it.
LEMMA ReapKeepsGap ==
  ASSUME GapInv, Reap
  PROVE  StreamType' /\ GapFacts'
<1>1. /\ child' = "reaped" /\ exited' = TRUE /\ queue' = <<>> /\ processed' = 0
      /\ scheduled' = FALSE /\ UNCHANGED <<ended, emulator, fresh, read>>
      /\ cut' = cut \cup {c \in Client : call[c].pc = "flush"}
      /\ call' = [c \in Client |-> IF call[c].pc = "flush"
                                   THEN [call[c] EXCEPT !.pc = "snapshot"] ELSE call[c]]
      /\ AnnounceExit
  BY DEF Reap, ResetProcessState
<1>2. call \in [Client -> Call] /\ attached \subseteq Client
  BY DEF GapInv, StreamType, PauseInv, SocketType
<1>3. /\ call' \in [Client -> Call]
      /\ \A c \in Client : call[c].pc # "flush" => call'[c] = call[c]
      /\ \A c \in Client : call'[c].target = call[c].target /\ call'[c].pc # "flush"
      /\ \A c \in Client : call[c].pc # "none" => call'[c].pc # "none"
  BY <1>1, <1>2 DEF Call
<1>4. StreamType'
  <2>1. <<>> \in Seq(Frame)
    OBVIOUS
  <2>. QED  BY <1>1, <1>3, <2>1 DEF GapInv, StreamType
<1>5. /\ attached' = attached
      /\ \A c \in attached, k \in Nat : Contains(got[c], k) => Contains(got'[c], k)
  <2>1. CASE exited
    BY <1>1, <2>1 DEF AnnounceExit, sockets
  <2>2. CASE ~exited
    <3>1. <<Exit>> \in Seq(Frame)
      BY ConstantsAssumption DEF Exit, Frame
    <3>2. Broadcast(<<Exit>>)
      BY <1>1, <2>2 DEF AnnounceExit
    <3>. QED  BY <3>1, <3>2, BroadcastSends DEF GapInv
  <2>. QED  BY <2>1, <2>2
<1>6. PipeInOrder'
  BY <1>1 DEF PipeInOrder
<1>7. ScreenInOrder'
  BY <1>1, <1>3 DEF GapInv, GapFacts, ScreenInOrder, Follows
<1>8. SentSince'
  BY <1>1, <1>2, <1>3, <1>5 DEF GapInv, GapFacts, SentSince
<1>9. ShownBefore'
  <2>1. \A c \in attached : c \notin cut' => c \notin cut /\ call'[c] = call[c]
    BY <1>1, <1>2, <1>3
  <2>2. ASSUME NEW c \in attached, ~call'[c].late, c \notin cut'
        PROVE  /\ call'[c].pc = "snapshot" => call'[c].target <= Len(emulator)
               /\ call'[c].pc = "done" => /\ call'[c].target <= Len(call'[c].snapshot)
                                          /\ Follows(call'[c].snapshot, 0)
    BY <2>1, <2>2 DEF GapInv, GapFacts, ShownBefore
  <2>. QED  BY <1>1, <1>5, <2>2 DEF ShownBefore, Follows
<1>. QED  BY <1>4, <1>6, <1>7, <1>8, <1>9 DEF GapFacts

LEMMA NoCallType == NoCall \in Call /\ NoCall.pc = "none"
<1>. <<>> \in Seq(Frame)
  OBVIOUS
<1>. QED  BY DEF NoCall, Call

LEMMA AttachKeepsGap ==
  ASSUME GapInv, NEW c \in Client, Attach(c)
  PROVE  StreamType' /\ GapFacts'
<1>1. /\ child # "reaped" /\ fresh' = FALSE /\ attached' = attached \cup {c}
      /\ scheduled' = (scheduled \/ queue # <<>>)
      /\ got' = [got EXCEPT ![c] = <<>>] /\ cut' = cut \ {c}
      /\ UNCHANGED <<child, made, ended, pipe, queue, processed, emulator, exited, read>>
  BY DEF Attach, Register, sub, stdout
<1>2. /\ queue \in Seq(Frame) /\ Len(queue) \in Nat /\ processed \in Nat /\ read \in Nat
      /\ call \in [Client -> Call] /\ attached \subseteq Client
      /\ got \in [Client -> Seq(Frame)] /\ scheduled \in BOOLEAN
  BY ConstantsAssumption DEF GapInv, StreamType, PauseInv, SocketType, ExitInv
<1>3. processed = Len(emulator) /\ processed + Len(queue) = read
  BY <1>1 DEF GapInv, GapFacts, ScreenInOrder
<1>4. PICK begun \in Call :
        /\ begun.target = read /\ call' = [call EXCEPT ![c] = begun]
        /\ begun.pc = IF queue = <<>> THEN "snapshot" ELSE "flush"
  <2>2. call' = [call EXCEPT ![c] =
                  [pc |-> IF queue = <<>> THEN "snapshot" ELSE "flush",
                   target |-> processed + Len(queue), late |-> FALSE, snapshot |-> <<>>]]
    BY DEF Attach
  <2>3. <<>> \in Seq(Frame) /\ processed + Len(queue) \in Nat
    BY <1>2
  <2>4. [pc |-> IF queue = <<>> THEN "snapshot" ELSE "flush",
         target |-> processed + Len(queue), late |-> FALSE, snapshot |-> <<>>] \in Call
    BY <2>3 DEF Call
  <2>. QED  BY <1>3, <2>2, <2>4
<1>5. /\ call' \in [Client -> Call] /\ call'[c] = begun /\ got'[c] = <<>>
      /\ \A d \in Client \ {c} : call'[d] = call[d] /\ got'[d] = got[d]
  BY <1>1, <1>2, <1>4
<1>6. StreamType'
  BY <1>1, <1>2, <1>5 DEF GapInv, StreamType
<1>7. PipeInOrder'
  BY <1>1 DEF GapInv, GapFacts, PipeInOrder
<1>8. ScreenInOrder'
  BY <1>1 DEF GapInv, GapFacts, ScreenInOrder, Follows
<1>9. SentSince'
  <2>1. begun.pc # "none" /\ \A k \in Nat : ~(begun.target < k /\ k <= read)
    BY <1>2, <1>4
  <2>. QED  BY <1>1, <1>2, <1>5, <2>1 DEF GapInv, GapFacts, SentSince
<1>10. ShownBefore'
  <2>1. begun.pc # "done" /\ (begun.pc = "snapshot" => begun.target <= Len(emulator))
    <3>1. queue = <<>> => Len(queue) = 0
      OBVIOUS
    <3>. QED  BY <1>2, <1>3, <1>4, <3>1
  <2>2. ASSUME NEW d \in attached', ~call'[d].late, d \notin cut'
        PROVE  /\ call'[d].pc = "snapshot" => call'[d].target <= Len(emulator)
               /\ call'[d].pc = "done" => /\ call'[d].target <= Len(call'[d].snapshot)
                                          /\ Follows(call'[d].snapshot, 0)
    <3>1. CASE d = c
      BY <1>5, <2>1, <3>1
    <3>2. CASE d # c
      <4>1. d \in attached /\ d \notin cut /\ call'[d] = call[d]
        BY <1>1, <1>2, <1>5, <2>2, <3>2
      <4>. QED  BY <2>2, <4>1 DEF GapInv, GapFacts, ShownBefore
    <3>. QED  BY <3>1, <3>2
  <2>. QED  BY <1>1, <2>2 DEF ShownBefore, Follows
<1>. QED  BY <1>6, <1>7, <1>8, <1>9, <1>10 DEF GapFacts

LEMMA SnapshotKeepsGap ==
  ASSUME GapInv, NEW c \in Client, AttachTimeout(c) \/ TakeSnapshot(c)
  PROVE  StreamType' /\ GapFacts'
<1>1. /\ UNCHANGED <<child, made, ended, pipe, queue, processed, scheduled, emulator,
                     exited, attached, fresh, read, got, cut>>
      /\ call[c].pc # "none"
  BY DEF AttachTimeout, TakeSnapshot, sub, stdout, screen, sockets, history
<1>2. /\ call \in [Client -> Call] /\ attached \subseteq Client /\ emulator \in Seq(Frame)
  BY DEF GapInv, StreamType, PauseInv, SocketType
<1>3. /\ call' \in [Client -> Call]
      /\ \A d \in Client \ {c} : call'[d] = call[d]
      /\ call'[c].pc # "flush"
      /\ c \in attached => /\ call'[c].target = call[c].target /\ call'[c].pc # "none"
                           /\ \/ call'[c].late
                              \/ /\ call[c].pc = "snapshot" /\ call'[c].pc = "done"
                                 /\ call'[c].snapshot = emulator /\ call'[c].late = call[c].late
  <2>1. CASE AttachTimeout(c)
    <3>1. call' = [call EXCEPT ![c] = [@ EXCEPT !.pc = "snapshot", !.late = TRUE]]
      BY <2>1 DEF AttachTimeout
    <3>. QED  BY <1>2, <3>1 DEF Call
  <2>2. CASE TakeSnapshot(c) /\ c \in attached
    <3>1. /\ call' = [call EXCEPT ![c] = [@ EXCEPT !.pc = "done", !.snapshot = emulator]]
          /\ call[c].pc = "snapshot"
      BY <2>2 DEF TakeSnapshot
    <3>. QED  BY <1>2, <3>1 DEF Call
  <2>3. CASE TakeSnapshot(c) /\ c \notin attached
    <3>1. call' = [call EXCEPT ![c] = NoCall]
      BY <2>3 DEF TakeSnapshot
    <3>. QED  BY <1>2, <2>3, <3>1, NoCallType
  <2>. QED  BY <2>1, <2>2, <2>3
<1>4. StreamType'
  BY <1>1, <1>3 DEF GapInv, StreamType
<1>5. PipeInOrder'
  BY <1>1 DEF GapInv, GapFacts, PipeInOrder
<1>6. ScreenInOrder'
  BY <1>1, <1>3 DEF GapInv, GapFacts, ScreenInOrder, Follows
<1>7. SentSince'
  <2>1. \A d \in attached : call'[d].target = call[d].target /\ call'[d].pc # "none"
    BY <1>2, <1>3 DEF GapInv, GapFacts, SentSince
  <2>. QED  BY <1>1, <2>1 DEF GapInv, GapFacts, SentSince
<1>8. ShownBefore'
  <2>1. ASSUME NEW d \in attached, ~call'[d].late, d \notin cut
        PROVE  /\ call'[d].pc = "snapshot" => call'[d].target <= Len(emulator)
               /\ call'[d].pc = "done" => /\ call'[d].target <= Len(call'[d].snapshot)
                                          /\ Follows(call'[d].snapshot, 0)
    <3>1. CASE d = c
      <4>1. call[c].target <= Len(emulator) /\ Follows(emulator, 0)
        BY <1>3, <2>1, <3>1 DEF GapInv, GapFacts, ShownBefore, ScreenInOrder
      <4>. QED  BY <1>3, <2>1, <3>1, <4>1
    <3>2. CASE d # c
      <4>1. call'[d] = call[d]
        BY <1>2, <1>3, <3>2
      <4>. QED  BY <2>1, <4>1 DEF GapInv, GapFacts, ShownBefore
    <3>. QED  BY <3>1, <3>2
  <2>. QED  BY <1>1, <2>1 DEF ShownBefore, Follows
<1>. QED  BY <1>4, <1>5, <1>6, <1>7, <1>8 DEF GapFacts

\* A client leaves or reads its socket.
LEMMA LeavingKeepsGap ==
  ASSUME GapInv, NEW c \in Client, Detach(c) \/ SocketClose(c) \/ ClientReads(c)
  PROVE  StreamType' /\ GapFacts'
<1>1. UNCHANGED <<child, made, ended, pipe, queue, processed, scheduled, emulator, exited,
                  fresh, read>>
  BY DEF Detach, SocketClose, ClientReads, Forget, sub, screen, history
<1>2. /\ call \in [Client -> Call] /\ attached \subseteq Client
      /\ got \in [Client -> Seq(Frame)] /\ cut \subseteq Client
  BY DEF GapInv, StreamType, PauseInv, SocketType, ExitInv
<1>3. CASE ClientReads(c)
  <2>1. UNCHANGED <<attached, call, got, cut>>
    BY <1>3 DEF ClientReads, history
  <2>. QED  BY <1>1, <2>1, GapStays DEF GapInv, StreamType
<1>4. CASE Detach(c) \/ SocketClose(c)
  <2>1. attached' = attached \ {c} /\ Forget(c)
    BY <1>4 DEF Detach, SocketClose, DetachClient
  <2>2. /\ call' \in [Client -> Call] /\ cut' = cut \ {c}
        /\ \A d \in Client \ {c} : call'[d] = call[d] /\ got'[d] = got[d]
        /\ \A d \in Client : call'[d].pc = "flush" => call[d].pc = "flush"
    BY <1>2, <2>1, NoCallType DEF Forget
  <2>3. GapFacts'
    BY <1>1, <1>2, <2>1, <2>2, GapStays
  <2>. QED  BY <1>1, <2>2, <2>3 DEF GapInv, StreamType
<1>. QED  BY <1>3, <1>4

LEMMA GapNext == GapInv /\ [Next]_vars => GapInv'
<1>. SUFFICES ASSUME GapInv, [Next]_vars PROVE GapInv'
  OBVIOUS
<1>1. MadeOK' /\ PauseInv' /\ ExitInv'
  BY MadeNext, PauseNext, ExitNext DEF GapInv
<1>2. StreamType' /\ GapFacts'
  <2>1. CASE ReadDropped
    <3>1. child = "reaped"
          /\ UNCHANGED <<child, ended, queue, processed, scheduled, emulator, exited,
                         attached, fresh, call, read, got, cut>>
      BY <2>1 DEF ReadDropped, sub, screen, sockets, history
    <3>. QED  BY <3>1 DEF GapInv, GapFacts, StreamType, PipeInOrder, ScreenInOrder,
                          SentSince, ShownBefore, Follows, Contains
  <2>2. CASE UNCHANGED vars
    BY <2>2, GapStays DEF vars, GapInv, StreamType
  <2>. QED  BY <2>1, <2>2, WriteKeepsGap, ReadChunkKeepsGap, ProcessKeepsGap, ReapKeepsGap,
               AttachKeepsGap, SnapshotKeepsGap, LeavingKeepsGap DEF Next
<1>. QED  BY <1>1, <1>2 DEF GapInv

LEMMA GapInit == Init => GapInv
<1>. SUFFICES ASSUME Init PROVE GapInv
  OBVIOUS
<1>. <<>> \in Seq(Frame) /\ Len(<<>>) = 0
  OBVIOUS
<1>1. PauseInv
  BY ConstantsAssumption DEF Init, PauseInv, SocketType, Awaited
<1>2. ExitInv
  BY EmptyHasNoExit DEF Init, ExitInv
<1>3. MadeOK /\ StreamType
  <2>1. call \in [Client -> Call]
    BY NoCallType DEF Init
  <2>2. 0 \in 0..MaxData
    BY ConstantsAssumption
  <2>. QED  BY <2>1, <2>2 DEF Init, MadeOK, StreamType
<1>4. GapFacts
  BY DEF Init, GapFacts, PipeInOrder, ScreenInOrder, SentSince, ShownBefore, Follows
<1>. QED  BY <1>1, <1>2, <1>3, <1>4 DEF GapInv

\* The fields of the session and of the attach calls keep their types: a snapshot
\* boundary is a number, and no more is read than was written.
THEOREM StreamTypeCorrect == Spec => []TypeOK
<1>1. GapInv => TypeOK
  BY DEF GapInv, MadeOK, PauseInv, SocketType, ExitInv, StreamType, TypeOK
<1>. QED  BY <1>1, GapInit, GapNext, PTL DEF Spec

\* Nothing is left out: what has been read of the output is in a client's snapshot
\* or has been sent to it, for any number of clients, any amount of output and any
\* size of the buffers.  A frame may be in both, as the queue may pass the boundary
\* before the snapshot is taken; attaches whose boundary timed out, or that the end
\* of the process cut short, are excepted, and the order is not spoken of.
THEOREM NothingMissed == Spec => []NoGap
<1>1. GapInv => NoGap
  <2>. SUFFICES ASSUME GapInv, NEW c \in attached, call[c].pc = "done", ~call[c].late,
                       c \notin cut, NEW k \in 1..read
                PROVE  k \in ToSet(call[c].snapshot) \cup ToSet(got[c])
    BY DEF NoGap
  <2>1. /\ c \in Client /\ call[c].target \in Nat /\ call[c].snapshot \in Seq(Frame)
        /\ got[c] \in Seq(Frame) /\ k \in Nat /\ 1 <= k /\ k <= read
    <3>1. c \in Client /\ call[c] \in Call /\ got[c] \in Seq(Frame) /\ read \in Nat
      BY ConstantsAssumption DEF GapInv, PauseInv, SocketType, StreamType, ExitInv
    <3>. QED  BY <3>1 DEF Call
  <2>2. /\ DOMAIN call[c].snapshot = 1..Len(call[c].snapshot) /\ Len(call[c].snapshot) \in Nat
        /\ DOMAIN got[c] = 1..Len(got[c])
    BY <2>1
  <2>3. CASE k <= call[c].target
    <3>1. k \in 1..Len(call[c].snapshot) /\ call[c].snapshot[k] = 0 + k /\ 0 + k = k
      BY <2>1, <2>2, <2>3 DEF GapInv, GapFacts, ShownBefore, Follows
    <3>. QED  BY <2>2, <3>1 DEF ToSet
  <2>4. CASE ~(k <= call[c].target)
    <3>1. Contains(got[c], k)
      BY <2>1, <2>4 DEF GapInv, GapFacts, SentSince
    <3>. QED  BY <2>2, <3>1 DEF Contains, ToSet
  <2>. QED  BY <2>3, <2>4
<1>. QED  BY <1>1, GapInit, GapNext, PTL DEF Spec

==============================================================================
