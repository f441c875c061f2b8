-------------------------- MODULE SessionInputProofs --------------------------
(***************************************************************************)
(* Proofs about the input of a session for any number of frames and any    *)
(* size of the queues, the pipe and the chunks.                            *)
(***************************************************************************)
EXTENDS SessionInput, SequenceTheorems, TLAPS

------------------------------------------------------------------------------
(* The queue and the stream                                                *)

\* What one flush does, whatever it finds: if the stream was never full it has taken
\* all of the queue, and otherwise a listener waits for it to drain.
LEMMA Flush ==
  ASSUME NEW q \in Seq(Nat), NEW listening \in BOOLEAN,
         wire \in Seq(Nat), repeated \in BOOLEAN, FlushQueue(q, listening)
  PROVE  /\ queue' \in Seq(Nat) /\ wire' \in Seq(Nat)
         /\ armed' \in BOOLEAN /\ repeated' \in BOOLEAN
         /\ queue' # <<>> => armed'
         /\ ~repeated' => ~repeated /\ queue' = <<>> /\ wire' = wire \o q
<1>. DEFINE n == Leaving(q, wire)
            stuck == n < Len(q)
            end == IF stuck THEN n + 1 ELSE n
<1>1. Len(q) \in Nat /\ Len(wire) \in Nat /\ Easy \in Int
  BY SizesAssumption, LenProperties DEF Easy
<1>2. n \in 0..Len(q)
  BY <1>1 DEF Leaving
<1>3. n + 1 \in Int /\ end \in 0..Len(q)
  BY <1>1, <1>2
<1>4. /\ queue' = SubSeq(q, n + 1, Len(q)) /\ wire' = wire \o SubSeq(q, 1, end)
      /\ armed' = (listening \/ stuck) /\ repeated' = (repeated \/ stuck)
  BY DEF FlushQueue
<1>. HIDE DEF n, stuck, end
<1>5. stuck \in BOOLEAN
  BY DEF stuck
<1>6. \A i \in 1..Len(q) : q[i] \in Nat
  BY ElementOfSeq
<1>7. queue' \in Seq(Nat) /\ (~stuck => queue' = <<>>)
  <2>1. \A i \in (n + 1)..Len(q) : q[i] \in Nat
    BY <1>1, <1>2, <1>6
  <2>2. SubSeq(q, n + 1, Len(q)) \in Seq(Nat)
    BY <1>1, <1>3, <2>1, SubSeqProperties
  <2>3. ~stuck => Len(q) < n + 1
    BY <1>1, <1>2 DEF stuck
  <2>. QED
    BY <1>1, <1>3, <1>4, <2>2, <2>3, SubSeqEmpty
<1>8. wire' \in Seq(Nat) /\ (~stuck => wire' = wire \o q)
  <2>1. \A i \in 1..end : q[i] \in Nat
    BY <1>1, <1>3, <1>6
  <2>2. SubSeq(q, 1, end) \in Seq(Nat)
    BY <1>1, <1>3, <2>1, SubSeqProperties
  <2>3. ~stuck => end = Len(q)
    BY <1>1, <1>2 DEF stuck, end
  <2>. QED
    BY <1>4, <2>2, <2>3, ConcatProperties, SubSeqFull
<1>. QED
  BY <1>4, <1>5, <1>7, <1>8

------------------------------------------------------------------------------
(* Input in step                                                           *)
(*                                                                         *)
(* What the property says of chunk, wire and queue together holds because  *)
(* of each part: the chunk goes on from what the decoder expects, the wire *)
(* from the chunk, and the queue is empty as long as the stream took all.  *)

InputType ==
  /\ session \in {"live", "disposed", "reset", "crashed"}
  /\ queue \in Seq(Nat) /\ armed \in BOOLEAN /\ wire \in Seq(Nat)
  /\ chunk \in Seq(Nat) /\ expect \in Nat \ {0} /\ wedged \in BOOLEAN
  /\ sent \in Seq(Kinds) /\ repeated \in BOOLEAN

GoesOn(s, first) == \A i \in 1..Len(s) : s[i] = first + i - 1

InStepInv ==
  /\ ~repeated =>
       /\ ~wedged
       /\ GoesOn(chunk, expect) /\ GoesOn(wire, expect + Len(chunk))
       /\ session = "live" =>
            queue = <<>> /\ expect + Len(chunk) + Len(wire) = 2 * Len(sent) + 1
  /\ session = "live" /\ queue # <<>> => armed

Inv == InputType /\ InStepInv

LEMMA InitInv == Init => Inv
<1>. SUFFICES ASSUME Init PROVE Inv
  OBVIOUS
<1>1. InputType
  <2>1. session \in {"live", "disposed", "reset", "crashed"} /\ expect \in Nat \ {0}
    BY DEF Init
  <2>2. <<>> \in Seq(Nat) /\ <<>> \in Seq(Kinds)
    BY EmptySeq
  <2>3. armed \in BOOLEAN /\ wedged \in BOOLEAN /\ repeated \in BOOLEAN
    BY DEF Init
  <2>. QED
    BY <2>1, <2>2, <2>3 DEF Init, InputType
<1>2. Len(<<>>) = 0 /\ GoesOn(<<>>, 1)
  BY DEF GoesOn
<1>3. GoesOn(chunk, expect) /\ GoesOn(wire, expect + Len(chunk))
  BY <1>2 DEF Init
<1>4. expect + Len(chunk) + Len(wire) = 2 * Len(sent) + 1
  BY <1>2 DEF Init
<1>. QED
  BY <1>1, <1>3, <1>4 DEF Init, Inv, InStepInv

\* The property from its parts.
LEMMA InvInStep == Inv => InputInStep
<1>. SUFFICES ASSUME Inv PROVE InputInStep
  OBVIOUS
<1>1. ASSUME session = "live", ~repeated
      PROVE  OnTheWay = [i \in 1..(2 * Len(sent) + 1 - expect) |-> expect + i - 1]
  <2>. DEFINE rest == [i \in 1..(2 * Len(sent) + 1 - expect) |-> expect + i - 1]
  <2>1. chunk \in Seq(Nat) /\ wire \in Seq(Nat) /\ expect \in Nat /\ sent \in Seq(Kinds)
        /\ queue = <<>> /\ Len(chunk) + Len(wire) = 2 * Len(sent) + 1 - expect
        /\ GoesOn(chunk, expect) /\ GoesOn(wire, expect + Len(chunk))
    <3>1. Len(chunk) \in Nat /\ Len(wire) \in Nat /\ Len(sent) \in Nat
      BY LenProperties DEF Inv, InputType
    <3>. QED
      BY <1>1, <3>1 DEF Inv, InputType, InStepInv
  <2>2. Len(chunk) \in Nat /\ Len(wire) \in Nat /\ Len(sent) \in Nat
    BY <2>1, LenProperties
  <2>3. OnTheWay = chunk \o wire
    BY <2>1, ConcatProperties, ConcatEmptySeq DEF OnTheWay
  <2>4. /\ chunk \o wire \in Seq(Nat)
        /\ Len(chunk \o wire) = 2 * Len(sent) + 1 - expect
        /\ \A i \in 1..Len(chunk) + Len(wire) : (chunk \o wire)[i] =
             IF i <= Len(chunk) THEN chunk[i] ELSE wire[i - Len(chunk)]
    BY <2>1, ConcatProperties
  <2>5. \A i \in 1..Len(chunk) + Len(wire) : (chunk \o wire)[i] = expect + i - 1
    BY <2>1, <2>2, <2>4 DEF GoesOn
  <2>6. DOMAIN (chunk \o wire) = 1..(2 * Len(sent) + 1 - expect)
    BY <2>4, LenProperties
  <2>7. chunk \o wire = [i \in DOMAIN (chunk \o wire) |-> (chunk \o wire)[i]]
    BY <2>4, LenProperties
  <2>. QED
    BY <2>1, <2>3, <2>5, <2>6, <2>7
<1>2. wedged => repeated
  BY DEF Inv, InputType, InStepInv
<1>3. session = "live" /\ queue # <<>> => armed
  BY DEF Inv, InStepInv
<1>. QED
  BY <1>1, <1>2, <1>3 DEF InputInStep

\* A frame of any kind: it is dropped whole, or goes after what was sent before.
LEMMA SendFrameInv ==
  ASSUME Inv, NEW kind \in Kinds, SendFrame(kind), session = "live", UNCHANGED session,
         UNCHANGED <<chunk, expect, wedged>>
  PROVE  Inv'
<1>1. CASE UNCHANGED <<queue, wire, armed, repeated, sent>>
  BY <1>1 DEF Inv, InputType, InStepInv, GoesOn
<1>2. CASE LET f == Len(sent) + 1 IN
             FlushQueue(queue \o <<2 * f - 1, 2 * f>>, armed) /\ sent' = Append(sent, kind)
  <2>. DEFINE f == Len(sent) + 1
              frame == <<2 * f - 1, 2 * f>>
              q == queue \o frame
  <2>1. f \in Nat /\ frame \in Seq(Nat) /\ Len(frame) = 2
        /\ frame[1] = 2 * f - 1 /\ frame[2] = 2 * f
    <3>1. Len(sent) \in Nat
      BY LenProperties DEF Inv, InputType
    <3>. QED
      BY <3>1
  <2>2. sent' \in Seq(Kinds) /\ Len(sent') = f
    BY <1>2 DEF Inv, InputType
  <2>3. q \in Seq(Nat)
    BY <2>1, ConcatProperties DEF Inv, InputType
  <2>4. FlushQueue(q, armed)
    BY <1>2
  <2>. HIDE DEF q, frame
  <2>5. /\ queue' \in Seq(Nat) /\ wire' \in Seq(Nat)
        /\ armed' \in BOOLEAN /\ repeated' \in BOOLEAN
        /\ queue' # <<>> => armed'
        /\ ~repeated' => ~repeated /\ queue' = <<>> /\ wire' = wire \o q
    BY <2>3, <2>4, Flush DEF Inv, InputType
  <2>6. InputType'
    BY <2>2, <2>5 DEF Inv, InputType
  <2>7. ASSUME ~repeated'
        PROVE  ~wedged' /\ GoesOn(chunk', expect') /\ GoesOn(wire', expect' + Len(chunk'))
               /\ queue' = <<>> /\ expect' + Len(chunk') + Len(wire') = 2 * Len(sent') + 1
    <3>1. ~repeated /\ queue' = <<>> /\ wire' = wire \o q
      BY <2>5, <2>7
    <3>2. ~wedged /\ GoesOn(chunk, expect) /\ GoesOn(wire, expect + Len(chunk))
          /\ queue = <<>> /\ expect + Len(chunk) + Len(wire) = 2 * Len(sent) + 1
      BY <3>1 DEF Inv, InStepInv
    <3>9. \A i \in 1..Len(wire) : wire[i] = expect + Len(chunk) + i - 1
      BY <3>2 DEF GoesOn
    <3>3. q = frame
      BY <2>1, <3>2, ConcatEmptySeq DEF q
    <3>4. /\ Len(chunk) \in Nat /\ Len(wire) \in Nat /\ Len(sent) \in Nat
          /\ expect \in Nat
      BY LenProperties DEF Inv, InputType
    <3>5. /\ Len(wire') = Len(wire) + 2
          /\ \A i \in 1..Len(wire) + 2 : wire'[i] =
               IF i <= Len(wire) THEN wire[i] ELSE frame[i - Len(wire)]
      <4>1. wire \in Seq(Nat)
        BY DEF Inv, InputType
      <4>2. /\ Len(wire \o frame) = Len(wire) + Len(frame)
            /\ \A i \in 1..Len(wire) + Len(frame) : (wire \o frame)[i] =
                 IF i <= Len(wire) THEN wire[i] ELSE frame[i - Len(wire)]
        BY <2>1, <4>1, ConcatProperties
      <4>3. wire' = wire \o frame
        BY <3>1, <3>3
      <4>. QED
        BY <2>1, <4>2, <4>3
    <3>6. expect + Len(chunk) + Len(wire) = 2 * f - 1
      BY <3>2, <3>4
    <3>7. \A i \in 1..Len(wire) + 2 : wire'[i] = expect + Len(chunk) + i - 1
      <4>. SUFFICES ASSUME NEW i \in 1..Len(wire) + 2
                    PROVE  wire'[i] = expect + Len(chunk) + i - 1
        OBVIOUS
      <4>1. CASE i <= Len(wire)
        <5>1. i \in 1..Len(wire) /\ wire'[i] = wire[i]
          BY <4>1, <3>4, <3>5
        <5>. QED
          BY <5>1, <3>9
      <4>2. CASE i = Len(wire) + 1
        BY <4>2, <2>1, <3>4, <3>5, <3>6
      <4>3. CASE i = Len(wire) + 2
        BY <4>3, <2>1, <3>4, <3>5, <3>6
      <4>. QED
        BY <3>4, <4>1, <4>2, <4>3
    <3>. QED
      <4>1. chunk' = chunk /\ expect' = expect /\ ~wedged'
        BY <3>2
      <4>2. GoesOn(chunk', expect') /\ GoesOn(wire', expect' + Len(chunk'))
        BY <3>2, <3>5, <3>7, <4>1 DEF GoesOn
      <4>3. expect' + Len(chunk') + Len(wire') = 2 * Len(sent') + 1
        BY <2>1, <2>2, <3>4, <3>5, <3>6, <4>1
      <4>. QED
        BY <3>1, <4>1, <4>2, <4>3
  <2>. QED
    BY <2>5, <2>6, <2>7 DEF Inv, InStepInv
<1>. QED
  BY <1>1, <1>2 DEF SendFrame

\* What an action does that touches neither the queue, the stream nor the decoder.
LEMMA InvSame ==
  ASSUME Inv, UNCHANGED <<session, queue, armed, wire, chunk, expect, wedged, sent, repeated>>
  PROVE  Inv'
  BY DEF Inv, InputType, InStepInv, GoesOn

\* resetProcessState: the queue is forgotten with the session.
LEMMA ResetInv ==
  ASSUME Inv, ResetProcessState, session' \in {"disposed", "reset"},
         UNCHANGED <<wire, chunk, expect, wedged, sent, repeated>>
  PROVE  Inv'
  BY EmptySeq DEF Inv, InputType, InStepInv, GoesOn, ResetProcessState

LEMMA DrainInv == ASSUME Inv, Drain PROVE Inv'
<1>1. session = "live" /\ UNCHANGED <<session, chunk, expect, wedged, sent>>
      /\ FlushQueue(queue, FALSE)
  BY DEF Drain, Idle, Subprocess, decoderVars
<1>2. /\ queue' \in Seq(Nat) /\ wire' \in Seq(Nat)
      /\ armed' \in BOOLEAN /\ repeated' \in BOOLEAN
      /\ queue' # <<>> => armed'
      /\ ~repeated' => ~repeated /\ queue' = <<>> /\ wire' = wire \o queue
  BY <1>1, Flush DEF Inv, InputType
<1>3. InputType'
  BY <1>1, <1>2 DEF Inv, InputType
<1>4. ASSUME ~repeated' PROVE wire' = wire /\ queue' = queue
  <2>1. queue = <<>> /\ queue' = <<>> /\ wire' = wire \o queue /\ wire \in Seq(Nat)
    BY <1>1, <1>2, <1>4 DEF Inv, InputType, InStepInv
  <2>. QED
    BY <2>1, ConcatEmptySeq
<1>5. ~repeated' => ~repeated
  BY <1>2
<1>. QED
  BY <1>1, <1>2, <1>3, <1>4, <1>5 DEF Inv, InStepInv, GoesOn

\* The pipe keeps what it holds when the daemon is gone: the first of the wire.
LEMMA DaemonEndsInv == ASSUME Inv, DaemonEnds PROVE Inv'
<1>. DEFINE n == IF Len(wire) < PipeSize THEN Len(wire) ELSE PipeSize
<1>1. /\ session' = "crashed" /\ queue' = <<>> /\ armed' = FALSE
      /\ wire' = SubSeq(wire, 1, n)
      /\ UNCHANGED <<chunk, expect, wedged, sent, repeated>>
  BY DEF DaemonEnds, ResetProcessState, Subprocess, decoderVars
<1>2. wire \in Seq(Nat) /\ Len(wire) \in Nat /\ n \in 0..Len(wire)
  BY LenProperties, SizesAssumption DEF Inv, InputType
<1>. HIDE DEF n
<1>3. /\ wire' \in Seq(Nat) /\ Len(wire') = n
      /\ \A i \in 1..n : wire'[i] = wire[i]
  <2>1. \A i \in 1..Len(wire) : wire[i] \in Nat
    BY <1>2, ElementOfSeq
  <2>2. \A i \in 1..n : wire[i] \in Nat
    BY <1>2, <2>1
  <2>3. /\ SubSeq(wire, 1, n) \in Seq(Nat)
        /\ Len(SubSeq(wire, 1, n)) = IF 1 <= n THEN n - 1 + 1 ELSE 0
        /\ \A i \in 1..n - 1 + 1 : SubSeq(wire, 1, n)[i] = wire[1 + i - 1]
    BY <1>2, <2>2, SubSeqProperties
  <2>. QED
    BY <1>1, <1>2, <2>3
<1>4. ASSUME NEW first, GoesOn(wire, first) PROVE GoesOn(wire', first)
  <2>1. \A i \in 1..n : i \in 1..Len(wire) /\ wire'[i] = wire[i]
    BY <1>2, <1>3
  <2>2. \A i \in 1..n : wire'[i] = first + i - 1
    BY <1>4, <2>1 DEF GoesOn
  <2>. QED
    BY <1>3, <2>2 DEF GoesOn
<1>5. InputType'
  BY <1>1, <1>3, EmptySeq DEF Inv, InputType
<1>. QED
  BY <1>1, <1>4, <1>5 DEF Inv, InStepInv

\* A chunk of stdin is the first of the wire, so that it goes on from the decoder.
LEMMA ReadChunkInv == ASSUME Inv, ReadChunk PROVE Inv'
<1>1. PICK n \in 1..Len(wire) :
        /\ wire' = SubSeq(wire, n + 1, Len(wire))
        /\ \/ ~wedged /\ chunk' = SubSeq(wire, 1, n) /\ UNCHANGED wedged
           \/ /\ wedged \/ ~InStep(SubSeq(wire, 1, n))
              /\ chunk' = <<>> /\ wedged' = TRUE
  BY DEF ReadChunk
<1>2. chunk = <<>> /\ UNCHANGED <<session, queue, armed, expect, sent, repeated>>
  BY DEF ReadChunk, Free, daemonVars
<1>3. /\ wire \in Seq(Nat) /\ Len(wire) \in Nat /\ expect \in Nat /\ n \in Nat
      /\ \A i \in 1..Len(wire) : wire[i] \in Nat
  <2>1. wire \in Seq(Nat) /\ expect \in Nat
    BY DEF Inv, InputType
  <2>. QED
    BY <2>1, ElementOfSeq, LenProperties
<1>. DEFINE head == SubSeq(wire, 1, n)
            rest == SubSeq(wire, n + 1, Len(wire))
<1>4. head \in Seq(Nat) /\ Len(head) = n /\ \A i \in 1..n : head[i] = wire[i]
  <2>1. \A i \in 1..n : wire[i] \in Nat
    BY <1>3
  <2>2. /\ head \in Seq(Nat)
        /\ Len(head) = IF 1 <= n THEN n - 1 + 1 ELSE 0
        /\ \A i \in 1..n - 1 + 1 : head[i] = wire[1 + i - 1]
    BY <1>3, <2>1, SubSeqProperties
  <2>. QED
    BY <1>3, <2>2
<1>5. rest \in Seq(Nat) /\ Len(rest) = Len(wire) - n
      /\ \A i \in 1..Len(wire) - n : rest[i] = wire[n + i]
  <2>1. \A i \in n + 1..Len(wire) : wire[i] \in Nat
    BY <1>3
  <2>2. /\ rest \in Seq(Nat)
        /\ Len(rest) = IF n + 1 <= Len(wire) THEN Len(wire) - (n + 1) + 1 ELSE 0
        /\ \A i \in 1..Len(wire) - (n + 1) + 1 : rest[i] = wire[n + 1 + i - 1]
    BY <1>3, <2>1, SubSeqProperties
  <2>. QED
    BY <1>3, <2>2
<1>. HIDE DEF head, rest
<1>6. wire' = rest /\ (chunk' = head \/ chunk' = <<>>) /\ wedged' \in BOOLEAN
  BY <1>1 DEF head, rest, Inv, InputType
<1>7. InputType'
  BY <1>2, <1>4, <1>5, <1>6, EmptySeq DEF Inv, InputType
<1>8. ASSUME ~repeated
      PROVE  /\ ~wedged' /\ GoesOn(chunk', expect) /\ GoesOn(wire', expect + Len(chunk'))
             /\ Len(chunk') + Len(wire') = Len(chunk) + Len(wire)
  <2>1. ~wedged /\ GoesOn(wire, expect + Len(chunk)) /\ Len(chunk) = 0
    BY <1>2, <1>8 DEF Inv, InStepInv
  <2>2. \A i \in 1..Len(wire) : wire[i] = expect + i - 1
    BY <1>3, <2>1 DEF GoesOn
  <2>3. \A i \in 1..n : head[i] = expect + i - 1
    <3>1. \A i \in 1..n : i \in 1..Len(wire) /\ head[i] = wire[i]
      BY <1>3, <1>4
    <3>. QED
      BY <2>2, <3>1
  <2>4. DOMAIN head = 1..n
    BY <1>4
  <2>5. InStep(head)
    BY <2>3, <2>4 DEF InStep
  <2>6. chunk' = head /\ ~wedged'
    BY <1>1, <2>1, <2>5 DEF head
  <2>7. GoesOn(head, expect)
    BY <1>4, <2>3 DEF GoesOn
  <2>8. \A i \in 1..Len(wire) - n : rest[i] = expect + n + i - 1
    BY <1>3, <1>5, <2>2
  <2>9. GoesOn(rest, expect + n)
    BY <1>5, <2>8 DEF GoesOn
  <2>10. Len(chunk') = n /\ Len(wire') = Len(wire) - n
    BY <1>4, <1>5, <1>6, <2>6
  <2>11. GoesOn(chunk', expect) /\ GoesOn(wire', expect + Len(chunk'))
    BY <1>6, <2>6, <2>7, <2>9, <2>10
  <2>. QED
    BY <1>3, <2>1, <2>6, <2>10, <2>11
<1>9. Len(chunk) \in Nat /\ Len(wire) \in Nat /\ Len(chunk') \in Nat /\ Len(wire') \in Nat
      /\ Len(sent) \in Nat
  BY <1>7, LenProperties DEF Inv, InputType
<1>10. expect' = expect /\ Len(sent') = Len(sent) /\ queue' = queue
       /\ (session' = "live" <=> session = "live") /\ (repeated' <=> repeated)
       /\ (armed' <=> armed)
  BY <1>2
<1>11. ASSUME ~repeated, session = "live"
       PROVE  queue' = <<>> /\ expect' + Len(chunk') + Len(wire') = 2 * Len(sent') + 1
  <2>1. queue = <<>> /\ expect + Len(chunk) + Len(wire) = 2 * Len(sent) + 1
    BY <1>11 DEF Inv, InStepInv
  <2>2. Len(chunk') + Len(wire') = Len(chunk) + Len(wire)
    BY <1>8, <1>11
  <2>. QED
    BY <1>3, <1>9, <1>10, <2>1, <2>2
<1>12. queue # <<>> /\ session = "live" => armed
  BY DEF Inv, InStepInv
<1>. QED
  BY <1>7, <1>8, <1>10, <1>11, <1>12 DEF Inv, InStepInv

\* The decoder takes the next buffer of the chunk.
LEMMA DecodeInv == ASSUME Inv, Decode PROVE Inv'
<1>1. /\ chunk # <<>> /\ Head(chunk) = expect /\ chunk' = Tail(chunk) /\ expect' = expect + 1
      /\ UNCHANGED <<session, queue, armed, wire, wedged, sent, repeated>>
  BY DEF Decode, daemonVars
<1>2. chunk \in Seq(Nat) /\ wire \in Seq(Nat) /\ expect \in Nat /\ sent \in Seq(Kinds)
  BY DEF Inv, InputType
<1>3. /\ Tail(chunk) \in Seq(Nat) /\ Len(chunk) \in Nat /\ Len(chunk) # 0
      /\ Len(Tail(chunk)) = Len(chunk) - 1
      /\ \A i \in 1..Len(Tail(chunk)) : Tail(chunk)[i] = chunk[i + 1]
  BY <1>1, <1>2, HeadTailProperties, EmptySeq
<1>4. Len(wire) \in Nat /\ Len(sent) \in Nat
  BY <1>2, LenProperties
<1>5. InputType'
  BY <1>1, <1>2, <1>3 DEF Inv, InputType
<1>6. ASSUME GoesOn(chunk, expect) PROVE GoesOn(chunk', expect')
  BY <1>1, <1>2, <1>3, <1>6 DEF GoesOn
<1>7. expect' + Len(chunk') = expect + Len(chunk)
  BY <1>1, <1>2, <1>3
<1>. QED
  BY <1>1, <1>5, <1>6, <1>7 DEF Inv, InStepInv

\* A buffer out of place in the chunk means that the stream was full before.
LEMMA DecodeGarbledInv == ASSUME Inv, DecodeGarbled PROVE Inv'
<1>1. /\ chunk # <<>> /\ Head(chunk) # expect /\ chunk' = <<>> /\ wedged' = TRUE
      /\ expect' \in {expect, expect + 1}
      /\ UNCHANGED <<session, queue, armed, wire, sent, repeated>>
  BY DEF DecodeGarbled, daemonVars
<1>2. InputType'
  <2>1. expect' \in Nat \ {0}
    BY <1>1 DEF Inv, InputType
  <2>. QED
    BY <1>1, <2>1, EmptySeq DEF Inv, InputType
<1>3. repeated
  <2>1. chunk \in Seq(Nat) /\ expect \in Nat
    BY DEF Inv, InputType
  <2>2. Len(chunk) \in Nat /\ Len(chunk) # 0 /\ Head(chunk) = chunk[1]
    BY <1>1, <2>1, HeadTailProperties, EmptySeq
  <2>3. GoesOn(chunk, expect) => chunk[1] = expect
    BY <2>1, <2>2 DEF GoesOn
  <2>. QED
    BY <1>1, <2>2, <2>3 DEF Inv, InputType, InStepInv
<1>. QED
  BY <1>1, <1>2, <1>3 DEF Inv, InStepInv

LEMMA InvNext == Inv /\ [Next]_vars => Inv'
<1>. SUFFICES ASSUME Inv, [Next]_vars PROVE Inv'
  OBVIOUS
<1>. USE DEF Subprocess, daemonVars, decoderVars
<1>1. CASE HandleReady
  <2>1. SendFrame("spawn") /\ session = "live" /\ UNCHANGED <<session, chunk, expect, wedged>>
    BY <1>1 DEF HandleReady, Idle
  <2>. QED
    BY <2>1, SendFrameInv DEF Kinds
<1>2. CASE SendChunk
  <2>1. SendFrame("write") /\ session = "live" /\ UNCHANGED <<session, chunk, expect, wedged>>
    BY <1>2 DEF SendChunk
  <2>. QED
    BY <2>1, SendFrameInv DEF Kinds
<1>3. CASE ResizeOrSignal
  <2>1. SendFrame("other") /\ session = "live" /\ UNCHANGED <<session, chunk, expect, wedged>>
    BY <1>3 DEF ResizeOrSignal, Idle
  <2>. QED
    BY <2>1, SendFrameInv DEF Kinds
<1>4. CASE Kill
  <2>1. CASE SendFrame("kill")
    <3>1. session = "live" /\ UNCHANGED <<session, chunk, expect, wedged>>
      BY <1>4 DEF Kill, Idle
    <3>. QED
      BY <2>1, <3>1, SendFrameInv DEF Kinds
  <2>2. CASE UNCHANGED <<queue, armed, wire, sent, repeated>>
    <3>1. UNCHANGED <<session, chunk, expect, wedged>>
      BY <1>4 DEF Kill
    <3>. QED
      BY <2>2, <3>1, InvSame
  <2>. QED
    BY <1>4, <2>1, <2>2 DEF Kill
<1>5. CASE Drain
  BY <1>5, DrainInv
<1>6. CASE Dispose \/ Reap
  <2>1. /\ ResetProcessState /\ session' \in {"disposed", "reset"}
        /\ UNCHANGED <<wire, chunk, expect, wedged, sent, repeated>>
    BY <1>6 DEF Dispose, Reap
  <2>. QED
    BY <2>1, ResetInv
<1>7. CASE DaemonEnds
  BY <1>7, DaemonEndsInv
<1>8. CASE ReadChunk
  BY <1>8, ReadChunkInv
<1>9. CASE Decode
  BY <1>9, DecodeInv
<1>10. CASE DecodeGarbled
  BY <1>10, DecodeGarbledInv
<1>11. CASE TreeKilled \/ Boot \/ DisposeDone \/ ChildDies \/ UNCHANGED vars
            \/ \E chunks \in 1..MaxFrames : Write(chunks)
  <2>1. UNCHANGED <<session, queue, armed, wire, chunk, expect, wedged, sent, repeated>>
    BY <1>11 DEF TreeKilled, Boot, DisposeDone, ChildDies, vars, Write
  <2>. QED
    BY <2>1, InvSame
<1>12. CASE FlushIdle \/ FlushAsync \/ WriteReturns \/ FlushSync
  <2>1. UNCHANGED <<session, queue, armed, wire, chunk, expect, wedged, sent, repeated>>
    BY <1>12 DEF FlushIdle, FlushAsync, WriteReturns, FlushSync
  <2>. QED
    BY <2>1, InvSame
<1>13. CASE PtyEnds \/ PtyExit \/ ExitTimer \/ EscalateTimer \/ ForceExitTimer \/ StdinEnds
  <2>1. UNCHANGED <<session, queue, armed, wire, chunk, expect, wedged, sent, repeated>>
    BY <1>13 DEF PtyEnds, PtyExit, ExitTimer, EscalateTimer, ForceExitTimer, StdinEnds
  <2>. QED
    BY <2>1, InvSame
<1>. QED
  BY <1>1, <1>2, <1>3, <1>4, <1>5, <1>6, <1>7, <1>8, <1>9, <1>10, <1>11, <1>12, <1>13
     DEF Next

\* Input reaches the decoder in order and once while the stream of stdin was never full
\* (flushSubprocessStdinQueue, PtySubprocessFrameDecoder.push), and a queue that waits
\* is awaited: for any number of frames and any sizes.
THEOREM InStepAlways == Spec => []InputInStep
<1>1. Inv /\ [Next]_vars => Inv'
  BY InvNext
<1>. QED
  BY InitInv, InvInStep, <1>1, PTL DEF Spec

------------------------------------------------------------------------------
(* Types                                                                   *)

Pieces == [frame : Nat, left : 1..ChunkSize]

\* A write that is being made is of the head of the backlog.
Flags ==
  /\ ready \in BOOLEAN /\ terminating \in BOOLEAN /\ fd \in BOOLEAN
  /\ stdinPaused \in BOOLEAN /\ lost \in BOOLEAN /\ failed \in BOOLEAN

Fields ==
  /\ todo \in 0..MaxFrames
  /\ child \in {"booting", "up", "ending", "gone"}
  /\ pty \in {"none", "running", "ended", "closed"}
  /\ backlog \in Seq(Pieces) /\ queued \in Int
  /\ flush \in {"idle", "due", "writing", "backoff"}
  /\ escalation \in {"none", "term", "kill"} /\ typed \in Seq(Nat)
  /\ flush = "writing" => backlog # <<>>

RestInv == Flags /\ Fields

\* The variables of RestInv that frames and decoding leave alone.
LEMMA SendFrameRest == ASSUME RestInv, NEW kind \in Kinds, SendFrame(kind) PROVE lost' \in BOOLEAN
  BY DEF RestInv, Flags, Fields, SendFrame

\* Writing a part of the head: what is left of the backlog, and what was typed.
LEMMA WroteRest ==
  ASSUME RestInv, backlog # <<>>, NEW n \in 0..Head(backlog).left, Wrote(n)
  PROVE  /\ backlog' \in Seq(Pieces) /\ queued' \in Int /\ typed' \in Seq(Nat)
         /\ stdinPaused' \in BOOLEAN /\ flush' \in {"idle", "due"} /\ failed' = failed
<1>1. /\ backlog \in Seq(Pieces) /\ queued \in Int /\ typed \in Seq(Nat)
      /\ stdinPaused \in BOOLEAN
  BY DEF RestInv, Flags, Fields
<1>2. Head(backlog) \in Pieces /\ Tail(backlog) \in Seq(Pieces) /\ Len(backlog) # 0
      /\ Len(backlog) \in Nat /\ Head(backlog) = backlog[1]
  BY <1>1, HeadTailProperties, EmptySeq
<1>3. Head(backlog).left \in 1..ChunkSize /\ Head(backlog).frame \in Nat /\ ChunkSize \in Nat
  BY <1>2, SizesAssumption DEF Pieces
<1>4. ASSUME n # Head(backlog).left
      PROVE  [backlog EXCEPT ![1].left = @ - n] \in Seq(Pieces)
  <2>. DEFINE piece == [backlog[1] EXCEPT !.left = @ - n]
  <2>1. Head(backlog).left - n \in 1..ChunkSize
    BY <1>3, <1>4
  <2>2. backlog[1] \in Pieces /\ backlog[1].left - n \in 1..ChunkSize
    BY <1>2, <2>1
  <2>3. piece \in Pieces
    BY <2>2 DEF Pieces
  <2>4. 1 \in 1..Len(backlog)
    BY <1>2
  <2>. HIDE DEF piece
  <2>5. [backlog EXCEPT ![1] = piece] \in Seq(Pieces)
    BY <1>1, <2>3, <2>4, ExceptSeq
  <2>. QED
    BY <2>5 DEF piece
<1>5. Rest(n) \in Seq(Pieces)
  BY <1>2, <1>4 DEF Rest
<1>6. typed' \in Seq(Nat)
  BY <1>1, <1>3, AppendProperties DEF Wrote
<1>7. queued' \in Int
  BY <1>1, <1>3 DEF Wrote
<1>8. stdinPaused' \in BOOLEAN
  BY <1>1 DEF Wrote, StaysPaused
<1>. QED
  BY <1>5, <1>6, <1>7, <1>8 DEF Wrote

LEMMA WriteErrorRest ==
  ASSUME RestInv, NEW paused \in BOOLEAN, WriteError(paused)
  PROVE  /\ backlog' \in Seq(Pieces) /\ queued' \in Int /\ typed' \in Seq(Nat)
         /\ stdinPaused' \in BOOLEAN /\ flush' = "idle" /\ failed' \in BOOLEAN
  BY EmptySeq DEF RestInv, Flags, Fields, WriteError

\* The handler of a complete frame.
LEMMA HandleFrameRest ==
  ASSUME RestInv, NEW f \in Nat, HandleFrame(f),
         UNCHANGED <<ready, terminating, todo, lost, child>>
  PROVE  RestInv'
<1>1. CASE HandleSpawn
  BY <1>1 DEF HandleSpawn, RestInv, Flags, Fields, writeVars
<1>2. CASE HandleWrite(f)
  <2>1. UNCHANGED <<failed, typed, pty, fd, escalation>>
    BY <1>2 DEF HandleWrite
  <2>2. CASE UNCHANGED <<backlog, queued, stdinPaused, flush>>
    BY <2>1, <2>2 DEF RestInv, Flags, Fields
  <2>3. CASE /\ backlog' = Append(backlog, [frame |-> f, left |-> ChunkSize])
             /\ queued' = queued + ChunkSize
             /\ stdinPaused' = Pauses(queued + ChunkSize)
             /\ flush' = IF flush = "idle" THEN "due" ELSE flush
    <3>1. [frame |-> f, left |-> ChunkSize] \in Pieces
      BY SizesAssumption DEF Pieces
    <3>2. backlog' \in Seq(Pieces) /\ backlog' # <<>>
      BY <2>3, <3>1, AppendProperties DEF RestInv, Flags, Fields
    <3>3. queued' \in Int
      BY <2>3, SizesAssumption DEF RestInv, Flags, Fields
    <3>4. stdinPaused' \in BOOLEAN
      BY <2>3 DEF Pauses, RestInv, Flags, Fields
    <3>5. flush' \in {"idle", "due", "writing", "backoff"}
      BY <2>3 DEF RestInv, Flags, Fields
    <3>. QED
      BY <2>1, <3>2, <3>3, <3>4, <3>5 DEF RestInv, Flags, Fields
  <2>. QED
    BY <1>2, <2>2, <2>3 DEF HandleWrite
<1>3. CASE HandleKill
  BY <1>3 DEF HandleKill, RestInv, Flags, Fields, writeVars
<1>4. CASE UNCHANGED <<writeVars, pty, fd, escalation>>
  BY <1>4 DEF RestInv, Flags, Fields, writeVars
<1>. QED
  BY <1>1, <1>2, <1>3, <1>4 DEF HandleFrame

LEMMA DecodeRest ==
  ASSUME Inv, RestInv, Decode \/ DecodeGarbled
  PROVE  RestInv'
<1>1. UNCHANGED <<ready, terminating, todo, lost, child>>
  BY DEF Decode, DecodeGarbled, daemonVars
<1>2. CASE KeepsPty
  BY <1>1, <1>2 DEF KeepsPty, RestInv, Flags, Fields, writeVars
<1>3. CASE expect % 2 = 0 /\ HandleFrame(expect \div 2)
  <2>1. expect \div 2 \in Nat
    <3>1. expect \in Nat
      BY DEF Inv, InputType
    <3>. QED
      BY <3>1
  <2>. QED
    BY <1>1, <1>3, <2>1, HandleFrameRest
<1>. QED
  BY <1>2, <1>3 DEF Decode, DecodeGarbled

\* A callback of the flush loop.
LEMMA FlushRest ==
  ASSUME RestInv, FlushIdle \/ FlushAsync \/ WriteReturns \/ FlushSync
  PROVE  RestInv'
<1>1. UNCHANGED <<ready, terminating, todo, lost, child, pty, fd, escalation>>
  BY DEF FlushIdle, FlushAsync, WriteReturns, FlushSync, daemonVars, processVars
<1>2. CASE FlushIdle \/ FlushAsync
  BY <1>1, <1>2 DEF FlushIdle, FlushAsync, RestInv, Flags, Fields
<1>3. CASE WriteReturns
  <2>0. flush = "writing" /\ backlog # <<>> /\ stdinPaused \in BOOLEAN
    BY <1>3 DEF WriteReturns, RestInv, Flags, Fields
  <2>1. ASSUME NEW n \in 0..Head(backlog).left, Wrote(n) PROVE RestInv'
    BY <1>1, <2>0, <2>1, WroteRest DEF RestInv, Flags, Fields
  <2>2. CASE flush' = "backoff" /\ UNCHANGED <<backlog, queued, stdinPaused, failed, typed>>
    BY <1>1, <2>2 DEF RestInv, Flags, Fields
  <2>3. CASE WriteError(stdinPaused)
    BY <1>1, <2>0, <2>3, WriteErrorRest DEF RestInv, Flags, Fields
  <2>. QED
    BY <1>3, <2>1, <2>2, <2>3 DEF WriteReturns
<1>4. CASE FlushSync
  <2>. DEFINE n == Head(backlog).left
  <2>0. backlog # <<>> /\ n \in Nat
    <3>1. backlog # <<>> /\ backlog \in Seq(Pieces)
      BY <1>4 DEF FlushSync, RestInv, Flags, Fields
    <3>2. Head(backlog) \in Pieces
      BY <3>1, HeadTailProperties
    <3>. QED
      BY <3>1, <3>2, SizesAssumption DEF Pieces
  <2>1. CASE Wrote(n)
    <3>1. n \in 0..Head(backlog).left
      BY <2>0
    <3>. QED
      BY <1>1, <2>0, <2>1, <3>1, WroteRest DEF RestInv, Flags, Fields
  <2>2. CASE WriteError(StaysPaused(queued - n))
    <3>1. StaysPaused(queued - n) \in BOOLEAN
      BY DEF StaysPaused, RestInv, Flags, Fields
    <3>. QED
      BY <1>1, <2>0, <2>2, <3>1, WriteErrorRest DEF RestInv, Flags, Fields
  <2>. QED
    BY <1>4, <2>1, <2>2 DEF FlushSync
<1>. QED
  BY <1>2, <1>3, <1>4

LEMMA RestNext == Inv /\ RestInv /\ [Next]_vars => RestInv'
<1>. SUFFICES ASSUME Inv, RestInv, [Next]_vars PROVE RestInv'
  OBVIOUS
<1>. USE DEF Subprocess, daemonVars, decoderVars, writeVars, processVars
<1>1. CASE HandleReady \/ SendChunk \/ ResizeOrSignal
  <2>1. PICK kind \in Kinds : SendFrame(kind)
    BY <1>1 DEF HandleReady, SendChunk, ResizeOrSignal, Kinds
  <2>2. Flags'
    <3>1. lost' \in BOOLEAN
      BY <2>1, SendFrameRest
    <3>. QED
      BY <1>1, <3>1 DEF HandleReady, SendChunk, ResizeOrSignal, RestInv, Flags
  <2>3. Fields'
    BY <1>1, SizesAssumption DEF HandleReady, SendChunk, ResizeOrSignal, RestInv, Fields
  <2>. QED
    BY <2>2, <2>3 DEF RestInv
<1>2. CASE Kill
  <2>1. lost' \in BOOLEAN
    BY <1>2, SendFrameRest DEF Kill, Kinds, RestInv, Flags, Fields
  <2>. QED
    BY <1>2, <2>1 DEF Kill, RestInv, Flags, Fields
<1>3. CASE Drain \/ Dispose \/ TreeKilled \/ Reap \/ DaemonEnds
           \/ \E chunks \in 1..MaxFrames : Write(chunks)
  <2>. USE DEF Drain, Dispose, TreeKilled, Reap, DaemonEnds, Write, ResetProcessState, RestInv
  <2>1. Flags'
    <3>1. ready' \in {ready, FALSE} /\ terminating' = terminating
          /\ UNCHANGED <<fd, stdinPaused, lost, failed>>
      BY <1>3
    <3>. QED
      BY <3>1 DEF Flags
  <2>2. Fields'
    <3>1. UNCHANGED <<pty, backlog, queued, flush, escalation, typed>>
          /\ child' \in {child, "gone"}
      BY <1>3
    <3>2. todo' = todo \/ todo' = 0 \/ todo' \in 1..MaxFrames
      BY <1>3
    <3>3. todo' \in 0..MaxFrames
      BY <3>2, SizesAssumption DEF Fields
    <3>. QED
      BY <3>1, <3>3 DEF Fields
  <2>. QED
    BY <2>1, <2>2
<1>4. CASE Boot \/ ReadChunk \/ PtyEnds \/ PtyExit \/ ExitTimer \/ DisposeDone \/ ChildDies
           \/ UNCHANGED vars
  <2>. USE DEF Boot, ReadChunk, PtyEnds, PtyExit, ExitTimer, DisposeDone, ChildDies,
               vars, RestInv
  <2>1. Flags'
    BY <1>4 DEF Flags
  <2>2. Fields'
    BY <1>4 DEF Fields
  <2>. QED
    BY <2>1, <2>2
<1>5. CASE EscalateTimer \/ ForceExitTimer
  BY <1>5 DEF EscalateTimer, ForceExitTimer, RestInv, Flags, Fields
<1>6. CASE StdinEnds
  <2>1. Flags'
    BY <1>6 DEF StdinEnds, RestInv, Flags
  <2>2. Fields'
    BY <1>6, EmptySeq DEF StdinEnds, RestInv, Fields
  <2>. QED
    BY <2>1, <2>2 DEF RestInv
<1>7. CASE Decode \/ DecodeGarbled
  BY <1>7, DecodeRest
<1>8. CASE FlushIdle \/ FlushAsync \/ WriteReturns \/ FlushSync
  BY <1>8, FlushRest
<1>. QED
  BY <1>1, <1>2, <1>3, <1>4, <1>5, <1>6, <1>7, <1>8 DEF Next

LEMMA RestInit == Init => RestInv
<1>. SUFFICES ASSUME Init PROVE RestInv
  OBVIOUS
<1>1. <<>> \in Seq(Pieces) /\ <<>> \in Seq(Nat)
  BY EmptySeq
<1>2. 0 \in 0..MaxFrames
  BY SizesAssumption
<1>3. Flags
  BY DEF Init, Flags
<1>4. Fields
  BY <1>1, <1>2 DEF Init, Fields
<1>. QED
  BY <1>3, <1>4 DEF RestInv

\* The fields of the session and of the subprocess keep their types.
THEOREM TypeCorrect == Spec => []TypeOK
<1>1. Inv /\ RestInv => TypeOK
  BY DEF Inv, InputType, RestInv, Flags, Fields, TypeOK, Pieces
<1>2. Inv /\ RestInv /\ [Next]_vars => Inv' /\ RestInv'
  BY InvNext, RestNext
<1>3. Init => Inv /\ RestInv
  BY InitInv, RestInit
<1>. QED
  BY <1>1, <1>2, <1>3, PTL DEF Spec

------------------------------------------------------------------------------
(* The backlog                                                             *)
(*                                                                         *)
(* While stdin is read the backlog is below the high watermark, and a chunk *)
(* of stdin holds only so many frames; what of the chunk is still to be    *)
(* decoded counts as if it were in the backlog.                            *)

\* Frames that n more buffers complete when buffer e is the next.
Completes(n, e) == IF e % 2 = 0 THEN (n + 1) \div 2 ELSE n \div 2

BoundInv ==
  /\ ~stdinPaused => queued < HighMark
  /\ queued + Completes(Len(chunk), expect) * ChunkSize < HighMark + Burst

LEMMA Times ==
  ASSUME NEW a \in Nat, NEW b \in Nat, a <= b, NEW c \in Nat
  PROVE  a * c \in Nat /\ b * c \in Nat /\ a * c <= b * c /\ (a + 1) * c = a * c + c
  OBVIOUS

LEMMA CompletesNat ==
  ASSUME NEW n \in Nat, NEW e \in Nat
  PROVE  /\ Completes(n, e) \in Nat /\ Completes(n, e) <= (n + 1) \div 2
         /\ Completes(0, e) = 0
         /\ n > 0 => Completes(n, e) =
                       Completes(n - 1, e + 1) + (IF e % 2 = 0 THEN 1 ELSE 0)
<1>1. e % 2 \in {0, 1} /\ (e + 1) % 2 = 1 - (e % 2)
  OBVIOUS
<1>2. CASE e % 2 = 0
  BY <1>1, <1>2 DEF Completes
<1>3. CASE e % 2 = 1
  BY <1>1, <1>3 DEF Completes
<1>. QED
  BY <1>1, <1>2, <1>3

LEMMA BurstNat == Burst \in Nat /\ HighMark + Burst \in Nat /\ 0 < HighMark
<1>1. (PipeSize + 1) \div 2 \in Nat /\ ChunkSize \in Nat
  BY SizesAssumption
<1>. QED
  BY <1>1, Times, SizesAssumption DEF Burst

\* What handling a frame adds.
LEMMA HandleFrameAdds ==
  ASSUME NEW f \in Nat, HandleFrame(f)
  PROVE  \/ UNCHANGED <<queued, stdinPaused>>
         \/ queued' = queued + ChunkSize /\ stdinPaused' = Pauses(queued + ChunkSize)
<1>1. CASE HandleSpawn \/ HandleKill \/ UNCHANGED <<writeVars, pty, fd, escalation>>
  BY <1>1 DEF HandleSpawn, HandleKill, writeVars
<1>2. CASE HandleWrite(f)
  BY <1>2 DEF HandleWrite
<1>. QED
  BY <1>1, <1>2 DEF HandleFrame

LEMMA DecodeBound ==
  ASSUME Inv, RestInv, BoundInv, Decode \/ DecodeGarbled
  PROVE  BoundInv'
<1>. DEFINE n == Len(chunk)
            c == Completes(n, expect)
            d == Completes(Len(chunk'), expect')
            even == expect % 2 = 0
<1>0. chunk \in Seq(Nat) /\ chunk # <<>> /\ expect \in Nat /\ queued \in Int
  BY DEF Decode, DecodeGarbled, Inv, InputType, RestInv, Fields
<1>1. /\ n \in Nat /\ n > 0 /\ Len(Tail(chunk)) = n - 1 /\ Len(<<>>) = 0
  BY <1>0, HeadTailProperties, EmptySeq, LenProperties
<1>2. ChunkSize \in Nat /\ HighMark + Burst \in Nat /\ HighMark \in Nat
  BY BurstNat, SizesAssumption
<1>3. Len(chunk') \in Nat /\ expect' \in Nat
  BY <1>0, <1>1 DEF Decode, DecodeGarbled
<1>4. /\ c \in Nat /\ d \in Nat /\ Completes(n - 1, expect + 1) \in Nat
      /\ c = Completes(n - 1, expect + 1) + (IF even THEN 1 ELSE 0)
      /\ Completes(0, expect) = 0 /\ Completes(0, expect + 1) = 0
  <2>1. n - 1 \in Nat /\ expect + 1 \in Nat /\ 0 \in Nat
    BY <1>0, <1>1
  <2>2. Completes(0, expect) = 0 /\ Completes(0, expect + 1) = 0
    BY <1>0, <2>1, CompletesNat
  <2>3. c \in Nat /\ d \in Nat /\ Completes(n - 1, expect + 1) \in Nat
    BY <1>0, <1>1, <1>3, <2>1, CompletesNat
  <2>4. c = Completes(n - 1, expect + 1) + (IF even THEN 1 ELSE 0)
    BY <1>0, <1>1, CompletesNat
  <2>. QED
    BY <2>2, <2>3, <2>4
<1>5. d + (IF even THEN 1 ELSE 0) <= c
  <2>1. CASE Decode
    <3>1. d = Completes(n - 1, expect + 1)
      BY <1>1, <2>1 DEF Decode
    <3>. QED
      BY <1>4, <3>1
  <2>2. CASE DecodeGarbled
    <3>1. d = 0
      BY <1>1, <1>4, <2>2 DEF DecodeGarbled
    <3>. QED
      BY <1>4, <3>1
  <2>. QED
    BY <2>1, <2>2
<1>. HIDE DEF n, c, d, even
<1>6. /\ queued' = queued \/ (even /\ queued' = queued + ChunkSize)
      /\ ~stdinPaused' => queued' < HighMark
  <2>0. ~stdinPaused => queued < HighMark
    BY DEF BoundInv
  <2>1. CASE queued' = queued /\ stdinPaused' = stdinPaused
    BY <2>0, <2>1, Zenon
  <2>2. CASE even /\ queued' = queued + ChunkSize /\ stdinPaused' = Pauses(queued + ChunkSize)
    <3>1. ~Pauses(queued + ChunkSize) => queued + ChunkSize < HighMark
      BY <1>0, <1>2 DEF Pauses
    <3>. QED
      BY <2>2, <3>1, Zenon
  <2>3. expect \div 2 \in Nat
    BY <1>0
  <2>4. KeepsPty \/ (even /\ HandleFrame(expect \div 2))
    <3>1. CASE Decode
      BY <3>1 DEF Decode, even
    <3>2. CASE DecodeGarbled
      BY <3>2 DEF DecodeGarbled, even
    <3>. QED
      BY <3>1, <3>2
  <2>5. KeepsPty => UNCHANGED <<queued, stdinPaused>>
    BY DEF KeepsPty, writeVars
  <2>. QED
    BY <2>1, <2>2, <2>3, <2>4, <2>5, HandleFrameAdds
<1>7. queued + c * ChunkSize < HighMark + Burst
  BY DEF c, n, BoundInv
<1>8. queued' + d * ChunkSize < HighMark + Burst
  <2>1. CASE queued' = queued
    <3>1. d <= c
      BY <1>4, <1>5
    <3>2. d * ChunkSize \in Nat /\ c * ChunkSize \in Nat /\ d * ChunkSize <= c * ChunkSize
      BY <1>2, <1>4, <3>1, Times
    <3>. QED
      BY <1>0, <1>2, <1>7, <2>1, <3>2
  <2>2. CASE even /\ queued' = queued + ChunkSize
    <3>1. d + 1 <= c /\ d + 1 \in Nat /\ d <= d
      BY <1>4, <1>5, <2>2
    <3>2. (d + 1) * ChunkSize \in Nat /\ c * ChunkSize \in Nat
          /\ (d + 1) * ChunkSize <= c * ChunkSize
      BY <1>2, <1>4, <3>1, Times
    <3>3. (d + 1) * ChunkSize = d * ChunkSize + ChunkSize /\ d * ChunkSize \in Nat
      BY <1>2, <1>4, <3>1, Times
    <3>. QED
      BY <1>0, <1>2, <1>7, <2>2, <3>2, <3>3
  <2>. QED
    BY <1>6, <2>1, <2>2
<1>. QED
  BY <1>6, <1>8 DEF d, BoundInv

\* A chunk is read below the high watermark, and is no longer than the pipe.
LEMMA ReadChunkBound ==
  ASSUME Inv, RestInv, BoundInv, ReadChunk
  PROVE  BoundInv'
<1>1. PICK n \in 1..Len(wire) :
        n <= PipeSize /\ (chunk' = SubSeq(wire, 1, n) \/ chunk' = <<>>)
  BY DEF ReadChunk
<1>2. UNCHANGED <<queued, stdinPaused, expect>> /\ queued < HighMark
  BY DEF ReadChunk, writeVars, BoundInv
<1>3. /\ wire \in Seq(Nat) /\ Len(wire) \in Nat /\ expect \in Nat /\ queued \in Int
      /\ \A i \in 1..Len(wire) : wire[i] \in Nat
  <2>1. wire \in Seq(Nat) /\ expect \in Nat /\ queued \in Int
    BY DEF Inv, InputType, RestInv, Fields
  <2>. QED
    BY <2>1, ElementOfSeq, LenProperties
<1>. DEFINE m == Len(chunk')
            c == Completes(m, expect)
<1>4. m \in Nat /\ m <= PipeSize
  <2>1. n \in Int /\ \A i \in 1..n : wire[i] \in Nat
    BY <1>3
  <2>2. Len(SubSeq(wire, 1, n)) = IF 1 <= n THEN n - 1 + 1 ELSE 0
    BY <2>1, SubSeqProperties
  <2>. QED
    BY <1>1, <1>3, <2>2, SizesAssumption
<1>. HIDE DEF m
<1>5. c \in Nat /\ c <= (PipeSize + 1) \div 2 /\ (PipeSize + 1) \div 2 \in Nat
  <2>1. Completes(m, expect) \in Nat /\ Completes(m, expect) <= (m + 1) \div 2
    BY <1>3, <1>4, CompletesNat
  <2>. HIDE DEF Completes
  <2>. QED
    BY <1>4, <2>1, SizesAssumption
<1>. HIDE DEF c
<1>6. c * ChunkSize \in Nat /\ Burst \in Nat /\ c * ChunkSize <= Burst
  BY <1>5, Times, SizesAssumption DEF Burst
<1>7. queued + c * ChunkSize < HighMark + Burst
  BY <1>2, <1>3, <1>6, SizesAssumption
<1>. QED
  BY <1>2, <1>7 DEF BoundInv, c, m

\* Writing goes on between the chunks only, and takes bytes off the backlog.
LEMMA FlushBound ==
  ASSUME Inv, RestInv, BoundInv, WriteReturns \/ FlushSync
  PROVE  BoundInv'
<1>1. chunk = <<>> /\ UNCHANGED <<chunk, expect>>
  BY DEF WriteReturns, FlushSync, Free, decoderVars
<1>2. expect \in Nat /\ queued \in Int /\ stdinPaused \in BOOLEAN /\ ChunkSize \in Nat
      /\ HighMark \in Nat /\ LowMark \in Nat /\ LowMark < HighMark
      /\ Burst \in Nat /\ 0 < HighMark
  BY BurstNat, SizesAssumption DEF Inv, InputType, RestInv, Flags, Fields
<1>3. Completes(Len(chunk), expect) = 0
  BY <1>1, <1>2, CompletesNat, EmptySeq
<1>4. Completes(Len(chunk), expect) * ChunkSize = 0
  BY <1>2, <1>3
<1>5. ASSUME queued' \in Int, queued' < HighMark + Burst, ~stdinPaused' => queued' < HighMark
      PROVE  BoundInv'
  BY <1>1, <1>2, <1>4, <1>5 DEF BoundInv
<1>6. queued < HighMark + Burst /\ (~stdinPaused => queued < HighMark)
  BY <1>2, <1>4 DEF BoundInv
<1>7. \A n \in Nat : ~StaysPaused(queued - n) => queued - n < HighMark
  BY <1>2, <1>6 DEF StaysPaused
<1>8. ASSUME NEW n \in Nat, Wrote(n) PROVE BoundInv'
  <2>1. queued' = queued - n /\ stdinPaused' = StaysPaused(queued - n)
    BY <1>8 DEF Wrote
  <2>. QED
    BY <1>2, <1>5, <1>6, <1>7, <2>1
<1>9. ASSUME NEW paused, WriteError(paused) PROVE BoundInv'
  <2>1. queued' = 0
    BY <1>9 DEF WriteError
  <2>. QED
    BY <1>2, <1>5, <2>1
<1>10. CASE UNCHANGED <<queued, stdinPaused>>
  BY <1>2, <1>5, <1>6, <1>10
<1>11. backlog # <<>> => Head(backlog).left \in Nat
  <2>1. backlog \in Seq(Pieces)
    BY DEF RestInv, Fields
  <2>2. backlog # <<>> => Head(backlog) \in Pieces
    BY <2>1, HeadTailProperties
  <2>. QED
    BY <2>2, SizesAssumption DEF Pieces
<1>12. backlog # <<>>
  BY DEF WriteReturns, FlushSync, RestInv, Fields
<1>13. CASE WriteReturns
  <2>1. \/ \E n \in 0..Head(backlog).left : Wrote(n)
        \/ UNCHANGED <<queued, stdinPaused>>
        \/ WriteError(stdinPaused)
    BY <1>13 DEF WriteReturns
  <2>. QED
    BY <1>8, <1>9, <1>10, <1>11, <1>12, <2>1
<1>14. CASE FlushSync
  BY <1>8, <1>9, <1>11, <1>12, <1>14 DEF FlushSync
<1>. QED
  BY <1>13, <1>14

LEMMA BoundNext == Inv /\ RestInv /\ BoundInv /\ [Next]_vars => BoundInv'
<1>. SUFFICES ASSUME Inv, RestInv, BoundInv, [Next]_vars PROVE BoundInv'
  OBVIOUS
<1>1. CASE Decode \/ DecodeGarbled
  BY <1>1, DecodeBound
<1>2. CASE ReadChunk
  BY <1>2, ReadChunkBound
<1>3. CASE WriteReturns \/ FlushSync
  BY <1>3, FlushBound
<1>4. CASE StdinEnds
  <2>1. chunk = <<>> /\ UNCHANGED <<chunk, expect>> /\ queued' = 0
    BY <1>4 DEF StdinEnds, Free, decoderVars
  <2>2. Completes(Len(chunk), expect) = 0
    BY <2>1, CompletesNat, EmptySeq DEF Inv, InputType
  <2>. QED
    BY <2>1, <2>2, BurstNat, SizesAssumption DEF BoundInv
<1>5. CASE UNCHANGED <<chunk, expect, queued, stdinPaused>>
  BY <1>5 DEF BoundInv
<1>. USE DEF Subprocess, daemonVars, decoderVars, writeVars, processVars
<1>6. CASE HandleReady \/ SendChunk \/ ResizeOrSignal \/ Kill \/ Drain \/ Dispose \/ TreeKilled
           \/ Reap \/ DaemonEnds \/ Boot \/ \E chunks \in 1..MaxFrames : Write(chunks)
  <2>. UNCHANGED <<chunk, expect, queued, stdinPaused>>
    BY <1>6 DEF HandleReady, SendChunk, ResizeOrSignal, Kill, Drain, Dispose, TreeKilled,
                Reap, DaemonEnds, Boot, Write
  <2>. QED
    BY <1>5
<1>7. CASE FlushIdle \/ FlushAsync \/ PtyEnds \/ PtyExit \/ ExitTimer \/ EscalateTimer
           \/ ForceExitTimer \/ DisposeDone \/ ChildDies \/ UNCHANGED vars
  <2>. UNCHANGED <<chunk, expect, queued, stdinPaused>>
    BY <1>7 DEF FlushIdle, FlushAsync, PtyEnds, PtyExit, ExitTimer, EscalateTimer,
                ForceExitTimer, DisposeDone, ChildDies, vars
  <2>. QED
    BY <1>5
<1>. QED
  BY <1>1, <1>2, <1>3, <1>4, <1>6, <1>7 DEF Next

LEMMA BoundInit == Init => BoundInv
<1>1. Completes(0, 1) = 0 /\ Len(<<>>) = 0
  BY CompletesNat, EmptySeq
<1>. QED
  BY <1>1, BurstNat, SizesAssumption DEF Init, BoundInv

\* Pausing stdin at the high watermark bounds the backlog of the subprocess by what one
\* chunk can add to it (handleWrite, maybePauseStdin), whatever the sizes are.
THEOREM BacklogBound == Spec => [](queued < HighMark + Burst)
<1>2. Inv /\ RestInv /\ BoundInv => queued < HighMark + Burst
  <2>. SUFFICES ASSUME Inv, RestInv, BoundInv PROVE queued < HighMark + Burst
    OBVIOUS
  <2>. DEFINE c == Completes(Len(chunk), expect)
  <2>1. chunk \in Seq(Nat) /\ expect \in Nat /\ queued \in Int
    BY DEF Inv, InputType, RestInv, Fields
  <2>2. c \in Nat
    BY <2>1, LenProperties, CompletesNat
  <2>. HIDE DEF c
  <2>3. c * ChunkSize \in Nat
    BY <2>2, Times, SizesAssumption
  <2>4. queued + c * ChunkSize < HighMark + Burst
    BY DEF c, BoundInv
  <2>. QED
    BY <2>1, <2>3, <2>4, BurstNat
<1>3. Inv /\ RestInv /\ BoundInv /\ [Next]_vars => Inv' /\ RestInv' /\ BoundInv'
  BY InvNext, RestNext, BoundNext
<1>4. Init => Inv /\ RestInv /\ BoundInv
  BY InitInv, RestInit, BoundInit
<1>. QED
  BY <1>2, <1>3, <1>4, PTL DEF Spec

------------------------------------------------------------------------------
(* The frames that exist                                                   *)
(*                                                                         *)
(* Whatever the stream does with them, the buffers on their way are those  *)
(* of frames that were sent, the decoder is never ahead of them, and the   *)
(* Spawn frame is the first and the only one of its kind.                  *)

Buffer == 1..(2 * Len(sent))

FrameInv ==
  /\ chunk \in Seq(Buffer) /\ wire \in Seq(Buffer) /\ queue \in Seq(Buffer)
  /\ expect <= 2 * Len(sent) + 1
  /\ \A i \in 1..Len(sent) : sent[i] = "spawn" <=> i = 1
  /\ todo > 0 => ready
  /\ ready => session = "live"
  /\ session = "live" /\ ~ready => sent = <<>>
  /\ session = "live" /\ ready /\ sent = <<>> => QueueLimit < 2

\* A flush moves buffers and makes none.
LEMMA FlushKeeps ==
  ASSUME NEW S, NEW q \in Seq(S), wire \in Seq(S), NEW listening, FlushQueue(q, listening)
  PROVE  queue' \in Seq(S) /\ wire' \in Seq(S)
<1>. DEFINE n == Leaving(q, wire)
            end == IF n < Len(q) THEN n + 1 ELSE n
<1>1. Len(q) \in Nat /\ Len(wire) \in Nat /\ Easy \in Int
  BY SizesAssumption, LenProperties DEF Easy
<1>2. n \in 0..Len(q) /\ end \in 0..Len(q)
  BY <1>1 DEF Leaving
<1>3. queue' = SubSeq(q, n + 1, Len(q)) /\ wire' = wire \o SubSeq(q, 1, end)
  BY DEF FlushQueue
<1>. HIDE DEF n, end
<1>4. \A i \in 1..Len(q) : q[i] \in S
  BY ElementOfSeq
<1>5. SubSeq(q, n + 1, Len(q)) \in Seq(S)
  <2>1. n + 1 \in Int /\ Len(q) \in Int /\ \A i \in (n + 1)..Len(q) : q[i] \in S
    BY <1>1, <1>2, <1>4
  <2>. QED  BY <2>1, SubSeqProperties
<1>6. SubSeq(q, 1, end) \in Seq(S)
  <2>1. 1 \in Int /\ end \in Int /\ \A i \in 1..end : q[i] \in S
    BY <1>1, <1>2, <1>4
  <2>. QED  BY <2>1, SubSeqProperties
<1>. QED  BY <1>3, <1>5, <1>6, ConcatProperties

\* A frame is sent, or dropped whole.
LEMMA SendFrameFrames ==
  ASSUME Inv, FrameInv, NEW kind \in Kinds, SendFrame(kind), kind = "spawn" <=> ~ready,
         session = "live", ready', UNCHANGED <<session, chunk, expect>>
  PROVE  FrameInv'
<1>1. /\ queue \in Seq(Buffer) /\ wire \in Seq(Buffer) /\ chunk \in Seq(Buffer)
      /\ sent \in Seq(Kinds) /\ Len(sent) \in Nat /\ Len(queue) \in Nat /\ expect \in Nat
  BY LenProperties DEF Inv, InputType, FrameInv
<1>2. CASE Len(queue) + 2 > QueueLimit
  <2>1. UNCHANGED <<queue, wire, sent>>
    BY <1>2 DEF SendFrame
  <2>2. sent = <<>> => QueueLimit < 2
    <3>1. ASSUME sent = <<>> PROVE Len(queue) = 0
      <4>1. Len(sent) = 0
        BY <3>1, EmptySeq
      <4>2. \A i \in 1..Len(queue) : queue[i] \in 1..(2 * Len(sent))
        BY <1>1, ElementOfSeq DEF Buffer
      <4>3. \A k : k \notin 1..(2 * Len(sent))
        BY <4>1
      <4>. QED  BY <1>1, <4>2, <4>3
    <3>2. QueueLimit \in Nat
      BY SizesAssumption
    <3>. QED  BY <1>1, <1>2, <3>1, <3>2
  <2>. QED  BY <2>1, <2>2 DEF FrameInv, Buffer
<1>3. CASE ~(Len(queue) + 2 > QueueLimit)
  <2>. DEFINE f == Len(sent) + 1
              q == queue \o <<2 * f - 1, 2 * f>>
              S == 1..(2 * f)
  <2>1. FlushQueue(q, armed) /\ sent' = Append(sent, kind)
    BY <1>3 DEF SendFrame
  <2>2. /\ sent' \in Seq(Kinds) /\ Len(sent') = f /\ sent'[f] = kind
        /\ \A i \in 1..Len(sent) : sent'[i] = sent[i]
    BY <1>1, <2>1, AppendProperties
  <2>3. Buffer \subseteq S /\ Buffer' = S
    BY <1>1, <2>2 DEF Buffer
  <2>4. chunk \in Seq(S) /\ wire \in Seq(S) /\ queue \in Seq(S)
    BY <1>1, <2>3, SeqMonotonic
  <2>5. <<2 * f - 1, 2 * f>> \in Seq(S)
    BY <1>1
  <2>6. q \in Seq(S)
    BY <2>4, <2>5, ConcatProperties
  <2>. HIDE DEF q, S
  <2>7. queue' \in Seq(S) /\ wire' \in Seq(S)
    BY <2>1, <2>4, <2>6, FlushKeeps
  <2>8. expect <= 2 * f + 1
    BY <1>1 DEF FrameInv
  <2>9. QueueLimit >= 2
    BY <1>1, <1>3, SizesAssumption
  <2>10. \A i \in 1..f : sent'[i] = "spawn" <=> i = 1
    <3>1. CASE kind = "spawn"
      <4>1. Len(sent) = 0
        BY <3>1 DEF FrameInv
      <4>. QED  BY <2>2, <3>1, <4>1
    <3>2. CASE kind # "spawn"
      <4>1. sent # <<>>
        BY <2>9, <3>2, SizesAssumption DEF FrameInv
      <4>2. Len(sent) # 0
        BY <1>1, <4>1, EmptySeq
      <4>3. ASSUME NEW i \in 1..Len(sent) PROVE sent'[i] = "spawn" <=> i = 1
        <5>1. sent'[i] = sent[i]
          BY <2>2
        <5>. QED  BY <5>1 DEF FrameInv
      <4>4. sent'[f] # "spawn" /\ f # 1
        BY <1>1, <2>2, <3>2, <4>2
      <4>5. \A i \in 1..f : i \in 1..Len(sent) \/ i = f
        BY <1>1
      <4>. QED  BY <4>3, <4>4, <4>5
    <3>. QED  BY <3>1, <3>2
  <2>11. sent' # <<>>
    BY <1>1, <2>1, AppendProperties
  <2>. QED  BY <2>2, <2>3, <2>4, <2>7, <2>8, <2>10, <2>11 DEF FrameInv
<1>. QED  BY <1>2, <1>3

\* A step that sends nothing and reads nothing.
LEMMA FramesStay ==
  ASSUME FrameInv, UNCHANGED <<session, sent, chunk, wire, queue, expect, ready>>,
         todo' > 0 => ready
  PROVE  FrameInv'
BY DEF FrameInv, Buffer

\* The next buffer is one of a frame that was sent.
LEMMA ExpectedSent ==
  ASSUME Inv, FrameInv, Decode \/ DecodeGarbled
  PROVE  /\ expect' <= 2 * Len(sent) + 1 /\ chunk' \in Seq(Buffer)
         /\ expect % 2 = 0 => expect \div 2 \in 1..Len(sent)
<1>1. /\ chunk \in Seq(Buffer) /\ chunk # <<>> /\ Len(sent) \in Nat /\ expect \in Nat \ {0}
      /\ expect <= 2 * Len(sent) + 1
  BY LenProperties DEF Decode, DecodeGarbled, Inv, InputType, FrameInv
<1>2. Head(chunk) \in Buffer /\ Tail(chunk) \in Seq(Buffer) /\ <<>> \in Seq(Buffer)
  BY <1>1, HeadTailProperties, EmptySeq
<1>3. expect % 2 = 0 => expect \div 2 \in 1..Len(sent) /\ expect + 1 <= 2 * Len(sent) + 1
  BY <1>1
<1>4. CASE Decode
  BY <1>1, <1>2, <1>3, <1>4 DEF Decode, Buffer
<1>5. CASE DecodeGarbled
  BY <1>1, <1>2, <1>3, <1>5 DEF DecodeGarbled
<1>. QED  BY <1>4, <1>5

LEMMA FrameNext == Inv /\ RestInv /\ FrameInv /\ [Next]_vars => FrameInv'
<1>. SUFFICES ASSUME Inv, RestInv, FrameInv, [Next]_vars PROVE FrameInv'
  OBVIOUS
<1>. USE DEF Subprocess, daemonVars, decoderVars
<1>1. CASE HandleReady
  BY <1>1, SendFrameFrames DEF HandleReady, Idle, Kinds
<1>2. CASE SendChunk
  <2>1. ready
    BY <1>2 DEF SendChunk, FrameInv
  <2>. QED  BY <1>2, <2>1, SendFrameFrames DEF SendChunk, Kinds
<1>3. CASE ResizeOrSignal
  BY <1>3, SendFrameFrames DEF ResizeOrSignal, Idle, Kinds
<1>4. CASE Kill
  <2>1. CASE ready /\ SendFrame("kill")
    BY <1>4, <2>1, SendFrameFrames DEF Kill, Idle, Kinds
  <2>2. CASE ~ready /\ UNCHANGED <<queue, armed, wire, sent, repeated, lost>>
    BY <1>4, <2>2, FramesStay DEF Kill, Idle, FrameInv
  <2>. QED  BY <1>4, <2>1, <2>2 DEF Kill
<1>5. CASE Drain
  <2>1. queue' \in Seq(Buffer) /\ wire' \in Seq(Buffer)
    BY <1>5, FlushKeeps DEF Drain, FrameInv
  <2>2. UNCHANGED <<session, ready, todo, sent, chunk, expect>>
    BY <1>5 DEF Drain
  <2>. QED  BY <2>1, <2>2 DEF FrameInv, Buffer
<1>6. CASE Dispose \/ Reap
  <2>1. /\ session' # "live" /\ ~ready' /\ queue' = <<>> /\ todo' = 0
        /\ UNCHANGED <<sent, chunk, wire, expect>>
    BY <1>6 DEF Dispose, Reap, Idle, ResetProcessState
  <2>. QED  BY <2>1, EmptySeq DEF FrameInv, Buffer
<1>7. CASE DaemonEnds
  <2>. DEFINE n == IF Len(wire) < PipeSize THEN Len(wire) ELSE PipeSize
  <2>1. /\ session' # "live" /\ ~ready' /\ queue' = <<>> /\ todo' = 0
        /\ wire' = SubSeq(wire, 1, n) /\ UNCHANGED <<sent, chunk, expect>>
    BY <1>7 DEF DaemonEnds, ResetProcessState
  <2>2. n \in 0..Len(wire) /\ \A i \in 1..Len(wire) : wire[i] \in Buffer
    BY ElementOfSeq, LenProperties, SizesAssumption DEF FrameInv
  <2>. HIDE DEF n
  <2>3. wire' \in Seq(Buffer)
    <3>1. n \in Int /\ \A i \in 1..n : wire[i] \in Buffer
      BY <2>2, LenProperties DEF FrameInv
    <3>. QED  BY <2>1, <3>1, SubSeqProperties
  <2>. QED  BY <2>1, <2>3, EmptySeq DEF FrameInv, Buffer
<1>8. CASE ReadChunk
  <2>1. PICK n \in 1..Len(wire) :
          /\ wire' = SubSeq(wire, n + 1, Len(wire))
          /\ chunk' = SubSeq(wire, 1, n) \/ chunk' = <<>>
    BY <1>8 DEF ReadChunk
  <2>2. UNCHANGED <<session, ready, todo, sent, queue, expect>>
    BY <1>8 DEF ReadChunk
  <2>3. /\ wire \in Seq(Buffer) /\ Len(wire) \in Nat /\ n \in Int
        /\ \A i \in 1..Len(wire) : wire[i] \in Buffer
    BY ElementOfSeq, LenProperties DEF FrameInv
  <2>4. SubSeq(wire, n + 1, Len(wire)) \in Seq(Buffer)
    <3>1. n + 1 \in Int /\ Len(wire) \in Int /\ \A i \in (n + 1)..Len(wire) : wire[i] \in Buffer
      BY <2>3
    <3>. QED  BY <3>1, SubSeqProperties
  <2>5. SubSeq(wire, 1, n) \in Seq(Buffer)
    <3>1. \A i \in 1..n : wire[i] \in Buffer
      BY <2>3
    <3>. QED  BY <2>3, <3>1, SubSeqProperties
  <2>. QED  BY <2>1, <2>2, <2>4, <2>5, EmptySeq DEF FrameInv, Buffer
<1>9. CASE Decode \/ DecodeGarbled
  <2>1. UNCHANGED <<session, ready, todo, sent, wire, queue>>
    BY <1>9 DEF Decode, DecodeGarbled
  <2>. QED  BY <1>9, <2>1, ExpectedSent DEF FrameInv, Buffer
<1>10. CASE \E chunks \in 1..MaxFrames : Write(chunks)
  BY <1>10, FramesStay DEF Write, Idle
<1>11. CASE TreeKilled \/ Boot \/ DisposeDone \/ ChildDies \/ UNCHANGED vars
            \/ FlushIdle \/ FlushAsync \/ WriteReturns \/ FlushSync
  <2>1. UNCHANGED <<session, sent, chunk, wire, queue, expect, ready, todo>>
    BY <1>11 DEF TreeKilled, Boot, DisposeDone, ChildDies, vars, FlushIdle, FlushAsync,
                 WriteReturns, FlushSync
  <2>. QED  BY <2>1, FramesStay DEF FrameInv
<1>12. CASE PtyEnds \/ PtyExit \/ ExitTimer \/ EscalateTimer \/ ForceExitTimer \/ StdinEnds
  <2>1. UNCHANGED <<session, sent, chunk, wire, queue, expect, ready, todo>>
    BY <1>12 DEF PtyEnds, PtyExit, ExitTimer, EscalateTimer, ForceExitTimer, StdinEnds
  <2>. QED  BY <2>1, FramesStay DEF FrameInv
<1>. QED
  BY <1>1, <1>2, <1>3, <1>4, <1>5, <1>6, <1>7, <1>8, <1>9, <1>10, <1>11, <1>12 DEF Next

\* The frames that are there are those that were sent, whatever the stream repeats.
LEMMA FrameInit == Init => FrameInv
<1>1. \A S : <<>> \in Seq(S)
  BY EmptySeq
<1>2. Len(<<>>) = 0
  OBVIOUS
<1>. QED  BY <1>1, <1>2 DEF Init, FrameInv

------------------------------------------------------------------------------
(* What the PTY is given                                                   *)
(*                                                                         *)
(* The frames that the PTY took and those in the backlog are one sequence: *)
(* writing moves its boundary, an error cuts it off there, and a Write     *)
(* frame goes to its end, because below the bound on the backlog the hard  *)
(* limit drops none.                                                       *)

Written == {f \in 1..Len(sent) : 2 * f < expect /\ sent[f] = "write"}

GivenInv ==
  /\ \A i, j \in 1..Len(Given) : i < j => Given[i] < Given[j]
  /\ \A i \in 1..Len(Given) : Given[i] \in Written
  /\ HasPty /\ ~failed => \A f \in Written : \E i \in 1..Len(Given) : Given[i] = f

\* What a sequence of frames and one of pieces give, element by element.
LEMMA GivenOf ==
  ASSUME NEW taken \in Seq(Nat), NEW pieces \in Seq(Pieces), NEW given,
         given = taken \o [i \in DOMAIN pieces |-> pieces[i].frame]
  PROVE  /\ given \in Seq(Nat) /\ Len(given) = Len(taken) + Len(pieces)
         /\ Len(taken) \in Nat /\ Len(pieces) \in Nat
         /\ \A i \in 1..Len(given) :
              given[i] = IF i <= Len(taken) THEN taken[i] ELSE pieces[i - Len(taken)].frame
<1>. DEFINE frames == [i \in DOMAIN pieces |-> pieces[i].frame]
<1>1. Len(pieces) \in Nat /\ DOMAIN pieces = 1..Len(pieces) /\ Len(taken) \in Nat
      /\ \A i \in 1..Len(pieces) : pieces[i] \in Pieces
  BY LenProperties, ElementOfSeq
<1>2. \A i \in 1..Len(pieces) : pieces[i].frame \in Nat
  BY <1>1 DEF Pieces
<1>3. frames \in Seq(Nat) /\ Len(frames) = Len(pieces)
      /\ \A i \in 1..Len(pieces) : frames[i] = pieces[i].frame
  <2>1. frames \in [1..Len(pieces) -> Nat]
    BY <1>1, <1>2
  <2>2. frames \in Seq(Nat)
    BY <1>1, <2>1
  <2>. QED  BY <1>1, <2>1, <2>2, LenProperties
<1>. HIDE DEF frames
<1>4. /\ taken \o frames \in Seq(Nat) /\ Len(taken \o frames) = Len(taken) + Len(frames)
      /\ \A i \in 1..Len(taken) + Len(frames) : (taken \o frames)[i] =
           IF i <= Len(taken) THEN taken[i] ELSE frames[i - Len(taken)]
  BY <1>3, ConcatProperties
<1>5. given = taken \o frames
  BY DEF frames
<1>6. \A i \in 1..Len(taken) + Len(pieces) :
        i <= Len(taken) \/ i - Len(taken) \in 1..Len(pieces)
  BY <1>1
<1>. QED  BY <1>1, <1>3, <1>4, <1>5, <1>6

\* The PTY is given what it was given, or the first of it.
LEMMA GivenCut ==
  ASSUME GivenInv, Given \in Seq(Nat), Given' \in Seq(Nat), Written \subseteq Written',
         Len(Given') <= Len(Given), \A i \in 1..Len(Given') : Given'[i] = Given[i],
         HasPty' /\ ~failed' => HasPty /\ ~failed /\ Len(Given') = Len(Given) /\ Written' = Written
  PROVE  GivenInv'
<1>1. Len(Given) \in Nat /\ Len(Given') \in Nat
  BY LenProperties
<1>2. \A i \in 1..Len(Given') : i \in 1..Len(Given)
  BY <1>1
<1>3. \A i, j \in 1..Len(Given') : i < j => Given'[i] < Given'[j]
  BY <1>2 DEF GivenInv
<1>4. \A i \in 1..Len(Given') : Given'[i] \in Written'
  BY <1>2 DEF GivenInv
<1>5. ASSUME HasPty', ~failed', NEW f \in Written'
      PROVE  \E i \in 1..Len(Given') : Given'[i] = f
  BY <1>5 DEF GivenInv
<1>. QED  BY <1>3, <1>4, <1>5 DEF GivenInv

\* The frames decoded are the same while nothing is decoded, for a frame that is sent
\* has not been.
LEMMA WrittenStays ==
  ASSUME Inv, FrameInv, expect' = expect,
         sent' = sent \/ \E kind \in Kinds : sent' = Append(sent, kind)
  PROVE  Written' = Written
<1>1. sent \in Seq(Kinds) /\ Len(sent) \in Nat /\ expect \in Nat /\ expect <= 2 * Len(sent) + 1
  BY LenProperties DEF Inv, InputType, FrameInv
<1>2. CASE sent' = sent
  BY <1>2 DEF Written
<1>3. ASSUME NEW kind \in Kinds, sent' = Append(sent, kind)
      PROVE  Written' = Written
  <2>1. Len(sent') = Len(sent) + 1 /\ \A i \in 1..Len(sent) : sent'[i] = sent[i]
    BY <1>1, <1>3, AppendProperties
  <2>2. \A f : f \in 1..(Len(sent) + 1) /\ 2 * f < expect <=> f \in 1..Len(sent) /\ 2 * f < expect
    BY <1>1
  <2>3. \A f : f \in Written' <=> f \in Written
    BY <2>1, <2>2 DEF Written
  <2>. QED  BY <2>3
<1>. QED  BY <1>2, <1>3

\* Decoding a buffer makes one more frame, when it is the second of its frame.
LEMMA WrittenGrows ==
  ASSUME Inv, FrameInv, sent' = sent, expect' = expect + 1
  PROVE  /\ expect % 2 # 0 => Written' = Written
         /\ expect % 2 = 0 =>
              /\ \A f \in Written : f < expect \div 2
              /\ Written' = IF expect \div 2 \in 1..Len(sent) /\ sent[expect \div 2] = "write"
                            THEN Written \cup {expect \div 2} ELSE Written
<1>1. Len(sent) \in Nat /\ expect \in Nat
  BY LenProperties DEF Inv, InputType
<1>2. ASSUME expect % 2 # 0 PROVE Written' = Written
  <2>1. \A f \in 1..Len(sent) : 2 * f < expect + 1 <=> 2 * f < expect
    BY <1>1, <1>2
  <2>. QED  BY <2>1 DEF Written
<1>3. ASSUME expect % 2 = 0
      PROVE  /\ \A f \in Written : f < expect \div 2
             /\ Written' = IF expect \div 2 \in 1..Len(sent) /\ sent[expect \div 2] = "write"
                           THEN Written \cup {expect \div 2} ELSE Written
  <2>. DEFINE g == expect \div 2
  <2>1. g \in Nat /\ expect = 2 * g
    BY <1>1, <1>3
  <2>. HIDE DEF g
  <2>2. \A f \in 1..Len(sent) : (2 * f < expect + 1 <=> 2 * f < expect \/ f = g)
                                /\ (2 * f < expect => f < g)
    BY <1>1, <2>1
  <2>3. \A f : f \in Written' <=> f \in Written \/ (f = g /\ g \in 1..Len(sent) /\ sent[g] = "write")
    BY <2>2 DEF Written
  <2>4. Written' = IF g \in 1..Len(sent) /\ sent[g] = "write" THEN Written \cup {g} ELSE Written
    BY <2>3
  <2>5. \A f \in Written : f < g
    BY <2>2 DEF Written
  <2>. QED  BY <2>4, <2>5 DEF g
<1>. QED  BY <1>2, <1>3

\* Below the bound on the backlog there is room for one more frame.
LEMMA RoomForFrame ==
  ASSUME Inv, RestInv, BoundInv, chunk # <<>>, expect % 2 = 0
  PROVE  queued + ChunkSize <= HardLimit
<1>. DEFINE c == Completes(Len(chunk), expect)
<1>1. Len(chunk) \in Nat /\ Len(chunk) # 0 /\ expect \in Nat /\ queued \in Int
  BY EmptySeq, LenProperties DEF Inv, InputType, RestInv, Fields
<1>2. c \in Nat /\ 1 <= c
  BY <1>1 DEF Completes
<1>3. queued + c * ChunkSize < HighMark + Burst
  BY DEF BoundInv
<1>. HIDE DEF c
<1>4. ChunkSize \in Nat /\ HardLimit \in Nat
  BY SizesAssumption
<1>5. 1 * ChunkSize <= c * ChunkSize /\ c * ChunkSize \in Nat
  BY <1>2, <1>4, Times
<1>6. 1 * ChunkSize = ChunkSize
  BY <1>4
<1>. QED  BY <1>1, <1>3, <1>4, <1>5, <1>6, BurstNat, HardLimitAssumption

\* The frame that is decoded goes after those given before.
LEMMA GivenAppend ==
  ASSUME GivenInv, NEW f \in Nat, Written' = Written \cup {f}, \A g \in Written : g < f,
         Given \in Seq(Nat), Len(Given') = Len(Given) + 1, Given'[Len(Given')] = f,
         \A i \in 1..Len(Given) : Given'[i] = Given[i],
         HasPty' <=> HasPty, failed' = failed
  PROVE  GivenInv'
<1>1. Len(Given) \in Nat /\ \A i \in 1..Len(Given) : Given[i] \in Nat
  BY LenProperties, ElementOfSeq
<1>2. \A i \in 1..Len(Given') : i \in 1..Len(Given) \/ i = Len(Given')
  BY <1>1
<1>3. \A i \in 1..Len(Given) : i \in 1..Len(Given') /\ i < Len(Given')
  BY <1>1
<1>4. ASSUME NEW i \in 1..Len(Given'), NEW j \in 1..Len(Given'), i < j
      PROVE  Given'[i] < Given'[j]
  <2>1. i \in 1..Len(Given)
    BY <1>1, <1>4
  <2>2. Given'[i] = Given[i] /\ Given[i] \in Written
    BY <2>1 DEF GivenInv
  <2>3. CASE j \in 1..Len(Given)
    BY <1>4, <2>1, <2>3 DEF GivenInv
  <2>4. CASE j = Len(Given')
    BY <2>2, <2>4
  <2>. QED  BY <1>2, <2>3, <2>4
<1>5. \A i \in 1..Len(Given') : Given'[i] \in Written'
  BY <1>2 DEF GivenInv
<1>6. ASSUME HasPty', ~failed', NEW g \in Written'
      PROVE  \E i \in 1..Len(Given') : Given'[i] = g
  <2>1. CASE g = f
    BY <1>1, <2>1
  <2>2. CASE g \in Written
    <3>1. PICK i \in 1..Len(Given) : Given[i] = g
      BY <1>6, <2>2 DEF GivenInv
    <3>. QED  BY <1>3, <3>1
  <2>. QED  BY <2>1, <2>2
<1>. QED  BY <1>4, <1>5, <1>6 DEF GivenInv

\* A Write frame goes to the end of what the PTY is given, and none is dropped.
LEMMA WriteGiven ==
  ASSUME Inv, RestInv, BoundInv, GivenInv, chunk # <<>>, expect % 2 = 0,
         NEW f \in Nat, f = expect \div 2, HandleWrite(f),
         Written' = Written \cup {f}, \A g \in Written : g < f
  PROVE  GivenInv'
<1>1. typed \in Seq(Nat) /\ backlog \in Seq(Pieces) /\ UNCHANGED <<typed, failed, pty>>
  BY DEF RestInv, Fields, HandleWrite
<1>2. HasPty' <=> HasPty
  BY <1>1 DEF HasPty
<1>3. Given \in Seq(Nat) /\ Len(Given) \in Nat /\ Len(Given) = Len(typed) + Len(backlog)
  BY <1>1, GivenOf, LenProperties DEF Given
<1>4. CASE ~HasPty
  <2>1. UNCHANGED <<typed, backlog>>
    BY <1>1, <1>4 DEF HandleWrite
  <2>2. Given' = Given
    BY <2>1 DEF Given
  <2>. QED  BY <1>2, <1>3, <1>4, <2>2, GivenCut
<1>5. CASE HasPty
  <2>1. backlog' = Append(backlog, [frame |-> f, left |-> ChunkSize])
    BY <1>5, RoomForFrame DEF HandleWrite
  <2>. DEFINE piece == [frame |-> f, left |-> ChunkSize]
  <2>2. piece \in Pieces
    BY SizesAssumption DEF Pieces
  <2>3. piece.frame = f
    OBVIOUS
  <2>. HIDE DEF piece
  <2>4. /\ backlog' \in Seq(Pieces) /\ Len(backlog') = Len(backlog) + 1
        /\ backlog'[Len(backlog) + 1] = piece
        /\ \A i \in 1..Len(backlog) : backlog'[i] = backlog[i]
    <3>1. backlog' = Append(backlog, piece)
      BY <2>1 DEF piece
    <3>. QED  BY <1>1, <2>2, <3>1, AppendProperties
  <2>5. typed' = typed
    BY <1>1
  <2>6. /\ \A i \in 1..Len(Given) :
              Given[i] = IF i <= Len(typed) THEN typed[i] ELSE backlog[i - Len(typed)].frame
        /\ Len(typed) \in Nat /\ Len(backlog) \in Nat
    BY <1>1, GivenOf DEF Given
  <2>7. /\ Len(Given') = Len(typed) + Len(backlog) + 1
        /\ \A i \in 1..Len(Given') :
              Given'[i] = IF i <= Len(typed) THEN typed[i] ELSE backlog'[i - Len(typed)].frame
    BY <1>1, <2>4, <2>5, <2>6, GivenOf DEF Given
  <2>8. Given' \in Seq(Nat)
    BY <1>1, <2>4, <2>5, GivenOf DEF Given
  <2>9. \A i \in 1..Len(Given) : Given'[i] = Given[i]
    <3>1. ASSUME NEW i \in 1..Len(Given), ~(i <= Len(typed))
          PROVE  i - Len(typed) \in 1..Len(backlog)
      BY <1>3, <2>6, <3>1
    <3>2. \A i \in 1..Len(Given) : i \in 1..Len(Given')
      BY <1>3, <2>6, <2>7
    <3>. QED  BY <2>4, <2>6, <2>7, <3>1, <3>2
  <2>10. Given'[Len(Given')] = f
    <3>1. Len(Given') \in 1..Len(Given') /\ ~(Len(Given') <= Len(typed))
          /\ Len(Given') - Len(typed) = Len(backlog) + 1
      BY <2>6, <2>7
    <3>. QED  BY <2>3, <2>4, <2>7, <3>1
  <2>11. Len(Given') = Len(Given) + 1
    BY <1>3, <2>6, <2>7
  <2>. QED  BY <1>1, <1>2, <1>3, <2>8, <2>9, <2>10, <2>11, GivenAppend
<1>. QED  BY <1>4, <1>5

\* Bytes of the head are written: with the last of them its frame changes sides.
LEMMA WroteGiven ==
  ASSUME RestInv, backlog # <<>>, NEW n \in 0..Head(backlog).left, Wrote(n)
  PROVE  /\ Given \in Seq(Nat) /\ Given' \in Seq(Nat) /\ Len(Given') = Len(Given)
         /\ \A i \in 1..Len(Given) : Given'[i] = Given[i]
<1>1. /\ typed \in Seq(Nat) /\ backlog \in Seq(Pieces)
      /\ typed' \in Seq(Nat) /\ backlog' \in Seq(Pieces)
  BY WroteRest DEF RestInv, Fields
<1>2. /\ Given \in Seq(Nat) /\ Given' \in Seq(Nat)
      /\ Len(Given) = Len(typed) + Len(backlog) /\ Len(Given') = Len(typed') + Len(backlog')
      /\ Len(typed) \in Nat /\ Len(backlog) \in Nat
      /\ \A i \in 1..Len(Given) :
           Given[i] = IF i <= Len(typed) THEN typed[i] ELSE backlog[i - Len(typed)].frame
      /\ \A i \in 1..Len(Given') :
           Given'[i] = IF i <= Len(typed') THEN typed'[i] ELSE backlog'[i - Len(typed')].frame
  <2>1. /\ Given \in Seq(Nat) /\ Len(Given) = Len(typed) + Len(backlog)
        /\ Len(typed) \in Nat /\ Len(backlog) \in Nat
        /\ \A i \in 1..Len(Given) :
             Given[i] = IF i <= Len(typed) THEN typed[i] ELSE backlog[i - Len(typed)].frame
    BY <1>1, GivenOf DEF Given
  <2>2. Given' = typed' \o [i \in DOMAIN backlog' |-> backlog'[i].frame]
    BY DEF Given
  <2>3. /\ Given' \in Seq(Nat) /\ Len(Given') = Len(typed') + Len(backlog')
        /\ \A i \in 1..Len(Given') :
             Given'[i] = IF i <= Len(typed') THEN typed'[i] ELSE backlog'[i - Len(typed')].frame
    <3>1. typed' \in Seq(Nat) /\ backlog' \in Seq(Pieces)
      BY <1>1
    <3>. QED  BY ONLY <2>2, <3>1, GivenOf
  <2>. QED  BY <2>1, <2>3
<1>3. Head(backlog) = backlog[1] /\ Len(backlog) # 0
  BY <1>1, HeadTailProperties, EmptySeq
<1>4. CASE n = Head(backlog).left
  <2>1. backlog' = Tail(backlog) /\ typed' = Append(typed, backlog[1].frame)
    BY <1>3, <1>4 DEF Wrote, Rest
  <2>2. /\ Len(backlog') = Len(backlog) - 1
        /\ \A i \in 1..Len(backlog') : backlog'[i] = backlog[i + 1]
    BY <1>1, <2>1, HeadTailProperties
  <2>3. backlog[1].frame \in Nat
    <3>1. backlog[1] \in Pieces
      BY <1>2, <1>3, <1>1, ElementOfSeq
    <3>. QED  BY <3>1 DEF Pieces
  <2>4. /\ Len(typed') = Len(typed) + 1 /\ typed'[Len(typed) + 1] = backlog[1].frame
        /\ \A i \in 1..Len(typed) : typed'[i] = typed[i]
    BY <1>1, <2>1, <2>3, AppendProperties
  <2>5. Len(Given') = Len(Given)
    BY <1>2, <2>2, <2>4
  <2>6. ASSUME NEW i \in 1..Len(Given) PROVE Given'[i] = Given[i]
    <3>0. i \in 1..Len(Given')
      BY <2>5
    <3>1. CASE i <= Len(typed)
      <4>1. i \in 1..Len(typed) /\ i <= Len(typed')
        BY <1>2, <2>4, <3>1
      <4>2. Given'[i] = typed'[i] /\ Given[i] = typed[i]
        BY <1>2, <3>0, <3>1, <4>1
      <4>. QED  BY <2>4, <4>1, <4>2
    <3>2. CASE i = Len(typed) + 1
      <4>1. i <= Len(typed') /\ ~(i <= Len(typed)) /\ i - Len(typed) = 1
        BY <1>2, <2>4, <3>2
      <4>2. Given'[i] = typed'[i] /\ Given[i] = backlog[1].frame
        BY <1>2, <3>0, <4>1
      <4>. QED  BY <2>4, <3>2, <4>2
    <3>3. CASE i > Len(typed) + 1
      <4>1. i - Len(typed') \in 1..Len(backlog') /\ ~(i <= Len(typed')) /\ ~(i <= Len(typed))
            /\ i - Len(typed') + 1 = i - Len(typed)
        <5>1. /\ i \in 1..(Len(typed) + Len(backlog)) /\ Len(typed) \in Nat /\ Len(backlog) \in Nat
              /\ Len(backlog') = Len(backlog) - 1 /\ Len(typed') = Len(typed) + 1
          BY <1>2, <2>2, <2>4
        <5>. QED  BY <3>3, <5>1
      <4>2. Given'[i] = backlog'[i - Len(typed')].frame /\ Given[i] = backlog[i - Len(typed)].frame
        BY <1>2, <3>0, <4>1
      <4>3. backlog'[i - Len(typed')] = backlog[i - Len(typed') + 1]
        BY <2>2, <4>1
      <4>. QED  BY <4>1, <4>2, <4>3
    <3>. QED  BY <1>2, <3>1, <3>2, <3>3
  <2>. QED  BY <1>2, <2>5, <2>6
<1>5. CASE n # Head(backlog).left
  <2>1. backlog' = [backlog EXCEPT ![1].left = @ - n] /\ typed' = typed
    BY <1>5 DEF Wrote, Rest
  <2>2. /\ Len(backlog') = Len(backlog)
        /\ \A i \in 1..Len(backlog) : backlog'[i].frame = backlog[i].frame
    <3>1. DOMAIN backlog' = DOMAIN backlog
      BY <2>1
    <3>2. Len(backlog') = Len(backlog)
      BY <1>1, <3>1, LenProperties
    <3>3. ASSUME NEW i \in 1..Len(backlog) PROVE backlog'[i].frame = backlog[i].frame
      <4>1. backlog[i] \in Pieces /\ i \in DOMAIN backlog
        BY <1>1, ElementOfSeq, LenProperties
      <4>2. backlog'[i] = IF i = 1 THEN [backlog[1] EXCEPT !.left = @ - n] ELSE backlog[i]
        BY <2>1, <4>1
      <4>3. [backlog[i] EXCEPT !.left = @ - n].frame = backlog[i].frame
        BY <4>1 DEF Pieces
      <4>. QED  BY <4>2, <4>3
    <3>. QED  BY <3>2, <3>3
  <2>3. Len(Given') = Len(Given)
    BY <1>2, <2>1, <2>2
  <2>4. ASSUME NEW i \in 1..Len(Given) PROVE Given'[i] = Given[i]
    <3>1. ~(i <= Len(typed)) => i - Len(typed) \in 1..Len(backlog)
      BY <1>2
    <3>. QED  BY <1>2, <2>1, <2>2, <2>3, <3>1
  <2>. QED  BY <1>2, <2>3, <2>4
<1>. QED  BY <1>4, <1>5

\* Forgetting the backlog leaves what was typed.
LEMMA GivenForgotten ==
  ASSUME RestInv, backlog' = <<>>, typed' = typed
  PROVE  /\ Given \in Seq(Nat) /\ Given' \in Seq(Nat) /\ Len(Given') <= Len(Given)
         /\ \A i \in 1..Len(Given') : Given'[i] = Given[i]
<1>1. typed \in Seq(Nat) /\ backlog \in Seq(Pieces) /\ <<>> \in Seq(Pieces) /\ Len(<<>>) = 0
  BY EmptySeq DEF RestInv, Fields
<1>2. /\ Given \in Seq(Nat) /\ Given' \in Seq(Nat)
      /\ Len(Given) = Len(typed) + Len(backlog) /\ Len(Given') = Len(typed) + 0
      /\ Len(typed) \in Nat /\ Len(backlog) \in Nat
      /\ \A i \in 1..Len(Given) :
           Given[i] = IF i <= Len(typed) THEN typed[i] ELSE backlog[i - Len(typed)].frame
      /\ \A i \in 1..Len(Given') :
           Given'[i] = IF i <= Len(typed) THEN typed[i] ELSE backlog'[i - Len(typed)].frame
  <2>1. /\ Given \in Seq(Nat) /\ Len(Given) = Len(typed) + Len(backlog)
        /\ Len(typed) \in Nat /\ Len(backlog) \in Nat
        /\ \A i \in 1..Len(Given) :
             Given[i] = IF i <= Len(typed) THEN typed[i] ELSE backlog[i - Len(typed)].frame
    BY <1>1, GivenOf DEF Given
  <2>2. Given' = typed \o [i \in DOMAIN backlog' |-> backlog'[i].frame]
    BY DEF Given
  <2>3. /\ Given' \in Seq(Nat) /\ Len(Given') = Len(typed) + 0
        /\ \A i \in 1..Len(Given') :
             Given'[i] = IF i <= Len(typed) THEN typed[i] ELSE backlog'[i - Len(typed)].frame
    BY <1>1, <2>2, GivenOf
  <2>. QED  BY <2>1, <2>3
<1>3. \A i \in 1..Len(Given') : i <= Len(typed) /\ i \in 1..Len(Given)
  BY <1>2
<1>. QED  BY <1>2, <1>3

\* A callback of the flush loop gives the PTY nothing new.
LEMMA FlushGiven ==
  ASSUME RestInv, GivenInv, Written' = Written, UNCHANGED pty,
         FlushIdle \/ FlushAsync \/ WriteReturns \/ FlushSync
  PROVE  GivenInv'
<1>0. HasPty' <=> HasPty
  BY DEF HasPty
<1>1. Given \in Seq(Nat)
  BY GivenOf DEF RestInv, Fields, Given
<1>2. ASSUME UNCHANGED <<backlog, typed, failed>> PROVE GivenInv'
  <2>1. Given' = Given
    BY <1>2 DEF Given
  <2>. QED  BY <1>0, <1>1, <1>2, <2>1, GivenCut, LenProperties
<1>3. ASSUME backlog # <<>>, NEW n \in 0..Head(backlog).left, Wrote(n) PROVE GivenInv'
  <2>1. failed' = failed
    BY <1>3 DEF Wrote
  <2>2. Len(Given) \in Nat
    BY <1>1, LenProperties
  <2>3. /\ Given' \in Seq(Nat) /\ Len(Given') = Len(Given)
        /\ \A i \in 1..Len(Given) : Given'[i] = Given[i]
    BY <1>3, WroteGiven
  <2>. QED  BY <1>0, <1>1, <2>1, <2>2, <2>3, GivenCut
<1>4. ASSUME NEW paused, WriteError(paused) PROVE GivenInv'
  <2>1. backlog' = <<>> /\ typed' = typed /\ failed'
    BY <1>4 DEF WriteError
  <2>. QED  BY <1>1, <2>1, GivenForgotten, GivenCut
<1>5. CASE FlushIdle \/ FlushAsync
  BY <1>2, <1>5 DEF FlushIdle, FlushAsync
<1>6. CASE WriteReturns
  <2>1. backlog # <<>>
    BY <1>6 DEF WriteReturns, RestInv, Fields
  <2>. QED  BY <1>2, <1>3, <1>4, <1>6, <2>1 DEF WriteReturns
<1>7. CASE FlushSync
  <2>1. backlog # <<>>
    BY <1>7 DEF FlushSync
  <2>2. Head(backlog) \in Pieces
    BY <2>1, HeadTailProperties DEF RestInv, Fields
  <2>3. Head(backlog).left \in 0..Head(backlog).left
    BY <2>2, SizesAssumption DEF Pieces
  <2>. QED  BY <1>3, <1>4, <1>7, <2>1, <2>3 DEF FlushSync
<1>. QED  BY <1>5, <1>6, <1>7

\* The handler of the frame that is complete with the next buffer.
LEMMA FrameGiven ==
  ASSUME Inv, RestInv, BoundInv, FrameInv, GivenInv, chunk # <<>>, expect % 2 = 0,
         expect \div 2 \in 1..Len(sent), HandleFrame(expect \div 2),
         sent' = sent, expect' = expect + 1
  PROVE  GivenInv'
<1>. DEFINE f == expect \div 2
<1>1. f \in Nat /\ f \in 1..Len(sent)
  BY LenProperties DEF Inv, InputType
<1>2. /\ \A g \in Written : g < f
      /\ Written' = IF sent[f] = "write" THEN Written \cup {f} ELSE Written
  BY WrittenGrows
<1>3. Given \in Seq(Nat) /\ Len(Given) \in Nat
  BY GivenOf, LenProperties DEF RestInv, Fields, Given
<1>4. CASE sent[f] = "spawn"
  <2>1. f = 1
    BY <1>1, <1>4 DEF FrameInv
  <2>2. Written = {} /\ Written' = {}
    BY <1>2, <1>4, <2>1, LenProperties DEF Written, Inv, InputType
  <2>3. HandleSpawn
    BY <1>4 DEF HandleFrame
  <2>4. Given' = Given
    BY <2>3 DEF HandleSpawn, writeVars, Given
  <2>. QED  BY <2>2, <2>4 DEF GivenInv
<1>5. CASE sent[f] = "write"
  <2>1. HandleWrite(f)
    BY <1>5 DEF HandleFrame
  <2>2. Written' = Written \cup {f}
    BY <1>2, <1>5
  <2>. QED  BY <1>1, <1>2, <2>1, <2>2, WriteGiven
<1>6. CASE sent[f] \notin {"spawn", "write"}
  <2>1. UNCHANGED <<writeVars, pty>>
    BY <1>6 DEF HandleFrame, HandleKill
  <2>2. Given' = Given /\ UNCHANGED failed /\ HasPty' = HasPty
    BY <2>1 DEF writeVars, Given, HasPty
  <2>3. Written' = Written
    BY <1>2, <1>6
  <2>. QED  BY <1>3, <2>2, <2>3, GivenCut
<1>. QED  BY <1>4, <1>5, <1>6

LEMMA DecodeGiven ==
  ASSUME Inv, RestInv, BoundInv, FrameInv, GivenInv, Decode \/ DecodeGarbled
  PROVE  GivenInv'
<1>1. /\ chunk # <<>> /\ sent' = sent
      /\ \/ expect % 2 = 0 /\ expect' = expect + 1 /\ HandleFrame(expect \div 2)
         \/ expect % 2 # 0 /\ expect' = expect + 1 /\ KeepsPty
         \/ expect' = expect /\ KeepsPty
  BY DEF Decode, DecodeGarbled, daemonVars
<1>2. CASE expect % 2 = 0 /\ expect' = expect + 1 /\ HandleFrame(expect \div 2)
  BY <1>1, <1>2, ExpectedSent, FrameGiven
<1>3. CASE KeepsPty /\ (expect' = expect \/ (expect % 2 # 0 /\ expect' = expect + 1))
  <2>1. Written' = Written
    BY <1>1, <1>3, WrittenStays, WrittenGrows
  <2>2. Given' = Given /\ UNCHANGED failed /\ HasPty' = HasPty
    BY <1>3 DEF KeepsPty, writeVars, Given, HasPty
  <2>3. Given \in Seq(Nat) /\ Len(Given) \in Nat
    BY GivenOf, LenProperties DEF RestInv, Fields, Given
  <2>. QED  BY <2>1, <2>2, <2>3, GivenCut
<1>. QED  BY <1>1, <1>2, <1>3

LEMMA GivenNext ==
  Inv /\ RestInv /\ BoundInv /\ FrameInv /\ GivenInv /\ [Next]_vars => GivenInv'
<1>. SUFFICES ASSUME Inv, RestInv, BoundInv, FrameInv, GivenInv, [Next]_vars PROVE GivenInv'
  OBVIOUS
<1>1. Given \in Seq(Nat) /\ Len(Given) \in Nat
  BY GivenOf, LenProperties DEF RestInv, Fields, Given
<1>2. ASSUME UNCHANGED <<backlog, typed, failed>>, HasPty' => HasPty, Written' = Written
      PROVE  GivenInv'
  <2>1. Given' = Given
    BY <1>2 DEF Given
  <2>. QED  BY <1>1, <1>2, <2>1, GivenCut
<1>. USE DEF Subprocess, daemonVars, decoderVars, writeVars, processVars
<1>3. CASE HandleReady \/ SendChunk \/ ResizeOrSignal \/ Kill
  <2>1. UNCHANGED <<backlog, typed, failed, pty, expect>>
    BY <1>3 DEF HandleReady, SendChunk, ResizeOrSignal, Kill
  <2>2. sent' = sent \/ \E kind \in Kinds : sent' = Append(sent, kind)
    BY <1>3 DEF HandleReady, SendChunk, ResizeOrSignal, Kill, SendFrame, Kinds
  <2>. QED  BY <1>2, <2>1, <2>2, WrittenStays DEF HasPty
<1>4. CASE Drain \/ Dispose \/ TreeKilled \/ Reap \/ DaemonEnds \/ Boot \/ ReadChunk
           \/ \E chunks \in 1..MaxFrames : Write(chunks)
  <2>1. UNCHANGED <<backlog, typed, failed, pty, expect, sent>>
    BY <1>4 DEF Drain, Dispose, TreeKilled, Reap, DaemonEnds, Boot, ReadChunk, Write
  <2>. QED  BY <1>2, <2>1, WrittenStays DEF HasPty
<1>5. CASE PtyEnds \/ PtyExit \/ ExitTimer \/ EscalateTimer \/ ForceExitTimer
           \/ DisposeDone \/ ChildDies \/ UNCHANGED vars
  <2>1. /\ UNCHANGED <<backlog, typed, failed, expect, sent>>
        /\ pty' = pty \/ pty' = "closed" \/ (pty = "running" /\ pty' = "ended")
    BY <1>5 DEF PtyEnds, PtyExit, ExitTimer, EscalateTimer, ForceExitTimer, DisposeDone,
                ChildDies, vars
  <2>. QED  BY <1>2, <2>1, WrittenStays DEF HasPty
<1>6. CASE StdinEnds
  <2>1. /\ UNCHANGED <<typed, failed, expect, sent>> /\ backlog' = <<>>
        /\ pty' = IF HasPty THEN "closed" ELSE pty
    BY <1>6 DEF StdinEnds
  <2>2. ~HasPty' /\ Written' = Written
    BY <2>1, WrittenStays DEF HasPty
  <2>. QED  BY <1>1, <2>1, <2>2, GivenForgotten, GivenCut
<1>7. CASE Decode \/ DecodeGarbled
  BY <1>7, DecodeGiven
<1>8. CASE FlushIdle \/ FlushAsync \/ WriteReturns \/ FlushSync
  <2>1. UNCHANGED <<expect, sent, pty>>
    BY <1>8 DEF FlushIdle, FlushAsync, WriteReturns, FlushSync
  <2>. QED  BY <1>8, <2>1, WrittenStays, FlushGiven
<1>. QED  BY <1>3, <1>4, <1>5, <1>6, <1>7, <1>8 DEF Next

\* The PTY is given the Write frames that were decoded, each once and in order, and all
\* of them while no write has failed (handleWrite, queueWriteBuffer, flush): because the
\* hard limit of the backlog is far enough above the watermark at which stdin is paused.
THEOREM PtyGetsAllInOrder == Spec => []PtyInOrder
<1>1. Init => GivenInv
  <2>. SUFFICES ASSUME Init PROVE GivenInv
    OBVIOUS
  <2>1. <<>> \in Seq(Nat) /\ <<>> \in Seq(Pieces) /\ Len(<<>>) = 0
    BY EmptySeq
  <2>2. Len(Given) = 0
    BY <2>1, GivenOf DEF Init, Given
  <2>3. Written = {}
    BY <2>1 DEF Init, Written
  <2>. QED  BY <2>2, <2>3 DEF GivenInv
<1>2. RestInv /\ Inv /\ GivenInv => PtyInOrder
  <2>. SUFFICES ASSUME RestInv, Inv, GivenInv PROVE PtyInOrder
    OBVIOUS
  <2>1. Given \in Seq(Nat) /\ DOMAIN Given = 1..Len(Given)
    BY GivenOf, LenProperties DEF RestInv, Fields, Given
  <2>2. ToSet(Given) = {Given[i] : i \in DOMAIN Given}
    BY DEF ToSet
  <2>3. {f \in DOMAIN sent : 2 * f < expect /\ sent[f] = "write"} = Written
    BY LenProperties DEF Inv, InputType, Written
  <2>4. ASSUME HasPty, ~failed PROVE ToSet(Given) = Written
    <3>1. \A f \in ToSet(Given) : f \in Written
      BY <2>1, <2>2 DEF GivenInv
    <3>2. \A f \in Written : f \in ToSet(Given)
      BY <2>1, <2>2, <2>4 DEF GivenInv
    <3>. QED  BY <3>1, <3>2
  <2>. QED  BY <2>1, <2>3, <2>4 DEF PtyInOrder, GivenInv
<1>3. Init => Inv /\ RestInv /\ BoundInv /\ FrameInv
  BY InitInv, RestInit, BoundInit, FrameInit
<1>4. Inv /\ RestInv /\ BoundInv /\ FrameInv /\ GivenInv /\ [Next]_vars
        => Inv' /\ RestInv' /\ BoundInv' /\ FrameInv' /\ GivenInv'
  BY InvNext, RestNext, BoundNext, FrameNext, GivenNext
<1>. QED  BY <1>1, <1>2, <1>3, <1>4, PTL DEF Spec

------------------------------------------------------------------------------
(* What queuedBytes counts                                                 *)
(*                                                                         *)
(* The head of the backlog alone is ever written in part, because writing  *)
(* takes the next frame only after the whole of the one before.            *)

HeldInv ==
  /\ queued = Held
  /\ \A i \in 2..Len(backlog) : backlog[i].left = ChunkSize

\* Nothing is left to count.
LEMMA NoneHeld == ASSUME backlog' = <<>>, queued' = 0 PROVE HeldInv'
<1>1. \A i \in 2..Len(<<>>) : FALSE
  BY EmptySeq
<1>. QED  BY <1>1 DEF HeldInv, Held

\* A whole frame at the end.
LEMMA AppendHeld ==
  ASSUME RestInv, HeldInv, NEW f \in Nat, HandleWrite(f)
  PROVE  HeldInv'
<1>. DEFINE piece == [frame |-> f, left |-> ChunkSize]
<1>1. backlog \in Seq(Pieces) /\ Len(backlog) \in Nat /\ queued \in Int /\ ChunkSize \in Nat
  BY LenProperties, SizesAssumption DEF RestInv, Fields
<1>2. piece \in Pieces /\ piece.left = ChunkSize
  BY SizesAssumption DEF Pieces
<1>3. CASE UNCHANGED <<backlog, queued>>
  BY <1>3 DEF HeldInv, Held
<1>4. CASE backlog' = Append(backlog, piece) /\ queued' = queued + ChunkSize
  <2>. HIDE DEF piece
  <2>1. /\ Len(backlog') = Len(backlog) + 1 /\ backlog'[Len(backlog) + 1] = piece
        /\ backlog' \in Seq(Pieces) /\ backlog' # <<>>
        /\ \A i \in 1..Len(backlog) : backlog'[i] = backlog[i]
    BY <1>1, <1>2, <1>4, AppendProperties
  <2>2. Head(backlog') = backlog'[1]
    BY <2>1, HeadTailProperties
  <2>3. \A i \in 2..Len(backlog') : backlog'[i].left = ChunkSize
    <3>1. \A i \in 2..Len(backlog') : i \in 2..Len(backlog) \/ i = Len(backlog) + 1
      BY <1>1, <2>1
    <3>2. \A i \in 2..Len(backlog) : i \in 1..Len(backlog)
      OBVIOUS
    <3>. QED  BY <1>2, <2>1, <3>1, <3>2 DEF HeldInv
  <2>4. queued' = Head(backlog').left + Len(backlog) * ChunkSize
    <3>1. CASE backlog = <<>>
      <4>1. Len(backlog) = 0
        BY <3>1, EmptySeq
      <4>2. Head(backlog') = piece
        BY <2>1, <2>2, <4>1
      <4>3. queued' = ChunkSize /\ Len(backlog) * ChunkSize = 0
        BY <1>1, <1>4, <3>1, <4>1 DEF HeldInv, Held
      <4>. QED  BY <1>1, <1>2, <4>2, <4>3
    <3>2. CASE backlog # <<>>
      <4>1. Len(backlog) # 0 /\ Head(backlog) = backlog[1] /\ Head(backlog) \in Pieces
        BY <1>1, <3>2, EmptySeq, HeadTailProperties
      <4>2. Head(backlog') = Head(backlog)
        BY <1>1, <2>1, <2>2, <4>1
      <4>3. queued = Head(backlog).left + (Len(backlog) - 1) * ChunkSize
        BY <3>2 DEF HeldInv, Held
      <4>4. /\ Len(backlog) - 1 \in Nat /\ (Len(backlog) - 1) + 1 = Len(backlog)
            /\ Head(backlog).left \in Nat
        BY <1>1, <4>1 DEF Pieces
      <4>5. /\ (Len(backlog) - 1) * ChunkSize \in Nat
            /\ ((Len(backlog) - 1) + 1) * ChunkSize = (Len(backlog) - 1) * ChunkSize + ChunkSize
        BY <1>1, <4>4, Times
      <4>6. Len(backlog) * ChunkSize = (Len(backlog) - 1) * ChunkSize + ChunkSize
        BY <4>4, <4>5
      <4>. QED  BY <1>1, <1>4, <4>2, <4>3, <4>4, <4>5, <4>6
    <3>. QED  BY <3>1, <3>2
  <2>5. Len(backlog') - 1 = Len(backlog)
    BY <1>1, <2>1
  <2>. QED  BY <2>1, <2>3, <2>4, <2>5 DEF HeldInv, Held
<1>. QED  BY <1>3, <1>4 DEF HandleWrite

\* Bytes off the head; behind the last of them is a whole frame.
LEMMA WroteHeld ==
  ASSUME RestInv, HeldInv, backlog # <<>>, NEW n \in 0..Head(backlog).left, Wrote(n)
  PROVE  HeldInv'
<1>1. /\ backlog \in Seq(Pieces) /\ Len(backlog) \in Nat /\ Len(backlog) # 0
      /\ Head(backlog) = backlog[1] /\ Head(backlog) \in Pieces
      /\ queued \in Int /\ ChunkSize \in Nat
  BY EmptySeq, LenProperties, HeadTailProperties, SizesAssumption DEF RestInv, Fields
<1>2. Head(backlog).left \in Nat /\ n \in Nat
  BY <1>1 DEF Pieces
<1>3. queued' = queued - n
      /\ queued = Head(backlog).left + (Len(backlog) - 1) * ChunkSize
  BY DEF Wrote, HeldInv, Held
<1>4. (Len(backlog) - 1) * ChunkSize \in Nat
  BY <1>1, Times
<1>5. CASE n = Head(backlog).left
  <2>1. backlog' = Tail(backlog)
    BY <1>5 DEF Wrote, Rest
  <2>2. /\ backlog' \in Seq(Pieces) /\ Len(backlog') = Len(backlog) - 1
        /\ \A i \in 1..Len(backlog') : backlog'[i] = backlog[i + 1]
    BY <1>1, <2>1, HeadTailProperties
  <2>3. \A i \in 1..Len(backlog') : backlog'[i].left = ChunkSize
    <3>1. \A i \in 1..Len(backlog') : i + 1 \in 2..Len(backlog)
      BY <1>1, <2>2
    <3>. QED  BY <2>2, <3>1 DEF HeldInv
  <2>4. queued' = (Len(backlog) - 1) * ChunkSize
    BY <1>2, <1>3, <1>4, <1>5
  <2>5. CASE backlog' = <<>>
    <3>1. Len(backlog) - 1 = 0
      BY <2>2, <2>5, EmptySeq
    <3>2. 0 * ChunkSize = 0
      BY <1>1
    <3>3. queued' = 0
      BY <2>4, <3>1, <3>2
    <3>. QED  BY <2>5, <3>3, NoneHeld
  <2>6. CASE backlog' # <<>>
    <3>1. Len(backlog') # 0 /\ Head(backlog') = backlog'[1]
      BY <2>2, <2>6, EmptySeq, HeadTailProperties
    <3>2. Head(backlog').left = ChunkSize
      BY <1>1, <2>2, <2>3, <3>1
    <3>3. Len(backlog') - 1 \in Nat /\ (Len(backlog') - 1) + 1 = Len(backlog) - 1
      BY <1>1, <2>2, <3>1
    <3>4. ((Len(backlog') - 1) + 1) * ChunkSize = (Len(backlog') - 1) * ChunkSize + ChunkSize
          /\ (Len(backlog') - 1) * ChunkSize \in Nat
      BY <1>1, <3>3, Times
    <3>5. queued' = ChunkSize + (Len(backlog') - 1) * ChunkSize
      BY <1>1, <2>4, <3>3, <3>4
    <3>6. queued' = Held'
      BY <2>6, <3>2, <3>5 DEF Held
    <3>7. \A i \in 2..Len(backlog') : i \in 1..Len(backlog')
      OBVIOUS
    <3>. QED  BY <2>3, <3>6, <3>7 DEF HeldInv
  <2>. QED  BY <2>5, <2>6
<1>6. CASE n # Head(backlog).left
  <2>1. backlog' = [backlog EXCEPT ![1].left = @ - n]
    BY <1>6 DEF Wrote, Rest
  <2>2. /\ backlog' \in Seq(Pieces) /\ 1 \in DOMAIN backlog /\ DOMAIN backlog' = DOMAIN backlog
        /\ backlog[1] = [frame |-> backlog[1].frame, left |-> backlog[1].left]
    <3>1. backlog' \in Seq(Pieces)
      BY WroteRest
    <3>2. DOMAIN backlog = 1..Len(backlog) /\ DOMAIN backlog' = DOMAIN backlog
      BY <1>1, <2>1, LenProperties
    <3>3. backlog[1] = [frame |-> backlog[1].frame, left |-> backlog[1].left]
      BY <1>1 DEF Pieces
    <3>. QED  BY <1>1, <3>1, <3>2, <3>3
  <2>3. Len(backlog') = Len(backlog) /\ \A i \in 2..Len(backlog) : backlog'[i] = backlog[i]
    BY <1>1, <2>1, <2>2, LenProperties
  <2>4. backlog'[1].left = backlog[1].left - n
    BY <2>1, <2>2
  <2>5. backlog' # <<>> /\ Head(backlog') = backlog'[1]
    BY <1>1, <2>2, <2>3, EmptySeq, HeadTailProperties
  <2>6. queued' = Head(backlog').left + (Len(backlog') - 1) * ChunkSize
    BY <1>1, <1>2, <1>3, <1>4, <2>3, <2>4, <2>5
  <2>. QED  BY <2>3, <2>5, <2>6 DEF HeldInv, Held
<1>. QED  BY <1>5, <1>6

LEMMA HeldNext == Inv /\ RestInv /\ HeldInv /\ [Next]_vars => HeldInv'
<1>. SUFFICES ASSUME Inv, RestInv, HeldInv, [Next]_vars PROVE HeldInv'
  OBVIOUS
<1>1. CASE UNCHANGED <<backlog, queued>>
  BY <1>1 DEF HeldInv, Held
<1>. USE DEF Subprocess, daemonVars, decoderVars, writeVars, processVars
<1>2. CASE HandleReady \/ SendChunk \/ ResizeOrSignal \/ Kill \/ Drain \/ Dispose \/ TreeKilled
           \/ Reap \/ DaemonEnds \/ Boot \/ ReadChunk \/ \E chunks \in 1..MaxFrames : Write(chunks)
  BY <1>1, <1>2 DEF HandleReady, SendChunk, ResizeOrSignal, Kill, Drain, Dispose, TreeKilled,
                    Reap, DaemonEnds, Boot, ReadChunk, Write
<1>3. CASE FlushIdle \/ FlushAsync \/ PtyEnds \/ PtyExit \/ ExitTimer \/ EscalateTimer
           \/ ForceExitTimer \/ DisposeDone \/ ChildDies \/ UNCHANGED vars
  BY <1>1, <1>3 DEF FlushIdle, FlushAsync, PtyEnds, PtyExit, ExitTimer, EscalateTimer,
                    ForceExitTimer, DisposeDone, ChildDies, vars
<1>4. CASE StdinEnds
  BY <1>4, NoneHeld DEF StdinEnds
<1>5. CASE Decode \/ DecodeGarbled
  <2>1. expect \in Nat
    BY DEF Inv, InputType
  <2>2. KeepsPty \/ (expect % 2 = 0 /\ HandleFrame(expect \div 2))
    BY <1>5 DEF Decode, DecodeGarbled
  <2>3. CASE KeepsPty
    BY <1>1, <2>3 DEF KeepsPty
  <2>4. CASE HandleFrame(expect \div 2) /\ expect \div 2 \in Nat
    <3>1. CASE HandleWrite(expect \div 2)
      BY <2>4, <3>1, AppendHeld
    <3>2. CASE UNCHANGED <<backlog, queued>>
      BY <1>1, <3>2
    <3>. QED  BY <2>4, <3>1, <3>2 DEF HandleFrame, HandleSpawn, HandleKill
  <2>5. expect \div 2 \in Nat
    BY <2>1
  <2>. QED  BY <2>2, <2>3, <2>4, <2>5
<1>6. ASSUME NEW paused, WriteError(paused) PROVE HeldInv'
  BY <1>6, NoneHeld DEF WriteError
<1>7. CASE WriteReturns
  <2>1. backlog # <<>>
    BY <1>7 DEF WriteReturns, RestInv, Fields
  <2>. QED  BY <1>1, <1>6, <1>7, <2>1, WroteHeld DEF WriteReturns
<1>8. CASE FlushSync
  <2>1. backlog # <<>>
    BY <1>8 DEF FlushSync
  <2>2. Head(backlog) \in Pieces
    BY <2>1, HeadTailProperties DEF RestInv, Fields
  <2>3. Head(backlog).left \in 0..Head(backlog).left
    BY <2>2, SizesAssumption DEF Pieces
  <2>. QED  BY <1>6, <1>8, <2>1, <2>3, WroteHeld DEF FlushSync
<1>. QED  BY <1>2, <1>3, <1>4, <1>5, <1>7, <1>8 DEF Next

\* The backlog of the subprocess is bounded by the watermark and one chunk of stdin, and
\* queuedBytes is what it holds (queueWriteBuffer, flush), for any sizes.
THEOREM BacklogIsBounded == Spec => []BacklogBounded
<1>1. Init => HeldInv
  <2>1. \A i \in 2..Len(<<>>) : FALSE
    BY EmptySeq
  <2>. QED  BY <2>1 DEF Init, HeldInv, Held
<1>2. queued < HighMark + Burst /\ HeldInv => BacklogBounded
  BY DEF HeldInv, BacklogBounded
<1>3. Init => Inv /\ RestInv
  BY InitInv, RestInit
<1>4. Inv /\ RestInv /\ HeldInv /\ [Next]_vars => Inv' /\ RestInv' /\ HeldInv'
  BY InvNext, RestNext, HeldNext
<1>. QED  BY <1>1, <1>2, <1>3, <1>4, BacklogBound, PTL DEF Spec

=============================================================================
