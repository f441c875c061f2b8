-------------------------- MODULE DaemonManagerProofs --------------------------
(***************************************************************************)
(* Proofs about the app's view of its terminals, for any number of panes   *)
(* and of runs of createOrAttach, any limit of runs and any number of      *)
(* disturbances.                                                           *)
(***************************************************************************)
EXTENDS DaemonManager, SequenceTheorems, FiniteSetTheorems, TLAPS

------------------------------------------------------------------------------
(* The limiter                                                             *)

Rank == [user : Creation, priority : 0..1]

\* Runs wait once each, and only while no permit is free.
SemInv ==
  /\ inUse \in 0..Max /\ waiting \in Seq(Rank)
  /\ waiting # <<>> => inUse = Max
  /\ \A i, j \in 1..Len(waiting) : waiting[i].user = waiting[j].user => i = j
  /\ \A c \in Creation : pc[c] = "queued" <=> \E i \in 1..Len(waiting) : waiting[i].user = c

\* A run that asks for a permit gets one, or is put somewhere into the queue.
LEMMA AcquireSem ==
  ASSUME SemInv, NEW c \in Creation, pc[c] # "queued", pc \in [Creation -> Places],
         \/ AcquireAtOnce /\ Goto(c, "starting")
         \/ \E priority \in 0..1 : AcquireLater(c, priority) /\ Goto(c, "queued")
  PROVE  /\ SemInv'
         /\ \/ pc' = [pc EXCEPT ![c] = "starting"] /\ inUse' = inUse + 1
            \/ pc' = [pc EXCEPT ![c] = "queued"] /\ inUse' = inUse
<1>. DEFINE n == Len(waiting)
<1>0. Max \in Nat /\ Max # 0 /\ inUse \in 0..Max /\ waiting \in Seq(Rank) /\ n \in Nat
  BY MaxAssumption, LenProperties DEF SemInv
<1>1. CASE AcquireAtOnce /\ Goto(c, "starting")
  <2>1. waiting' = waiting /\ inUse' = inUse + 1 /\ inUse < Max
        /\ pc' = [pc EXCEPT ![c] = "starting"]
    BY <1>1 DEF AcquireAtOnce, Goto
  <2>2. waiting = <<>> /\ inUse' \in 0..Max
    BY <1>0, <2>1 DEF SemInv
  <2>3. \A x \in Creation : pc'[x] = "queued" <=> pc[x] = "queued"
    BY <2>1
  <2>. QED
    BY <1>0, <2>1, <2>2, <2>3 DEF SemInv
<1>2. CASE \E priority \in 0..1 : AcquireLater(c, priority) /\ Goto(c, "queued")
  <2>1. PICK priority \in 0..1 : AcquireLater(c, priority) /\ Goto(c, "queued")
    BY <1>2
  <2>. DEFINE rank == [user |-> c, priority |-> priority]
  <2>2. PICK k \in 1..n + 1 :
          waiting' = SubSeq(waiting, 1, k - 1) \o <<rank>> \o SubSeq(waiting, k, n)
    BY <2>1 DEF AcquireLater
  <2>3. inUse' = inUse /\ inUse = Max /\ pc' = [pc EXCEPT ![c] = "queued"]
    BY <1>0, <2>1 DEF AcquireLater, Goto
  <2>4. rank \in Rank /\ \A i \in 1..n : waiting[i] \in Rank
    BY <1>0, ElementOfSeq DEF Rank
  <2>5. rank.user = c
    OBVIOUS
  <2>. HIDE DEF rank
  <2>. DEFINE before == SubSeq(waiting, 1, k - 1)
              after == SubSeq(waiting, k, n)
  <2>6. /\ before \in Seq(Rank) /\ Len(before) = k - 1
        /\ \A i \in 1..k - 1 : before[i] = waiting[i]
    <3>1. k - 1 \in Int /\ 1 \in Int /\ \A i \in 1..k - 1 : waiting[i] \in Rank
      BY <1>0, <2>4
    <3>2. /\ before \in Seq(Rank)
          /\ Len(before) = IF 1 <= k - 1 THEN k - 1 - 1 + 1 ELSE 0
          /\ \A i \in 1..(k - 1) - 1 + 1 : before[i] = waiting[1 + i - 1]
      BY <3>1, SubSeqProperties
    <3>. QED
      BY <1>0, <3>2
  <2>7. /\ after \in Seq(Rank) /\ Len(after) = n - k + 1
        /\ \A i \in 1..n - k + 1 : after[i] = waiting[k + i - 1]
    <3>1. k \in Int /\ n \in Int /\ \A i \in k..n : waiting[i] \in Rank
      BY <1>0, <2>4
    <3>2. /\ after \in Seq(Rank)
          /\ Len(after) = IF k <= n THEN n - k + 1 ELSE 0
          /\ \A i \in 1..n - k + 1 : after[i] = waiting[k + i - 1]
      BY <3>1, SubSeqProperties
    <3>. QED
      BY <1>0, <3>2
  <2>. HIDE DEF before, after
  <2>8. <<rank>> \in Seq(Rank) /\ Len(<<rank>>) = 1 /\ <<rank>>[1] = rank
    BY <2>4
  <2>9. /\ before \o <<rank>> \in Seq(Rank) /\ Len(before \o <<rank>>) = k
        /\ \A i \in 1..k - 1 : (before \o <<rank>>)[i] = waiting[i]
        /\ (before \o <<rank>>)[k] = rank
    <3>1. /\ before \o <<rank>> \in Seq(Rank)
          /\ Len(before \o <<rank>>) = Len(before) + Len(<<rank>>)
          /\ \A i \in 1..Len(before) + Len(<<rank>>) : (before \o <<rank>>)[i] =
               IF i <= Len(before) THEN before[i] ELSE <<rank>>[i - Len(before)]
      BY <2>6, <2>8, ConcatProperties
    <3>. HIDE DEF n
    <3>. QED
      BY <1>0, <2>6, <2>8, <3>1
  <2>10. /\ waiting' \in Seq(Rank) /\ Len(waiting') = n + 1
         /\ \A i \in 1..k - 1 : waiting'[i] = waiting[i]
         /\ waiting'[k] = rank
         /\ \A i \in k + 1..n + 1 : waiting'[i] = waiting[i - 1]
    <3>0. waiting' = (before \o <<rank>>) \o after
      BY <2>2 DEF before, after
    <3>. DEFINE front == before \o <<rank>>
    <3>9. front \in Seq(Rank)
      BY <2>9
    <3>. HIDE DEF n, front
    <3>1. /\ front \o after \in Seq(Rank)
          /\ Len(front \o after) = Len(front) + Len(after)
          /\ \A i \in 1..Len(front) + Len(after) : (front \o after)[i] =
               IF i <= Len(front) THEN front[i] ELSE after[i - Len(front)]
      BY <2>7, <3>9, ConcatProperties
    <3>2. Len(front) = k /\ front[k] = rank /\ \A i \in 1..k - 1 : front[i] = waiting[i]
      BY <2>9 DEF front
    <3>3. waiting' = front \o after
      BY <3>0 DEF front
    <3>4. waiting' \in Seq(Rank) /\ Len(waiting') = n + 1
      BY <1>0, <2>7, <3>1, <3>2, <3>3
    <3>5. \A i \in 1..k : waiting'[i] = front[i]
      BY <1>0, <2>7, <3>1, <3>2, <3>3
    <3>6. ASSUME NEW i \in k + 1..n + 1 PROVE waiting'[i] = waiting[i - 1]
      <4>1. i \in 1..k + (n - k + 1) /\ ~(i <= k) /\ i - k \in 1..n - k + 1
            /\ k + (i - k) - 1 = i - 1
        BY <1>0
      <4>2. waiting'[i] = after[i - k]
        BY <2>7, <3>1, <3>2, <3>3, <4>1
      <4>. QED
        BY <2>7, <4>1, <4>2
    <3>. QED
      BY <1>0, <3>2, <3>4, <3>5, <3>6
  <2>. HIDE DEF n
  <2>11. \A i \in 1..n : waiting[i].user # c
    BY <1>0 DEF n, SemInv
  <2>12. \A i, j \in 1..n : waiting[i].user = waiting[j].user => i = j
    BY DEF n, SemInv
  <2>13. ASSUME NEW i \in 1..n + 1, NEW j \in 1..n + 1, waiting'[i].user = waiting'[j].user
         PROVE  i = j
    <3>. DEFINE old(m) == IF m < k THEN m ELSE m - 1
    <3>1. \A m \in 1..n + 1 : m # k => old(m) \in 1..n /\ waiting'[m] = waiting[old(m)]
      BY <1>0, <2>10
    <3>2. \A l, m \in 1..n + 1 : l # k /\ m # k /\ old(l) = old(m) => l = m
      BY <1>0
    <3>. QED
      BY <2>5, <2>10, <2>11, <2>12, <2>13, <3>1, <3>2
  <2>14. ASSUME NEW x \in Creation
         PROVE  pc'[x] = "queued" <=> \E i \in 1..n + 1 : waiting'[i].user = x
    <3>1. CASE x = c
      BY <1>0, <2>3, <2>5, <2>10, <3>1
    <3>2. CASE x # c
      <4>1. pc'[x] = "queued" <=> \E i \in 1..n : waiting[i].user = x
        BY <2>3, <3>2 DEF n, SemInv
      <4>2. ASSUME NEW i \in 1..n, waiting[i].user = x
            PROVE  \E j \in 1..n + 1 : waiting'[j].user = x
        <5>1. CASE i < k
          BY <1>0, <2>10, <4>2, <5>1
        <5>2. CASE ~(i < k)
          <6>1. i + 1 \in k + 1..n + 1 /\ i + 1 \in 1..n + 1 /\ (i + 1) - 1 = i
            BY <1>0, <5>2
          <6>. QED
            BY <2>10, <4>2, <6>1
        <5>. QED
          BY <5>1, <5>2
      <4>3. ASSUME NEW i \in 1..n + 1, waiting'[i].user = x
            PROVE  \E j \in 1..n : waiting[j].user = x
        <5>1. i # k
          BY <2>5, <2>10, <3>2, <4>3
        <5>2. CASE i < k
          BY <1>0, <2>10, <4>3, <5>2
        <5>3. CASE k < i
          <6>1. i \in k + 1..n + 1 /\ i - 1 \in 1..n
            BY <1>0, <5>3
          <6>. QED
            BY <2>10, <4>3, <6>1
        <5>. QED
          BY <1>0, <5>1, <5>2, <5>3
      <4>. QED
        BY <4>1, <4>2, <4>3
    <3>. QED
      BY <3>1, <3>2
  <2>. QED
    BY <1>0, <2>3, <2>10, <2>13, <2>14 DEF SemInv
<1>. QED
  BY <1>1, <1>2 DEF Goto, AcquireAtOnce, AcquireLater

\* A run that ends lets the first of the queue start, if there is one.
LEMMA FinishSem ==
  ASSUME SemInv, pc \in [Creation -> Places], NEW c \in Creation, pc[c] # "queued", Finish(c)
  PROVE  /\ SemInv' /\ pc' \in [Creation -> Places]
         /\ pc'[c] = "idle"
         /\ \/ /\ waiting = <<>> /\ inUse' = IF inUse = 0 THEN 0 ELSE inUse - 1
               /\ \A x \in Creation \ {c} : pc'[x] = pc[x]
            \/ /\ inUse' = inUse /\ inUse = Max
               /\ \E w \in Creation :
                    /\ pc[w] = "queued" /\ pc'[w] = "starting"
                    /\ \A x \in Creation \ {c, w} : pc'[x] = pc[x]
<1>0. Max \in Nat /\ Max # 0 /\ inUse \in 0..Max /\ waiting \in Seq(Rank) /\ Len(waiting) \in Nat
  BY MaxAssumption, LenProperties DEF SemInv
<1>1. /\ Release
      /\ pc' = [x \in Creation |-> IF x = c THEN "idle"
                                   ELSE IF x \in Served THEN "starting" ELSE pc[x]]
  BY DEF Finish
<1>2. pc' \in [Creation -> Places] /\ pc'[c] = "idle"
  BY <1>1 DEF Places
<1>3. CASE waiting = <<>>
  <2>1. Granted = 0
    BY <1>0, <1>3 DEF Granted, Less
  <2>2. Served = {}
    BY <2>1 DEF Served
  <2>3. inUse' = Less + 0 /\ waiting' = SubSeq(waiting, 1, Len(waiting)) /\ Less \in 0..Max
    BY <1>0, <1>1, <2>1 DEF Release, Less
  <2>4. waiting' = <<>> /\ inUse' = Less /\ inUse' \in 0..Max
    BY <1>3, <2>3, SubSeqFull
  <2>5. \A x \in Creation \ {c} : pc'[x] = pc[x]
    BY <1>1, <2>2
  <2>6. \A x \in Creation : pc'[x] # "queued"
    BY <1>0, <1>2, <1>3, <2>5 DEF SemInv
  <2>7. SemInv'
    BY <1>0, <1>3, <2>4, <2>6 DEF SemInv
  <2>. QED
    BY <1>2, <1>3, <2>4, <2>5, <2>7 DEF Less
<1>4. CASE waiting # <<>>
  <2>1. inUse = Max /\ Len(waiting) # 0
    BY <1>0, <1>4, EmptySeq DEF SemInv
  <2>2. Less = Max - 1 /\ Granted = 1
    <3>1. Less = Max - 1
      BY <1>0, <2>1 DEF Less
    <3>2. Max - Less = 1 /\ Len(waiting) >= 1
      BY <1>0, <2>1, <3>1
    <3>3. Granted = IF 1 < Len(waiting) THEN 1 ELSE Len(waiting)
      BY <3>2 DEF Granted
    <3>4. \A k \in Nat : k # 0 => 1 < k \/ k = 1
      OBVIOUS
    <3>. QED
      BY <1>0, <2>1, <3>1, <3>3, <3>4
  <2>. DEFINE w == waiting[1].user
              n == Len(waiting)
  <2>3. Served = {w}
    BY <2>2 DEF Served
  <2>4. inUse' = Max /\ waiting' = SubSeq(waiting, 2, n)
    BY <1>0, <1>1, <2>2 DEF Release
  <2>5. \A i \in 1..n : waiting[i] \in Rank
    BY <1>0, ElementOfSeq
  <2>6. /\ waiting' \in Seq(Rank) /\ Len(waiting') = n - 1
        /\ \A i \in 1..n - 1 : waiting'[i] = waiting[i + 1]
    <3>1. 2 \in Int /\ n \in Int /\ \A i \in 2..n : waiting[i] \in Rank
      BY <1>0, <2>5
    <3>2. /\ SubSeq(waiting, 2, n) \in Seq(Rank)
          /\ Len(SubSeq(waiting, 2, n)) = IF 2 <= n THEN n - 2 + 1 ELSE 0
          /\ \A i \in 1..n - 2 + 1 : SubSeq(waiting, 2, n)[i] = waiting[2 + i - 1]
      BY <3>1, SubSeqProperties
    <3>. HIDE DEF n
    <3>3. n \in Nat /\ n # 0
      BY <1>0, <2>1 DEF n
    <3>. QED
      BY <2>4, <3>2, <3>3
  <2>7. n \in Nat /\ n # 0 /\ 1 \in 1..n
    BY <1>0, <2>1
  <2>8. w \in Creation /\ pc[w] = "queued" /\ w # c
    BY <2>5, <2>7 DEF SemInv, Rank
  <2>9. pc'[w] = "starting" /\ \A x \in Creation \ {c, w} : pc'[x] = pc[x]
    BY <1>1, <2>3, <2>8
  <2>10. \A i, j \in 1..n : waiting[i].user = waiting[j].user => i = j
    BY DEF SemInv
  <2>11. \A x \in Creation : pc[x] = "queued" <=> \E i \in 1..n : waiting[i].user = x
    BY DEF SemInv
  <2>. HIDE DEF n
  <2>12. ASSUME NEW i \in 1..n - 1, NEW j \in 1..n - 1, waiting'[i].user = waiting'[j].user
         PROVE  i = j
    <3>1. i + 1 \in 1..n /\ j + 1 \in 1..n /\ waiting[i + 1].user = waiting[j + 1].user
      BY <2>6, <2>7, <2>12
    <3>2. i + 1 = j + 1
      BY <2>10, <3>1
    <3>. QED
      BY <3>2
  <2>13. ASSUME NEW x \in Creation
         PROVE  pc'[x] = "queued" <=> \E i \in 1..n - 1 : waiting'[i].user = x
    <3>1. ASSUME NEW i \in 1..n - 1 PROVE waiting'[i].user # w /\ waiting'[i].user # c
      <4>1. i + 1 \in 1..n /\ i + 1 # 1 /\ waiting'[i] = waiting[i + 1]
        BY <2>6, <2>7
      <4>. QED
        BY <2>7, <2>10, <2>11, <4>1
    <3>2. CASE x \in {c, w}
      BY <1>2, <2>9, <3>1, <3>2
    <3>3. CASE x \notin {c, w}
      <4>1. pc'[x] = "queued" <=> \E i \in 1..n : waiting[i].user = x
        BY <2>9, <2>11, <3>3
      <4>2. ASSUME NEW i \in 1..n, waiting[i].user = x
            PROVE  \E j \in 1..n - 1 : waiting'[j].user = x
        <5>1. i # 1
          BY <3>3, <4>2
        <5>2. i - 1 \in 1..n - 1 /\ (i - 1) + 1 = i
          BY <2>7, <5>1
        <5>3. waiting'[i - 1] = waiting[i]
          BY <2>6, <5>2
        <5>. QED
          BY <4>2, <5>2, <5>3
      <4>3. ASSUME NEW i \in 1..n - 1, waiting'[i].user = x
            PROVE  \E j \in 1..n : waiting[j].user = x
        <5>1. i + 1 \in 1..n /\ waiting'[i] = waiting[i + 1]
          BY <2>6, <2>7
        <5>. QED
          BY <4>3, <5>1
      <4>. QED
        BY <4>1, <4>2, <4>3
    <3>. QED
      BY <3>2, <3>3
  <2>14. SemInv'
    BY <1>0, <2>4, <2>6, <2>12, <2>13 DEF SemInv
  <2>. QED
    BY <1>2, <2>1, <2>4, <2>8, <2>9, <2>14
<1>. QED
  BY <1>3, <1>4

------------------------------------------------------------------------------
(* Runs of createOrAttach                                                  *)

\* A run has a pane, and an entry in the queue while it is queued.
RunInv ==
  /\ SemInv
  /\ pc \in [Creation -> Places] /\ paneOf \in [Creation -> Pane \cup {None}]
  /\ \A c \in Creation : pc[c] = "idle" <=> paneOf[c] = None
  /\ skip \subseteq Creation /\ pending \in [Pane -> Creation \cup {None}]

ListedType == listed \in [Creation -> SUBSET Pane]

Working == Places \ {"idle", "queued"}

\* A run that has left the queue goes from one place to the next.
Moves(c) ==
  /\ pc[c] # "ending"
  /\ \E place \in Working \ {"rejected", "starting"} : pc' = [pc EXCEPT ![c] = place]
  /\ UNCHANGED <<inUse, waiting, paneOf, skip, pending>>

LEMMA FinishRun ==
  ASSUME RunInv, NEW c \in Creation, pc[c] \in Working, Finish(c)
  PROVE  RunInv'
<1>1. pc[c] # "queued" /\ pc[c] # "idle" /\ SemInv /\ pc \in [Creation -> Places]
  BY DEF RunInv, Working
<1>2. SemInv' /\ pc' \in [Creation -> Places] /\ pc'[c] = "idle"
  BY <1>1, FinishSem
<1>3. \A x \in Creation : x # c => (pc'[x] = "idle" <=> pc[x] = "idle")
  <2>1. \/ \A x \in Creation \ {c} : pc'[x] = pc[x]
        \/ \E w \in Creation : /\ pc[w] = "queued" /\ pc'[w] = "starting"
                               /\ \A x \in Creation \ {c, w} : pc'[x] = pc[x]
    BY <1>1, FinishSem
  <2>. QED
    BY <2>1
<1>4. /\ paneOf' = [paneOf EXCEPT ![c] = None] /\ skip' = skip \ {c}
      /\ pending' = [pending EXCEPT ![paneOf[c]] = None]
  BY DEF Finish
<1>. QED
  BY <1>2, <1>3, <1>4 DEF RunInv

LEMMA MoveRun ==
  ASSUME RunInv, NEW c \in Creation, pc[c] \in Working, Moves(c)
  PROVE  RunInv'
<1>1. PICK place \in Working \ {"rejected", "starting"} : pc' = [pc EXCEPT ![c] = place]
  BY DEF Moves
<1>2. place \in Places /\ place # "idle" /\ place # "queued" /\ pc[c] # "idle" /\ pc[c] # "queued"
  BY DEF RunInv, Working
<1>3. \A x \in Creation : /\ pc'[x] = "queued" <=> pc[x] = "queued"
                          /\ pc'[x] = "idle" <=> pc[x] = "idle"
  BY <1>1, <1>2 DEF RunInv
<1>4. pc' \in [Creation -> Places]
  BY <1>1, <1>2 DEF RunInv
<1>5. SemInv'
  BY <1>3 DEF RunInv, SemInv, Moves
<1>. QED
  BY <1>3, <1>4, <1>5 DEF RunInv, Moves

\* A run with a permit either ends or goes on.
Running(c) ==
  \/ Start(c) \/ DaemonLists(c) \/ Hydrated(c) \/ ColdRestore(c) \/ NoColdRestore(c)
  \/ Cleared(c) \/ DaemonCreates(c) \/ Answered(c) \/ MetadataRead(c)
  \/ RequestRejected(c) \/ RequestFails(c)

LEMMA RouteMoves ==
  ASSUME NEW c \in Creation, NEW ids, Route(c, ids), pc[c] # "ending",
         UNCHANGED <<inUse, waiting, paneOf, skip, pending>>
  PROVE  Moves(c)
  BY DEF Route, Ask, Goto, Moves, Working, Places

LEMMA RunningRun ==
  ASSUME NEW c \in Creation, Running(c)
  PROVE  pc[c] \in Working \ {"rejected"} /\ (Finish(c) \/ Moves(c))
<1>. USE DEF Stay, Limiter, managerVars
<1>1. CASE Start(c)
  <2>1. CASE hydrated
    BY <1>1, <2>1, RouteMoves DEF Start, Working, Places
  <2>2. CASE ~hydrated
    BY <1>1, <2>2 DEF Start, Goto, Moves, Working, Places
  <2>. QED
    BY <2>1, <2>2
<1>2. CASE Hydrated(c)
  BY <1>2, RouteMoves DEF Hydrated, Working, Places
<1>3. CASE DaemonLists(c) \/ ColdRestore(c) \/ NoColdRestore(c) \/ Cleared(c)
  BY <1>3 DEF DaemonLists, ColdRestore, NoColdRestore, Cleared, Ask, Goto, Moves, Working, Places
<1>4. CASE DaemonCreates(c) \/ Answered(c) \/ MetadataRead(c) \/ RequestRejected(c)
             \/ RequestFails(c)
  BY <1>4 DEF DaemonCreates, Answered, Ends, MetadataRead, RequestRejected, RequestFails, Fails,
              Goto, Moves, Working, Places
<1>. QED
  BY <1>1, <1>2, <1>3, <1>4 DEF Running

LEMMA BeginRun ==
  ASSUME RunInv, NEW c \in Creation, NEW p \in Pane, Begin(c, p)
  PROVE  RunInv'
<1>1. pc[c] = "idle" /\ SemInv /\ pc \in [Creation -> Places]
  BY DEF Begin, RunInv
<1>2. \/ AcquireAtOnce /\ Goto(c, "starting")
      \/ \E priority \in 0..1 : AcquireLater(c, priority) /\ Goto(c, "queued")
  BY DEF Begin
<1>3. /\ SemInv'
      /\ pc' = [pc EXCEPT ![c] = "starting"] \/ pc' = [pc EXCEPT ![c] = "queued"]
  BY <1>1, <1>2, AcquireSem
<1>4. /\ paneOf' = [paneOf EXCEPT ![c] = p] /\ pending' = [pending EXCEPT ![p] = c]
      /\ skip' = skip \/ skip' = skip \cup {c}
  BY DEF Begin
<1>5. pc' \in [Creation -> Places] /\ pc'[c] # "idle"
      /\ \A x \in Creation : x # c => pc'[x] = pc[x]
  BY <1>1, <1>3 DEF Places
<1>6. p # None
  BY CreationAssumption
<1>. QED
  BY <1>3, <1>4, <1>5, <1>6 DEF RunInv

LEMMA RejectedRun ==
  ASSUME RunInv, NEW c \in Creation, Rejected(c)
  PROVE  RunInv'
<1>1. /\ pc[c] = "rejected" /\ pc' = [pc EXCEPT ![c] = "idle"]
      /\ pending' = [pending EXCEPT ![paneOf[c]] = None]
      /\ paneOf' = [paneOf EXCEPT ![c] = None] /\ skip' = skip \ {c}
      /\ UNCHANGED <<inUse, waiting>>
  BY DEF Rejected, Goto, Limiter
<1>2. pc' \in [Creation -> Places]
      /\ \A x \in Creation : pc'[x] = "queued" <=> pc[x] = "queued"
  BY <1>1 DEF RunInv, Places
<1>3. SemInv'
  BY <1>1, <1>2 DEF RunInv, SemInv
<1>. QED
  BY <1>1, <1>2, <1>3 DEF RunInv

LEMMA InterruptedPlace ==
  ASSUME NEW place \in Places
  PROVE  /\ Interrupted(place) \in Places
         /\ Interrupted(place) = "idle" <=> place = "idle"
         /\ Interrupted(place) = "queued" <=> place = "queued"
         /\ Interrupted(place) = "rejected" <=> place = "rejected"
         /\ Interrupted(place) \notin {"listing", "listed", "asked", "answered"}
  BY DEF Interrupted, Places

LEMMA DisconnectRun ==
  ASSUME RunInv, Disconnect
  PROVE  RunInv'
<1>1. /\ pc' = [c \in Creation |-> Interrupted(pc[c])]
      /\ UNCHANGED <<inUse, waiting, paneOf, skip, pending>>
  BY DEF Disconnect, Limiter
<1>2. \A c \in Creation : pc[c] \in Places
  BY DEF RunInv
<1>3. /\ pc' \in [Creation -> Places]
      /\ \A c \in Creation : (pc'[c] = "idle" <=> pc[c] = "idle")
      /\ \A c \in Creation : (pc'[c] = "queued" <=> pc[c] = "queued")
  BY <1>1, <1>2, InterruptedPlace
<1>4. SemInv'
  BY <1>1, <1>3 DEF RunInv, SemInv
<1>. QED
  BY <1>1, <1>3, <1>4 DEF RunInv

LEMMA ResetRun ==
  ASSUME RunInv, Reset
  PROVE  RunInv'
<1>1. /\ pc' = [c \in Creation |-> IF pc[c] = "queued" THEN "rejected" ELSE Interrupted(pc[c])]
      /\ inUse' = 0 /\ waiting' = <<>> /\ pending' = [p \in Pane |-> None]
      /\ UNCHANGED <<paneOf, skip>>
  BY DEF Reset, SemaphoreReset
<1>2. \A c \in Creation : pc[c] \in Places
  BY DEF RunInv
<1>3. /\ pc' \in [Creation -> Places]
      /\ \A c \in Creation : (pc'[c] = "idle" <=> pc[c] = "idle")
      /\ \A c \in Creation : pc'[c] # "queued"
  <2>1. "rejected" \in Places
    BY DEF Places
  <2>. QED
    BY <1>1, <1>2, <2>1, InterruptedPlace
<1>4. SemInv'
  BY <1>1, <1>3, MaxAssumption DEF SemInv
<1>. QED
  BY <1>1, <1>3, <1>4 DEF RunInv

\* Steps of others.
Aside(p) ==
  \/ Join(p) \/ LateCreate(p) \/ ExitEvent(p) \/ CleanupTimer(p) \/ UnknownEvent(p)
  \/ KillGoesOn(p) \/ History(InitDone(p)) \/ History(CloseDone(p)) \/ SessionExits(p)
  \/ WriteLost(p) \/ ClearSequence(p) \/ Kill(p) \/ History(InitFails(p))

LEMMA AsideRun ==
  ASSUME NEW p \in Pane, Aside(p)
  PROVE  UNCHANGED <<inUse, waiting, runVars, pending>>
  BY DEF Aside, Join, LateCreate, ExitEvent, CleanupTimer, UnknownEvent, KillGoesOn, History,
         SessionExits, WriteLost, ClearSequence, Kill, Limiter, managerVars, runVars

\* What a step can be.
LEMMA Steps ==
  ASSUME [Next]_vars
  PROVE  \/ \E c \in Creation : Running(c) \/ Rejected(c) \/ \E p \in Pane : Begin(c, p)
         \/ \E p \in Pane : Aside(p)
         \/ Disconnect \/ Reset \/ UNCHANGED vars
  BY DEF Next, RunNext, EventNext, Disturbance, Running, Aside

LEMMA RunNextInv == RunInv /\ [Next]_vars => RunInv'
<1>. SUFFICES ASSUME RunInv, [Next]_vars PROVE RunInv'
  OBVIOUS
<1>1. ASSUME NEW c \in Creation, Running(c) PROVE RunInv'
  BY <1>1, RunningRun, FinishRun, MoveRun
<1>2. ASSUME NEW p \in Pane, Aside(p) PROVE RunInv'
  BY <1>2, AsideRun DEF runVars, RunInv, SemInv
<1>3. CASE UNCHANGED vars
  BY <1>3 DEF vars, runVars, managerVars, RunInv, SemInv
<1>. QED
  BY <1>1, <1>2, <1>3, Steps, BeginRun, RejectedRun, DisconnectRun, ResetRun

------------------------------------------------------------------------------
(* Types                                                                   *)

ManType ==
  /\ session \in [Pane -> {"none", "alive", "exited", "killed", "lost"}]
  /\ tombs \subseteq Pane /\ aliveIds \subseteq Pane /\ cold \subseteq Pane
  /\ timer \subseteq Pane /\ stray \in [Pane -> 0..MaxInFlight] /\ killing \subseteq Pane

DaeType ==
  /\ hosted \subseteq Pane /\ dying \subseteq Pane /\ late \subseteq Pane
  /\ attached \subseteq Pane /\ exits \in [Pane -> 0..MaxInFlight] /\ unknown \subseteq Pane
  /\ slipped \subseteq Pane

FlagType == hydrated \in BOOLEAN /\ wasReset \in BOOLEAN

\* The types of the parts are the types of all, now and after a step.
LEMMA TypeParts ==
  ASSUME RunInv, ListedType, HistoryTypeOK, ManType, DaeType, FlagType, trouble \in 0..MaxTrouble
  PROVE  TypeOK
<1>1. inUse \in Nat /\ waiting \in Seq([user : Creation, priority : 0..1])
  BY MaxAssumption DEF RunInv, SemInv, Rank
<1>. QED
  BY <1>1 DEF RunInv, ListedType, ManType, DaeType, FlagType, TypeOK

\* What holds of every pane's writers and files after a step.
LEMMA HistoryNext ==
  ASSUME HistoryTypeOK, NEW p \in Pane,
         \/ StartsInit(p) \/ CloseWriter(p) \/ ClearWriter(p) \/ RemoveFiles(p)
         \/ InitDone(p) \/ InitFails(p) \/ CloseDone(p)
  PROVE  HistoryTypeOK'
<1>0. MaxInFlight \in Nat
  BY MaxInFlightAssumption
<1>1. CASE StartsInit(p)
  BY <1>0, <1>1 DEF StartsInit, HistoryTypeOK
<1>2. CASE CloseWriter(p)
  BY <1>0, <1>2 DEF CloseWriter, HistoryTypeOK
<1>3. CASE ClearWriter(p)
  BY <1>0, <1>3 DEF ClearWriter, HistoryTypeOK
<1>4. CASE RemoveFiles(p)
  BY <1>0, <1>4 DEF RemoveFiles, HistoryTypeOK
<1>5. CASE InitDone(p) \/ InitFails(p)
  BY <1>0, <1>5 DEF InitDone, InitFails, HistoryTypeOK
<1>6. CASE CloseDone(p)
  BY <1>0, <1>6 DEF CloseDone, HistoryTypeOK
<1>. QED
  BY <1>1, <1>2, <1>3, <1>4, <1>5, <1>6

\* A step does one thing to the history of one pane, or closes all.
HistoryStep(p) ==
  \/ StartsInit(p) \/ CloseWriter(p) \/ ClearWriter(p) \/ RemoveFiles(p)
  \/ InitDone(p) \/ InitFails(p) \/ CloseDone(p) \/ UNCHANGED historyVars

LEMMA RunningHistory ==
  ASSUME NEW c \in Creation, Running(c)
  PROVE  HistoryStep(paneOf[c])
<1>. USE DEF HistoryStep
<1>1. CASE Start(c) \/ Hydrated(c)
  BY <1>1 DEF Start, Hydrated, Route
<1>2. CASE DaemonLists(c) \/ ColdRestore(c) \/ NoColdRestore(c) \/ Cleared(c)
  BY <1>2 DEF DaemonLists, ColdRestore, NoColdRestore, Cleared
<1>3. CASE DaemonCreates(c) \/ Answered(c) \/ MetadataRead(c) \/ RequestRejected(c)
             \/ RequestFails(c)
  BY <1>3 DEF DaemonCreates, Answered, MetadataRead, RequestRejected, RequestFails, Fails
<1>. QED
  BY <1>1, <1>2, <1>3 DEF Running

LEMMA AsideHistory ==
  ASSUME NEW p \in Pane, Aside(p)
  PROVE  HistoryStep(p)
  BY DEF HistoryStep, Aside, Join, LateCreate, ExitEvent, CleanupTimer, UnknownEvent, KillGoesOn,
         History, SessionExits, WriteLost, ClearSequence, Kill

LEMMA RunPane ==
  ASSUME RunInv, NEW c \in Creation, pc[c] # "idle"
  PROVE  paneOf[c] \in Pane
  BY DEF RunInv

LEMMA HistoryTypeNext == RunInv /\ HistoryTypeOK /\ [Next]_vars => HistoryTypeOK'
<1>. SUFFICES ASSUME RunInv, HistoryTypeOK, [Next]_vars PROVE HistoryTypeOK'
  OBVIOUS
<1>1. CASE UNCHANGED historyVars
  BY <1>1 DEF historyVars, HistoryTypeOK
<1>2. ASSUME NEW p \in Pane, HistoryStep(p) PROVE HistoryTypeOK'
  BY <1>1, <1>2, HistoryNext DEF HistoryStep
<1>3. ASSUME NEW c \in Creation, Running(c) PROVE HistoryTypeOK'
  <2>1. paneOf[c] \in Pane
    BY <1>3, RunningRun, RunPane DEF Working
  <2>. QED
    BY <1>2, <1>3, <2>1, RunningHistory
<1>4. ASSUME NEW p \in Pane, Aside(p) PROVE HistoryTypeOK'
  BY <1>2, <1>4, AsideHistory
<1>5. CASE Reset
  BY <1>5, MaxInFlightAssumption DEF Reset, CloseAll, HistoryTypeOK
<1>6. ASSUME NEW c \in Creation, Rejected(c) \/ \E p \in Pane : Begin(c, p)
      PROVE  HistoryTypeOK'
  BY <1>1, <1>6 DEF Rejected, Begin
<1>7. CASE Disconnect \/ UNCHANGED vars
  BY <1>1, <1>7 DEF Disconnect, vars
<1>. QED
  BY <1>3, <1>4, <1>5, <1>6, <1>7, Steps

LEMMA ListedNext == ListedType /\ DaeType /\ [Next]_vars => ListedType'
<1>. SUFFICES ASSUME ListedType, DaeType, [Next]_vars PROVE ListedType'
  OBVIOUS
<1>. USE DEF ListedType
<1>1. ASSUME NEW c \in Creation, Running(c) PROVE ListedType'
  <2>1. \/ listed' = listed \/ listed' = [listed EXCEPT ![c] = {}]
        \/ listed' = [listed EXCEPT ![c] = hosted]
    BY <1>1 DEF Running, Start, DaemonLists, Hydrated, ColdRestore, NoColdRestore, Cleared,
                DaemonCreates, Answered, Ends, MetadataRead, RequestRejected, RequestFails, Fails,
                Finish, Stay
  <2>. QED
    BY <2>1 DEF DaeType
<1>2. ASSUME NEW p \in Pane, Aside(p) PROVE ListedType'
  BY <1>2, AsideRun DEF runVars
<1>3. CASE Disconnect \/ Reset
  BY <1>3 DEF Disconnect, Reset
<1>4. ASSUME NEW c \in Creation, Rejected(c) \/ \E p \in Pane : Begin(c, p) PROVE ListedType'
  BY <1>4 DEF Rejected, Begin
<1>5. CASE UNCHANGED vars
  BY <1>5 DEF vars, runVars
<1>. QED
  BY <1>1, <1>2, <1>3, <1>4, <1>5, Steps

LEMMA RunningType ==
  ASSUME RunInv, ListedType, ManType, DaeType, NEW c \in Creation, Running(c)
  PROVE  ManType' /\ DaeType'
<1>1. paneOf[c] \in Pane /\ listed[c] \subseteq Pane
  BY RunningRun, RunPane DEF Working, ListedType
<1>. USE DEF historyNotes, daemonVars, managerVars
<1>2. ManType'
  <2>1. CASE Start(c) \/ DaemonLists(c) \/ Hydrated(c)
    BY <1>1, <2>1 DEF ManType, Start, DaemonLists, Hydrated
  <2>2. CASE ColdRestore(c) \/ NoColdRestore(c) \/ Cleared(c) \/ DaemonCreates(c)
    BY <1>1, <2>2 DEF ManType, ColdRestore, NoColdRestore, Cleared, DaemonCreates
  <2>3. CASE Answered(c) \/ MetadataRead(c) \/ RequestRejected(c) \/ RequestFails(c)
    BY <1>1, <2>3 DEF ManType, Answered, MetadataRead, RequestRejected, RequestFails, Fails
  <2>. QED
    BY <2>1, <2>2, <2>3 DEF Running
<1>3. DaeType'
  <2>1. CASE Start(c) \/ DaemonLists(c) \/ Hydrated(c)
    BY <1>1, <2>1 DEF DaeType, Start, DaemonLists, Hydrated, Route, Ask
  <2>2. CASE ColdRestore(c) \/ NoColdRestore(c) \/ Cleared(c) \/ DaemonCreates(c)
    BY <1>1, <2>2 DEF DaeType, ColdRestore, NoColdRestore, Cleared, DaemonCreates, Ask
  <2>3. CASE Answered(c) \/ MetadataRead(c) \/ RequestRejected(c) \/ RequestFails(c)
    BY <1>1, <2>3 DEF DaeType, Answered, MetadataRead, RequestRejected, RequestFails, Fails
  <2>. QED
    BY <2>1, <2>2, <2>3 DEF Running
<1>. QED
  BY <1>2, <1>3

LEMMA AsideType ==
  ASSUME ManType, DaeType, NEW p \in Pane, Aside(p)
  PROVE  ManType' /\ DaeType'
<1>0. MaxInFlight \in Nat
  BY MaxInFlightAssumption
<1>. USE DEF historyNotes, daemonVars, managerVars
<1>1. ManType'
  <2>1. CASE Join(p) \/ LateCreate(p) \/ UnknownEvent(p) \/ SessionExits(p) \/ WriteLost(p)
    BY <2>1 DEF ManType, Join, LateCreate, UnknownEvent, SessionExits, WriteLost
  <2>2. CASE ExitEvent(p)
    BY <1>0, <2>2 DEF ManType, ExitEvent, Ended
  <2>3. CASE CleanupTimer(p)
    BY <1>0, <2>3 DEF ManType, CleanupTimer
  <2>4. CASE KillGoesOn(p) \/ Kill(p)
    BY <2>4 DEF ManType, KillGoesOn, Kill, MarkKilled
  <2>5. CASE History(InitDone(p)) \/ History(CloseDone(p)) \/ ClearSequence(p) \/ History(InitFails(p))
    BY <2>5 DEF ManType, History, ClearSequence
  <2>. QED
    BY <2>1, <2>2, <2>3, <2>4, <2>5 DEF Aside
<1>2. DaeType'
  <2>1. CASE Join(p) \/ LateCreate(p) \/ UnknownEvent(p) \/ WriteLost(p) \/ CleanupTimer(p)
    BY <2>1 DEF DaeType, Join, LateCreate, UnknownEvent, WriteLost, CleanupTimer
  <2>2. CASE SessionExits(p) \/ ExitEvent(p)
    BY <1>0, <2>2 DEF DaeType, SessionExits, ExitEvent, SlipsAgain
  <2>3. CASE KillGoesOn(p) \/ Kill(p)
    BY <2>3 DEF DaeType, KillGoesOn, Kill, KillRequest, Slips, SlipsLate
  <2>4. CASE History(InitDone(p)) \/ History(CloseDone(p)) \/ ClearSequence(p) \/ History(InitFails(p))
    BY <2>4 DEF DaeType, History, ClearSequence
  <2>. QED
    BY <2>1, <2>2, <2>3, <2>4 DEF Aside
<1>. QED
  BY <1>1, <1>2

LEMMA ManDaeNext ==
  RunInv /\ ListedType /\ ManType /\ DaeType /\ [Next]_vars => ManType' /\ DaeType'
<1>. SUFFICES ASSUME RunInv, ListedType, ManType, DaeType, [Next]_vars PROVE ManType' /\ DaeType'
  OBVIOUS
<1>0. MaxInFlight \in Nat
  BY MaxInFlightAssumption
<1>. USE DEF historyNotes, daemonVars, managerVars
<1>1. ASSUME NEW c \in Creation, Rejected(c) \/ \E p \in Pane : Begin(c, p)
      PROVE  ManType' /\ DaeType'
  BY <1>1 DEF ManType, DaeType, Rejected, Begin
<1>2. CASE Disconnect
  <2>1. Abandoned \subseteq Pane
    BY RunPane DEF Abandoned, RunInv
  <2>. QED
    BY <1>0, <1>2, <2>1 DEF ManType, DaeType, Disconnect
<1>3. CASE Reset
  BY <1>0, <1>3 DEF ManType, DaeType, Reset
<1>4. CASE UNCHANGED vars
  BY <1>4 DEF ManType, DaeType, vars
<1>. QED
  BY <1>1, <1>2, <1>3, <1>4, Steps, RunningType, AsideType

LEMMA FlagNext == FlagType /\ [Next]_vars => FlagType'
<1>. SUFFICES ASSUME FlagType, [Next]_vars PROVE FlagType'
  OBVIOUS
<1>1. hydrated' = hydrated \/ hydrated' = TRUE \/ hydrated' = FALSE
  BY Steps DEF Running, Start, DaemonLists, Hydrated, ColdRestore, NoColdRestore, Cleared,
       DaemonCreates, Answered, MetadataRead, RequestRejected, RequestFails, Fails, Rejected,
       Begin, Aside, Join, LateCreate, ExitEvent, CleanupTimer, UnknownEvent, KillGoesOn, History,
       SessionExits, WriteLost, ClearSequence, Kill, Disconnect, Reset, managerVars, vars
<1>2. wasReset' = wasReset \/ wasReset' = (wasReset \/ \E c \in Creation : pc[c] # "idle")
  BY Steps DEF Running, Start, DaemonLists, Hydrated, ColdRestore, NoColdRestore, Cleared,
       DaemonCreates, Answered, MetadataRead, RequestRejected, RequestFails, Fails, Rejected,
       Begin, Aside, Join, LateCreate, ExitEvent, CleanupTimer, UnknownEvent, KillGoesOn, History,
       SessionExits, WriteLost, ClearSequence, Kill, Disconnect, Reset, historyNotes, vars
<1>. QED
  BY <1>1, <1>2 DEF FlagType

TypeInv == /\ RunInv /\ ListedType /\ HistoryTypeOK /\ ManType /\ DaeType /\ FlagType
           /\ trouble \in 0..MaxTrouble

LEMMA TypeNext == TypeInv /\ [Next]_vars => TypeInv'
<1>. SUFFICES ASSUME TypeInv, [Next]_vars PROVE TypeInv'
  OBVIOUS
<1>1. trouble' \in 0..MaxTrouble
  BY CreationAssumption DEF TypeInv, Next, vars
<1>2. RunInv' /\ ListedType'
  BY RunNextInv, ListedNext DEF TypeInv
<1>3. HistoryTypeOK' /\ ManType' /\ DaeType' /\ FlagType'
  BY HistoryTypeNext, ManDaeNext, FlagNext DEF TypeInv
<1>. QED
  BY <1>1, <1>2, <1>3 DEF TypeInv

LEMMA TypeInit == Init => TypeInv
<1>. SUFFICES ASSUME Init PROVE TypeInv
  OBVIOUS
<1>1. RunInv
  BY MaxAssumption DEF Init, SemaphoreInit, RunInv, SemInv, Places
<1>2. ListedType /\ trouble \in 0..MaxTrouble
  BY CreationAssumption DEF Init, ListedType
<1>6. FlagType
  BY DEF Init, FlagType
<1>3. HistoryTypeOK
  BY MaxInFlightAssumption DEF Init, HistoryInit, HistoryTypeOK
<1>4. ManType
  BY MaxInFlightAssumption DEF Init, ManType
<1>5. DaeType
  BY MaxInFlightAssumption, CreationAssumption DEF Init, DaeType
<1>. QED
  BY <1>1, <1>2, <1>3, <1>4, <1>5, <1>6 DEF TypeInv

\* The limiter, the history, the manager and the daemon keep their types, for any
\* number of panes and runs of createOrAttach.
THEOREM TypeCorrect == Spec => []TypeOK
<1>1. TypeInv => TypeOK
  BY TypeParts DEF TypeInv
<1>. QED
  BY TypeInit, TypeNext, <1>1, PTL DEF Spec

------------------------------------------------------------------------------
(* The effects of a run                                                    *)

\* While a run goes on or ends, the others stay where they are, but for one that the
\* limiter lets start.
LEMMA OthersStay ==
  ASSUME RunInv, NEW c \in Creation, Running(c) \/ Rejected(c)
  PROVE  /\ \A x \in Creation \ {c} :
              /\ paneOf'[x] = paneOf[x]
              /\ pc'[x] = pc[x] \/ (pc[x] = "queued" /\ pc'[x] = "starting")
         /\ \/ pc'[c] = "idle" /\ paneOf'[c] = None
            \/ Moves(c) /\ paneOf'[c] = paneOf[c]
<1>1. CASE Rejected(c)
  BY <1>1 DEF Rejected, Goto, RunInv
<1>2. CASE Running(c)
  <2>1. pc[c] \in Working \ {"rejected"} /\ (Finish(c) \/ Moves(c))
    BY <1>2, RunningRun
  <2>2. CASE Moves(c)
    BY <2>2 DEF Moves, RunInv
  <2>3. CASE Finish(c)
    <3>1. /\ pc'[c] = "idle"
          /\ \A x \in Creation \ {c} : pc'[x] = pc[x] \/ (pc[x] = "queued" /\ pc'[x] = "starting")
      BY <2>1, <2>3, FinishSem DEF RunInv, Working
    <3>2. paneOf' = [paneOf EXCEPT ![c] = None]
      BY <2>3 DEF Finish
    <3>. QED
      BY <3>1, <3>2 DEF RunInv
  <2>. QED
    BY <2>1, <2>2, <2>3
<1>. QED
  BY <1>1, <1>2

\* Only Begin puts a run under way.
LEMMA NoNewRun ==
  ASSUME RunInv, NEW p \in Pane, InProgress(p)',
         \/ \E c \in Creation : Running(c) \/ Rejected(c)
         \/ \E q \in Pane : Aside(q)
         \/ Disconnect \/ Reset \/ UNCHANGED vars
  PROVE  InProgress(p)
<1>0. None \notin Pane
  BY CreationAssumption
<1>1. PICK x \in Creation : paneOf'[x] = p /\ pc'[x] # "ending"
  BY DEF InProgress
<1>2. CASE \E c \in Creation : Running(c) \/ Rejected(c)
  BY <1>0, <1>1, <1>2, OthersStay DEF InProgress, Moves
<1>3. CASE \E q \in Pane : Aside(q)
  BY <1>1, <1>3, AsideRun DEF InProgress, runVars
<1>4. CASE Disconnect \/ Reset
  BY <1>1, <1>4 DEF Disconnect, Reset, Interrupted, InProgress, RunInv
<1>5. CASE UNCHANGED vars
  BY <1>1, <1>5 DEF vars, runVars, InProgress
<1>. QED
  BY <1>2, <1>3, <1>4, <1>5

\* What a run can do to the daemon and to the session of its pane.
LEMMA RunEffects ==
  ASSUME NEW c \in Creation, Running(c)
  PROVE  /\ UNCHANGED <<tombs, stray, killing, slipped>>
         /\ \/ Ask(c) /\ UNCHANGED <<session, timer>>
            \/ DaemonCreates(c)
            \/ Answered(c)
            \/ /\ UNCHANGED <<session, timer, hosted, dying, attached, exits>>
               /\ \/ UNCHANGED late
                  \/ pc[c] = "asked" /\ late' = late \cup {paneOf[c]}
               /\ \/ Finish(c)
                  \/ \E place \in {"listing", "listed", "reading", "clearing"} :
                       pc' = [pc EXCEPT ![c] = place]
<1>. USE DEF historyNotes, daemonVars, managerVars
<1>1. CASE Start(c)
  BY <1>1 DEF Start, Route, Goto
<1>2. CASE DaemonLists(c) \/ Hydrated(c)
  BY <1>2 DEF DaemonLists, Hydrated, Route, Goto
<1>3. CASE ColdRestore(c) \/ NoColdRestore(c) \/ Cleared(c)
  BY <1>3 DEF ColdRestore, NoColdRestore, Cleared
<1>4. CASE MetadataRead(c) \/ RequestRejected(c) \/ RequestFails(c)
  BY <1>4 DEF MetadataRead, RequestRejected, RequestFails, Fails
<1>5. CASE DaemonCreates(c) \/ Answered(c)
  BY <1>5 DEF DaemonCreates, Answered
<1>. QED
  BY <1>1, <1>2, <1>3, <1>4, <1>5 DEF Running

------------------------------------------------------------------------------
(* The cleanup of sessions that have ended                                 *)

\* Only after an exit while a timer is due does a timer run without an entry; and the
\* entry is cancelled when a session is alive again.
TimerInv ==
  \A p \in Pane \ slipped : stray[p] = 0 /\ (session[p] = "alive" => p \notin timer)

LEMMA TimerNext == TypeInv /\ TimerInv /\ [Next]_vars => TimerInv'
<1>. SUFFICES ASSUME TypeInv, TimerInv, [Next]_vars PROVE TimerInv'
  OBVIOUS
<1>. USE DEF TimerInv, TypeInv, ManType
<1>1. ASSUME NEW c \in Creation, Running(c) PROVE TimerInv'
  <2>1. CASE UNCHANGED <<session, timer, stray, slipped>>
    BY <2>1
  <2>2. CASE Answered(c)
    BY <2>2 DEF Answered, historyNotes
  <2>3. CASE DaemonCreates(c)
    BY <2>3 DEF DaemonCreates, managerVars, historyNotes
  <2>. QED
    BY <1>1, <2>1, <2>2, <2>3, RunEffects
<1>2. ASSUME NEW p \in Pane, Aside(p) PROVE TimerInv'
  <2>1. CASE ExitEvent(p)
    BY <2>1 DEF ExitEvent, Ended, SlipsAgain
  <2>2. CASE CleanupTimer(p)
    BY <2>2 DEF CleanupTimer, historyNotes
  <2>3. CASE UnknownEvent(p)
    BY <2>3 DEF UnknownEvent, historyNotes
  <2>4. CASE Kill(p) \/ KillGoesOn(p)
    BY <2>4 DEF Kill, MarkKilled, KillGoesOn, Slips, SlipsLate, historyNotes
  <2>5. CASE UNCHANGED <<session, timer, stray, slipped>>
    BY <2>5
  <2>. QED
    BY <1>2, <2>1, <2>2, <2>3, <2>4, <2>5
    DEF Aside, Join, LateCreate, SessionExits, WriteLost, ClearSequence, History, managerVars,
        historyNotes
<1>3. ASSUME NEW c \in Creation, Rejected(c) \/ \E p \in Pane : Begin(c, p) PROVE TimerInv'
  BY <1>3 DEF Rejected, Begin, historyNotes
<1>4. CASE Disconnect \/ Reset
  BY <1>4 DEF Disconnect, Reset, historyNotes
<1>5. CASE UNCHANGED vars
  BY <1>5 DEF vars, managerVars, historyNotes
<1>. QED
  BY <1>1, <1>2, <1>3, <1>4, <1>5, Steps

\* A step other than reset that takes a live session away belongs to a slipped pane.
LEMMA SparesNext ==
  ASSUME TypeInv, TimerInv, [Next]_vars, NEW p \in Pane, session[p] = "alive",
         session'[p] = "none"
  PROVE  Reset \/ p \in slipped
<1>. USE DEF TypeInv, ManType
<1>1. ASSUME NEW c \in Creation, Running(c) PROVE FALSE
  BY <1>1, RunEffects DEF Answered, DaemonCreates, managerVars
<1>2. ASSUME NEW q \in Pane, Aside(q), ~CleanupTimer(q) PROVE FALSE
  BY <1>2 DEF Aside, Join, LateCreate, ExitEvent, Ended, UnknownEvent, KillGoesOn, Kill,
       MarkKilled, SessionExits, WriteLost, ClearSequence, History, managerVars
<1>3. ASSUME NEW q \in Pane, CleanupTimer(q) PROVE p \in slipped
  BY <1>3 DEF CleanupTimer, TimerInv
<1>4. ASSUME NEW c \in Creation, Rejected(c) \/ \E q \in Pane : Begin(c, q) PROVE FALSE
  BY <1>4 DEF Rejected, Begin
<1>5. CASE Disconnect \/ UNCHANGED vars
  BY <1>5 DEF Disconnect, vars, managerVars
<1>. QED
  BY <1>1, <1>2, <1>3, <1>4, <1>5, Steps

\* Five seconds after an exit the session is forgotten; never while the pane has a
\* session that is alive, unless an exit came out of turn.
THEOREM CleanupSparesLiveAlways == Spec => CleanupSparesLive
<1>1. Init => TimerInv
  BY DEF Init, TimerInv
<1>2. TypeInv /\ TimerInv /\ [Next]_vars =>
        [\A p \in Pane : session[p] = "alive" /\ session'[p] = "none" =>
           Reset \/ p \in slipped]_vars
  BY SparesNext
<1>. QED
  BY TypeInit, TypeNext, TimerNext, <1>1, <1>2, PTL DEF Spec, CleanupSparesLive

------------------------------------------------------------------------------
(* Sessions that count as alive                                            *)

\* The daemon has a session of the pane, or news of its end is on the way, or the app
\* is not told.
Attended(p) == p \in hosted \cup dying \/ exits[p] > 0 \/ p \notin attached

\* The answer of a createOrAttach on its way counts like a session that is alive; and
\* a session that was told to end does neither.
Believed(p) ==
  /\ session[p] = "alive" => Attended(p)
  /\ \A c \in Creation : paneOf[c] = p /\ pc[c] = "answered" => Attended(p)
  /\ p \in dying => /\ session[p] # "alive"
                    /\ \A c \in Creation : paneOf[c] = p => pc[c] \notin {"asked", "answered"}

BelievedInv == \A p \in Pane \ slipped : Believed(p)

\* A step that leaves the sessions alone and brings no run to its answer.
LEMMA BelievedStays ==
  ASSUME BelievedInv, UNCHANGED <<session, hosted, dying, attached, exits, slipped>>,
         \A c \in Creation : pc'[c] \in {"asked", "answered"} =>
           pc'[c] = pc[c] /\ paneOf'[c] = paneOf[c]
  PROVE  BelievedInv'
  BY DEF BelievedInv, Believed, Attended

LEMMA RunningBelieved ==
  ASSUME TypeInv, BelievedInv, NEW c \in Creation, Running(c)
  PROVE  BelievedInv'
<1>0. /\ slipped' = slipped
      /\ \A x \in Creation \ {c} :
           /\ paneOf'[x] = paneOf[x]
           /\ pc'[x] = pc[x] \/ (pc[x] = "queued" /\ pc'[x] = "starting")
      /\ (pc'[c] = "idle" /\ paneOf'[c] = None) \/ paneOf'[c] = paneOf[c]
  BY RunEffects, OthersStay DEF TypeInv
<1>00. paneOf[c] \in Pane /\ pc \in [Creation -> Places]
  BY RunningRun, RunPane DEF TypeInv, RunInv, Working
<1>1. CASE Ask(c) /\ UNCHANGED session
  <2>1. /\ UNCHANGED <<session, hosted, exits>>
        /\ dying' = dying \ {paneOf[c]}
        /\ attached' = IF paneOf[c] \in hosted THEN attached \cup {paneOf[c]} ELSE attached
        /\ pc' = [pc EXCEPT ![c] = IF paneOf[c] \in hosted THEN "answered" ELSE "asked"]
    BY <1>1 DEF Ask, Goto
  <2>2. \A x \in Creation \ {c} : pc'[x] = pc[x]
    BY <2>1, <1>00
  <2>3. pc'[c] = "answered" => paneOf[c] \in hosted
    BY <2>1, <1>00
  <2>4. ASSUME NEW p \in Pane \ slipped, Believed(p) PROVE Believed(p)'
    <3>1. CASE p # paneOf[c]
      BY <1>0, <2>1, <2>2, <2>4, <3>1, <1>00, CreationAssumption DEF Believed, Attended
    <3>2. CASE p = paneOf[c]
      BY <1>0, <2>1, <2>2, <2>3, <2>4, <3>2, <1>00, CreationAssumption DEF Believed, Attended
    <3>. QED
      BY <3>1, <3>2
  <2>. QED
    BY <1>0, <2>4 DEF BelievedInv
<1>2. CASE DaemonCreates(c)
  <2>1. /\ UNCHANGED <<session, exits, dying, paneOf>> /\ pc[c] = "asked"
        /\ hosted' = hosted \cup {paneOf[c]} /\ attached' = attached \cup {paneOf[c]}
        /\ pc' = [pc EXCEPT ![c] = "answered"]
    BY <1>2 DEF DaemonCreates, Goto, managerVars
  <2>2. ASSUME NEW p \in Pane \ slipped, Believed(p) PROVE Believed(p)'
    BY <1>0, <2>1, <2>2, <1>00 DEF Believed, Attended
  <2>. QED
    BY <1>0, <2>2 DEF BelievedInv
<1>3. CASE Answered(c)
  <2>1. /\ UNCHANGED <<hosted, dying, attached, exits>> /\ pc[c] = "answered"
        /\ session' = [session EXCEPT ![paneOf[c]] = "alive"]
    BY <1>3 DEF Answered, daemonVars
  <2>2. pc'[c] \notin {"asked", "answered"}
    <3>1. CASE Finish(c)
      BY <3>1, <2>1 DEF Finish
    <3>2. CASE Goto(c, "ending")
      BY <3>2, <1>00 DEF Goto
    <3>. QED
      BY <1>3, <3>1, <3>2 DEF Answered, Ends
  <2>3. ASSUME NEW p \in Pane \ slipped, Believed(p) PROVE Believed(p)'
    BY <1>0, <2>1, <2>2, <2>3, <1>00 DEF Believed, Attended, TypeInv, ManType
  <2>. QED
    BY <1>0, <2>3 DEF BelievedInv
<1>4. CASE /\ UNCHANGED <<session, hosted, dying, attached, exits>>
           /\ \/ Finish(c)
              \/ \E place \in {"listing", "listed", "reading", "clearing"} :
                   pc' = [pc EXCEPT ![c] = place]
  <2>1. pc'[c] \notin {"asked", "answered"}
    BY <1>4, <1>00 DEF Finish
  <2>. QED
    BY <1>0, <1>4, <2>1, BelievedStays
<1>. QED
  BY <1>1, <1>2, <1>3, <1>4, RunEffects

LEMMA AsideBelieved ==
  ASSUME TypeInv, BelievedInv, NEW p \in Pane, Aside(p)
  PROVE  BelievedInv'
<1>0. UNCHANGED <<pc, paneOf>>
  BY AsideRun DEF runVars
<1>. USE DEF TypeInv, ManType, DaeType
<1>1. CASE UNCHANGED <<session, hosted, dying, attached, exits, slipped>>
  BY <1>0, <1>1, BelievedStays
<1>2. CASE LateCreate(p)
  <2>1. /\ UNCHANGED <<session, dying, exits, slipped>>
        /\ \/ hosted' = hosted \cup {p} /\ attached' \in {attached, attached \cup {p}}
           \/ UNCHANGED <<hosted, attached>>
    BY <1>2 DEF LateCreate, managerVars, historyNotes
  <2>2. ASSUME NEW q \in Pane \ slipped, Believed(q) PROVE Believed(q)'
    BY <1>0, <2>1, <2>2 DEF Believed, Attended
  <2>. QED
    BY <2>1, <2>2 DEF BelievedInv
<1>3. CASE SessionExits(p)
  <2>1. /\ UNCHANGED <<session, attached, slipped>>
        /\ \/ p \in hosted /\ hosted' = hosted \ {p} /\ UNCHANGED dying
           \/ p \in dying /\ dying' = dying \ {p} /\ UNCHANGED hosted
        /\ exits' = IF p \in attached THEN [exits EXCEPT ![p] = exits[p] + 1] ELSE exits
    BY <1>3 DEF SessionExits, managerVars, historyNotes
  <2>2. exits \in [Pane -> Nat]
    BY MaxInFlightAssumption
  <2>3. ASSUME NEW q \in Pane \ slipped, Believed(q) PROVE Believed(q)'
    <3>1. CASE q # p
      BY <1>0, <2>1, <2>3, <3>1 DEF Believed, Attended
    <3>2. CASE q = p
      BY <1>0, <2>1, <2>2, <2>3, <3>2 DEF Believed, Attended
    <3>. QED
      BY <3>1, <3>2
  <2>. QED
    BY <2>1, <2>3 DEF BelievedInv
<1>4. CASE ExitEvent(p)
  <2>1. /\ UNCHANGED <<hosted, dying, attached>>
        /\ exits' = [exits EXCEPT ![p] = exits[p] - 1]
        /\ \A q \in Pane : q # p => session'[q] = session[q]
        /\ session'[p] # "alive"
        /\ slipped' = IF InProgress(p) \/ p \in late \/ p \in timer THEN slipped \cup {p} ELSE slipped
    BY <1>4 DEF ExitEvent, Ended, SlipsAgain
  <2>2. p \notin slipped' => ~InProgress(p)
    BY <2>1
  <2>3. ASSUME NEW q \in Pane \ slipped', Believed(q) PROVE Believed(q)'
    <3>1. CASE q # p
      BY <1>0, <2>1, <2>3, <3>1 DEF Believed, Attended
    <3>2. CASE q = p
      BY <1>0, <2>1, <2>2, <2>3, <3>2 DEF Believed, InProgress
    <3>. QED
      BY <3>1, <3>2
  <2>. QED
    BY <2>1, <2>3 DEF BelievedInv
<1>5. CASE CleanupTimer(p) \/ UnknownEvent(p)
  <2>1. /\ UNCHANGED <<hosted, dying, attached, exits, slipped>>
        /\ \A q \in Pane : session'[q] = "alive" => session[q] = "alive"
    BY <1>5 DEF CleanupTimer, UnknownEvent, daemonVars, historyNotes
  <2>2. ASSUME NEW q \in Pane \ slipped, Believed(q) PROVE Believed(q)'
    BY <1>0, <2>1, <2>2 DEF Believed, Attended
  <2>. QED
    BY <2>1, <2>2 DEF BelievedInv
<1>6. CASE Kill(p) \/ KillGoesOn(p)
  <2>1. /\ UNCHANGED <<attached, exits>> /\ slipped \subseteq slipped'
        /\ \A q \in Pane : q # p => /\ session'[q] = session[q]
                                    /\ (q \in hosted' <=> q \in hosted)
                                    /\ (q \in dying' <=> q \in dying)
        /\ session'[p] = "alive" => session[p] = "alive"
        /\ p \notin slipped' => ~InProgress(p) /\ session'[p] # "alive"
    BY <1>6 DEF Kill, MarkKilled, KillRequest, KillGoesOn, Slips, SlipsLate, daemonVars
  <2>2. ASSUME NEW q \in Pane \ slipped', Believed(q) PROVE Believed(q)'
    <3>1. CASE q # p
      BY <1>0, <2>1, <2>2, <3>1 DEF Believed, Attended
    <3>2. CASE q = p
      BY <1>0, <2>1, <2>2, <3>2 DEF Believed, InProgress
    <3>. QED
      BY <3>1, <3>2
  <2>. QED
    BY <2>1, <2>2 DEF BelievedInv
<1>. QED
  BY <1>1, <1>2, <1>3, <1>4, <1>5, <1>6
  DEF Aside, Join, WriteLost, ClearSequence, History, managerVars, daemonVars, historyNotes

LEMMA BelievedNext == TypeInv /\ BelievedInv /\ [Next]_vars => BelievedInv'
<1>. SUFFICES ASSUME TypeInv, BelievedInv, [Next]_vars PROVE BelievedInv'
  OBVIOUS
<1>0. pc \in [Creation -> Places] /\ paneOf \in [Creation -> Pane \cup {None}]
  BY DEF TypeInv, RunInv
<1>1. ASSUME NEW c \in Creation, Rejected(c) PROVE BelievedInv'
  <2>1. UNCHANGED <<session, hosted, dying, attached, exits, slipped>>
        /\ pc' = [pc EXCEPT ![c] = "idle"] /\ paneOf' = [paneOf EXCEPT ![c] = None]
    BY <1>1 DEF Rejected, Goto, daemonVars, historyNotes
  <2>. QED
    BY <1>0, <2>1, BelievedStays
<1>2. ASSUME NEW c \in Creation, NEW p \in Pane, Begin(c, p) PROVE BelievedInv'
  <2>1. /\ UNCHANGED <<session, hosted, dying, attached, exits, slipped>>
        /\ pc' = [pc EXCEPT ![c] = "starting"] \/ pc' = [pc EXCEPT ![c] = "queued"]
        /\ paneOf' = [paneOf EXCEPT ![c] = p]
    BY <1>2 DEF Begin, Goto, daemonVars, historyNotes
  <2>. QED
    BY <1>0, <2>1, BelievedStays
<1>3. CASE Disconnect
  <2>1. /\ UNCHANGED <<session, hosted, dying, slipped, paneOf>> /\ attached' = {}
        /\ \A c \in Creation : pc'[c] \notin {"asked", "answered"}
    BY <1>0, <1>3, InterruptedPlace DEF Disconnect, historyNotes
  <2>. QED
    BY <2>1 DEF BelievedInv, Believed, Attended
<1>4. CASE Reset
  <2>1. /\ \A p \in Pane : session'[p] # "alive"
        /\ dying' = {} /\ slipped' = slipped
        /\ \A c \in Creation : pc'[c] \notin {"asked", "answered"}
    BY <1>0, <1>4, InterruptedPlace DEF Reset
  <2>. QED
    BY <2>1 DEF BelievedInv, Believed
<1>5. CASE UNCHANGED vars
  BY <1>5, BelievedStays DEF vars, runVars, managerVars, daemonVars, historyNotes
<1>. QED
  BY <1>1, <1>2, <1>3, <1>4, <1>5, Steps, RunningBelieved, AsideBelieved

\* Whatever overtakes what on the two sockets: the app takes no session for alive that
\* is gone without its being told, or having lost touch, but after an exit out of turn.
THEOREM BelievedAliveAlways == Spec => []BelievedAlive
<1>1. Init => BelievedInv
  BY DEF Init, BelievedInv, Believed
<1>2. BelievedInv => BelievedAlive
  BY DEF BelievedInv, Believed, Attended, BelievedAlive
<1>. QED
  BY TypeInit, TypeNext, BelievedNext, <1>1, <1>2, PTL DEF Spec

------------------------------------------------------------------------------
(* Panes that were killed                                                  *)

\* No session of a killed pane is being created, or about to be.
KilledInv ==
  \A p \in tombs \ slipped :
    session[p] # "alive" /\ (p \in hosted => p \in killing) /\ ~InProgress(p) /\ p \notin late

LEMMA RunningKilled ==
  ASSUME TypeInv, KilledInv, NEW c \in Creation, Running(c)
  PROVE  KilledInv'
<1>0. /\ UNCHANGED <<tombs, killing, slipped>>
      /\ paneOf[c] \in Pane /\ tombs \subseteq Pane
  BY RunEffects, RunningRun, RunPane DEF TypeInv, RunInv, Working, ManType
<1>1. \A p \in Pane : InProgress(p)' => InProgress(p)
  BY NoNewRun DEF TypeInv
<1>2. \/ pc[c] # "ending"
      \/ /\ UNCHANGED <<session, hosted, late>>
  <2>1. CASE pc[c] = "ending"
    <3>1. MetadataRead(c)
      BY <2>1 DEF Running, Start, DaemonLists, Hydrated, ColdRestore, NoColdRestore, Cleared,
                  DaemonCreates, Answered, RequestFails, RequestRejected
    <3>. QED
      BY <3>1 DEF MetadataRead, daemonVars
  <2>. QED
    BY <2>1
<1>3. CASE pc[c] # "ending"
  <2>1. paneOf[c] \notin tombs \ slipped
    BY <1>0, <1>3 DEF KilledInv, InProgress
  <2>2. \A p \in Pane : p # paneOf[c] => /\ session'[p] = session[p]
                                         /\ (p \in hosted' <=> p \in hosted)
                                         /\ (p \in late' <=> p \in late)
    <3>1. CASE Ask(c) /\ UNCHANGED session
      BY <3>1 DEF Ask
    <3>2. CASE DaemonCreates(c)
      BY <3>2 DEF DaemonCreates, managerVars
    <3>3. CASE Answered(c)
      BY <3>3 DEF Answered, daemonVars, TypeInv, ManType
    <3>. QED
      BY <3>1, <3>2, <3>3, RunEffects
  <2>. QED
    BY <1>0, <1>1, <2>1, <2>2 DEF KilledInv
<1>. QED
  BY <1>0, <1>1, <1>2, <1>3 DEF KilledInv

LEMMA AsideKilled ==
  ASSUME TypeInv, KilledInv, NEW p \in Pane, Aside(p)
  PROVE  KilledInv'
<1>0. \A q \in Pane : InProgress(q)' => InProgress(q)
  BY NoNewRun DEF TypeInv
<1>00. tombs \subseteq Pane
  BY DEF TypeInv, ManType
<1>. USE DEF KilledInv
<1>1. CASE LateCreate(p)
  BY <1>0, <1>00, <1>1 DEF LateCreate, managerVars, historyNotes
<1>2. CASE SessionExits(p) \/ WriteLost(p)
  BY <1>0, <1>00, <1>2 DEF SessionExits, WriteLost, managerVars, historyNotes
<1>3. CASE ExitEvent(p)
  BY <1>0, <1>00, <1>3 DEF ExitEvent, Ended, SlipsAgain, TypeInv, ManType
<1>4. CASE CleanupTimer(p) \/ UnknownEvent(p)
  BY <1>0, <1>00, <1>4 DEF CleanupTimer, UnknownEvent, daemonVars, historyNotes, TypeInv, ManType
<1>5. CASE Kill(p)
  BY <1>0, <1>00, <1>5 DEF Kill, MarkKilled, KillRequest, Slips, daemonVars, TypeInv, ManType
<1>6. CASE KillGoesOn(p)
  BY <1>0, <1>00, <1>6 DEF KillGoesOn, KillRequest, SlipsLate, daemonVars
<1>7. CASE UNCHANGED <<session, hosted, killing, late, slipped>> /\ tombs' \subseteq tombs
  BY <1>0, <1>00, <1>7
<1>. QED
  BY <1>1, <1>2, <1>3, <1>4, <1>5, <1>6, <1>7
  DEF Aside, Join, ClearSequence, History, managerVars, daemonVars, historyNotes

LEMMA KilledNext == TypeInv /\ KilledInv /\ [Next]_vars => KilledInv'
<1>. SUFFICES ASSUME TypeInv, KilledInv, [Next]_vars PROVE KilledInv'
  OBVIOUS
<1>0. tombs \subseteq Pane /\ paneOf \in [Creation -> Pane \cup {None}] /\ pc \in [Creation -> Places]
  BY DEF TypeInv, ManType, RunInv
<1>1. ASSUME NEW c \in Creation, Rejected(c) PROVE KilledInv'
  <2>1. UNCHANGED <<session, tombs, hosted, killing, late, slipped>>
    BY <1>1 DEF Rejected, daemonVars, historyNotes
  <2>2. \A p \in Pane : InProgress(p)' => InProgress(p)
    BY <1>1, NoNewRun DEF TypeInv
  <2>. QED
    BY <1>0, <2>1, <2>2 DEF KilledInv
<1>2. ASSUME NEW c \in Creation, NEW p \in Pane, Begin(c, p) PROVE KilledInv'
  <2>1. /\ UNCHANGED <<session, hosted, killing, late, slipped>> /\ tombs' = tombs \ {p}
        /\ paneOf' = [paneOf EXCEPT ![c] = p]
        /\ pc' = [pc EXCEPT ![c] = "starting"] \/ pc' = [pc EXCEPT ![c] = "queued"]
    BY <1>2 DEF Begin, Goto, daemonVars, historyNotes
  <2>2. \A q \in Pane : q # p /\ InProgress(q)' => InProgress(q)
    BY <1>0, <2>1 DEF InProgress
  <2>. QED
    BY <1>0, <2>1, <2>2 DEF KilledInv
<1>3. CASE Disconnect
  <2>1. UNCHANGED <<session, tombs, hosted, killing, slipped>> /\ late' = late \cup Abandoned
    BY <1>3 DEF Disconnect, historyNotes
  <2>2. \A p \in Pane : InProgress(p)' => InProgress(p)
    BY <1>3, NoNewRun DEF TypeInv
  <2>3. \A p \in Abandoned : InProgress(p)
    BY DEF Abandoned, InProgress
  <2>. QED
    BY <1>0, <2>1, <2>2, <2>3 DEF KilledInv
<1>4. CASE Reset
  BY <1>4 DEF Reset, KilledInv
<1>5. CASE UNCHANGED vars
  <2>1. UNCHANGED <<session, tombs, hosted, killing, late, slipped>>
    BY <1>5 DEF vars, managerVars, daemonVars, historyNotes
  <2>2. \A p \in Pane : InProgress(p)' => InProgress(p)
    BY <1>5, NoNewRun DEF TypeInv
  <2>. QED
    BY <1>0, <2>1, <2>2 DEF KilledInv
<1>. QED
  BY <1>1, <1>2, <1>3, <1>4, <1>5, Steps, RunningKilled, AsideKilled

\* After a kill no run brings a session of the pane back, unless it was under way when
\* the kill came, or the kill itself failed.
THEOREM KilledStaysDeadAlways == Spec => []KilledStaysDead
<1>1. Init => KilledInv
  BY DEF Init, KilledInv
<1>2. KilledInv => KilledStaysDead
  BY DEF KilledInv, KilledStaysDead
<1>. QED
  BY TypeInit, TypeNext, KilledNext, <1>1, <1>2, PTL DEF Spec

------------------------------------------------------------------------------
(* The limit of runs                                                       *)

\* A run has the entry of its pane, and a permit unless it is queued.
LimitInv ==
  \/ wasReset
  \/ /\ IsFiniteSet(Holding) /\ inUse = Cardinality(Holding)
     /\ \A c \in Creation : pc[c] # "rejected"
     /\ \A c \in Creation : paneOf[c] # None => pending[paneOf[c]] = c

LEMMA HeldWorking ==
  ASSUME RunInv
  PROVE  Holding = {c \in Creation : pc[c] \in Working \ {"rejected"}}
  BY DEF Holding, RunInv, Working

LEMMA FinishLimit ==
  ASSUME RunInv, LimitInv, ~wasReset, NEW c \in Creation, pc[c] \in Working \ {"rejected"},
         Finish(c), wasReset' = wasReset
  PROVE  LimitInv'
<1>0. IsFiniteSet(Holding) /\ inUse = Cardinality(Holding) /\ c \in Holding
  BY DEF LimitInv, Holding, Working
<1>1. /\ \A x \in Creation : pc[x] # "rejected"
      /\ \A x \in Creation : paneOf[x] # None => pending[paneOf[x]] = x
  BY DEF LimitInv
<1>2. inUse \in Nat /\ Max \in Nat
  BY MaxAssumption DEF RunInv, SemInv
<1>3. /\ paneOf' = [paneOf EXCEPT ![c] = None]
      /\ pending' = [pending EXCEPT ![paneOf[c]] = None]
  BY DEF Finish
<1>4. \A x \in Creation : paneOf'[x] # None => pending'[paneOf'[x]] = x
  <2>. SUFFICES ASSUME NEW x \in Creation, paneOf'[x] # None PROVE pending'[paneOf'[x]] = x
    OBVIOUS
  <2>1. x # c /\ paneOf'[x] = paneOf[x] /\ paneOf[c] # None
    BY <1>3 DEF RunInv, Working
  <2>2. paneOf[x] # paneOf[c] /\ paneOf[x] \in Pane
    BY <1>1, <2>1 DEF RunInv
  <2>. QED
    BY <1>1, <1>3, <2>1, <2>2 DEF RunInv
<1>5. /\ IsFiniteSet(Holding \ {c})
      /\ Cardinality(Holding \ {c}) = Cardinality(Holding) - 1
  BY <1>0, FS_RemoveElement
<1>6. pc'[c] = "idle"
  BY DEF Finish
<1>7. pc[c] # "queued" /\ SemInv /\ pc \in [Creation -> Places]
  BY DEF RunInv, Working
<1>8. CASE /\ inUse' = IF inUse = 0 THEN 0 ELSE inUse - 1
           /\ \A x \in Creation \ {c} : pc'[x] = pc[x]
  <2>1. Holding' = Holding \ {c}
    BY <1>6, <1>8 DEF Holding
  <2>2. inUse # 0
    BY <1>0, <1>2, <1>5, FS_CardinalityType
  <2>3. inUse' = Cardinality(Holding')
    BY <1>0, <1>5, <1>8, <2>1, <2>2
  <2>. QED
    BY <1>1, <1>4, <1>5, <1>6, <1>8, <2>1, <2>3 DEF LimitInv
<1>9. CASE /\ inUse' = inUse
           /\ \E w \in Creation :
                /\ pc[w] = "queued" /\ pc'[w] = "starting"
                /\ \A x \in Creation \ {c, w} : pc'[x] = pc[x]
  <2>1. PICK w \in Creation : /\ pc[w] = "queued" /\ pc'[w] = "starting"
                              /\ \A x \in Creation \ {c, w} : pc'[x] = pc[x]
    BY <1>9
  <2>2. Holding' = (Holding \ {c}) \cup {w} /\ w \notin Holding \ {c}
    BY <1>6, <1>7, <2>1 DEF Holding
  <2>3. /\ IsFiniteSet((Holding \ {c}) \cup {w})
        /\ Cardinality((Holding \ {c}) \cup {w}) = Cardinality(Holding \ {c}) + 1
    BY <1>5, <2>2, FS_AddElement
  <2>4. Cardinality(Holding) - 1 + 1 = inUse
    BY <1>0, <1>2
  <2>5. inUse' = Cardinality(Holding')
    BY <1>5, <1>9, <2>2, <2>3, <2>4
  <2>. QED
    BY <1>1, <1>4, <1>6, <2>1, <2>2, <2>3, <2>5 DEF LimitInv
<1>. QED
  BY <1>7, <1>8, <1>9, FinishSem

LEMMA BeginLimit ==
  ASSUME RunInv, LimitInv, ~wasReset, NEW c \in Creation, NEW p \in Pane, Begin(c, p)
  PROVE  LimitInv'
<1>0. /\ IsFiniteSet(Holding) /\ inUse = Cardinality(Holding)
      /\ \A x \in Creation : pc[x] # "rejected"
      /\ \A x \in Creation : paneOf[x] # None => pending[paneOf[x]] = x
  BY DEF LimitInv
<1>1. /\ pc[c] = "idle" /\ pending[p] = None
      /\ paneOf' = [paneOf EXCEPT ![c] = p] /\ pending' = [pending EXCEPT ![p] = c]
  BY DEF Begin
<1>2. \A x \in Creation : paneOf'[x] # None => pending'[paneOf'[x]] = x
  <2>. SUFFICES ASSUME NEW x \in Creation, x # c, paneOf[x] # None PROVE pending'[paneOf[x]] = x
    BY <1>1 DEF RunInv
  <2>1. paneOf[x] \in Pane /\ paneOf[x] # p
    BY <1>0, <1>1, CreationAssumption DEF RunInv
  <2>. QED
    BY <1>0, <1>1, <2>1 DEF RunInv
<1>3. pc[c] # "queued" /\ SemInv /\ pc \in [Creation -> Places]
  BY <1>1 DEF RunInv
<1>4. \/ AcquireAtOnce /\ Goto(c, "starting")
      \/ \E priority \in 0..1 : AcquireLater(c, priority) /\ Goto(c, "queued")
  BY DEF Begin
<1>5. CASE pc' = [pc EXCEPT ![c] = "starting"] /\ inUse' = inUse + 1
  <2>1. Holding' = Holding \cup {c} /\ c \notin Holding
    BY <1>1, <1>3, <1>5 DEF Holding
  <2>2. IsFiniteSet(Holding \cup {c}) /\ Cardinality(Holding \cup {c}) = Cardinality(Holding) + 1
    BY <1>0, <2>1, FS_AddElement
  <2>3. \A x \in Creation : pc'[x] # "rejected"
    BY <1>0, <1>3, <1>5
  <2>. QED
    BY <1>0, <1>2, <1>5, <2>1, <2>2, <2>3 DEF LimitInv
<1>6. CASE pc' = [pc EXCEPT ![c] = "queued"] /\ inUse' = inUse
  <2>1. Holding' = Holding /\ \A x \in Creation : pc'[x] # "rejected"
    BY <1>0, <1>1, <1>3, <1>6 DEF Holding
  <2>. QED
    BY <1>0, <1>2, <1>6, <2>1 DEF LimitInv
<1>. QED
  BY <1>3, <1>4, <1>5, <1>6, AcquireSem

LEMMA ResetKept ==
  ASSUME [Next]_vars, ~Reset
  PROVE  wasReset' = wasReset
  BY Steps DEF Running, Start, DaemonLists, Hydrated, ColdRestore, NoColdRestore, Cleared,
       DaemonCreates, Answered, MetadataRead, RequestRejected, RequestFails, Fails, Rejected,
       Begin, Aside, Join, LateCreate, ExitEvent, CleanupTimer, UnknownEvent, KillGoesOn, History,
       SessionExits, WriteLost, ClearSequence, Kill, Disconnect, historyNotes, vars

\* Steps that no run's permit depends on.
LEMMA LimitStays ==
  ASSUME LimitInv, wasReset' = wasReset, UNCHANGED <<inUse, paneOf, pending>>,
         \A x \in Creation : /\ pc'[x] # "rejected" \/ pc[x] = "rejected"
                             /\ pc'[x] \in {"idle", "queued"} <=> pc[x] \in {"idle", "queued"}
  PROVE  LimitInv'
<1>1. CASE wasReset
  BY <1>1 DEF LimitInv
<1>2. CASE ~wasReset
  <2>1. Holding' = Holding
    BY <1>2 DEF LimitInv, Holding
  <2>. QED
    BY <1>2, <2>1 DEF LimitInv
<1>. QED
  BY <1>1, <1>2

LEMMA LimitNext == TypeInv /\ LimitInv /\ [Next]_vars => LimitInv'
<1>. SUFFICES ASSUME TypeInv, LimitInv, [Next]_vars PROVE LimitInv'
  OBVIOUS
<1>0. RunInv /\ pc \in [Creation -> Places] /\ None \notin Pane
  BY CreationAssumption DEF TypeInv, RunInv
<1>1. CASE wasReset
  <2>1. wasReset'
    BY <1>1, ResetKept DEF Reset
  <2>. QED
    BY <2>1 DEF LimitInv
<1>2. CASE ~wasReset
  <2>1. ASSUME NEW c \in Creation, Running(c) PROVE LimitInv'
    <3>0. wasReset' = wasReset
      BY <2>1, RunEffects, ResetKept DEF Running, Start, DaemonLists, Hydrated, ColdRestore,
           NoColdRestore, Cleared, DaemonCreates, Answered, MetadataRead, RequestRejected,
           RequestFails, Fails, historyNotes
    <3>1. pc[c] \in Working \ {"rejected"} /\ (Finish(c) \/ Moves(c))
      BY <2>1, RunningRun
    <3>2. CASE Finish(c)
      BY <1>0, <1>2, <3>0, <3>1, <3>2, FinishLimit
    <3>3. CASE Moves(c)
      <4>1. /\ UNCHANGED <<inUse, paneOf, pending>>
            /\ \A x \in Creation : /\ pc'[x] # "rejected" \/ pc[x] = "rejected"
                                   /\ pc'[x] \in {"idle", "queued"} <=> pc[x] \in {"idle", "queued"}
        BY <1>0, <3>1, <3>3 DEF Moves, Working
      <4>. QED
        BY <3>0, <4>1, LimitStays
    <3>. QED
      BY <3>1, <3>2, <3>3
  <2>2. ASSUME NEW c \in Creation, Rejected(c) PROVE FALSE
    BY <1>2, <2>2 DEF LimitInv, Rejected
  <2>3. ASSUME NEW c \in Creation, NEW p \in Pane, Begin(c, p) PROVE LimitInv'
    BY <1>0, <1>2, <2>3, BeginLimit
  <2>4. ASSUME NEW p \in Pane, Aside(p) PROVE LimitInv'
    <3>1. wasReset' = wasReset
      BY <2>4 DEF Aside, Join, LateCreate, ExitEvent, CleanupTimer, UnknownEvent, KillGoesOn,
           History, SessionExits, WriteLost, ClearSequence, Kill, historyNotes
    <3>2. UNCHANGED <<inUse, paneOf, pending, pc>>
      BY <2>4, AsideRun DEF runVars
    <3>. QED
      BY <3>1, <3>2, LimitStays
  <2>5. CASE Disconnect
    <3>1. /\ wasReset' = wasReset /\ UNCHANGED <<inUse, paneOf, pending>>
          /\ pc' = [c \in Creation |-> Interrupted(pc[c])]
      BY <2>5 DEF Disconnect, Limiter, historyNotes
    <3>2. \A x \in Creation : /\ pc'[x] # "rejected" \/ pc[x] = "rejected"
                              /\ pc'[x] \in {"idle", "queued"} <=> pc[x] \in {"idle", "queued"}
      BY <1>0, <3>1, InterruptedPlace
    <3>. QED
      BY <3>1, <3>2, LimitStays
  <2>6. CASE Reset
    <3>1. CASE \E c \in Creation : pc[c] # "idle"
      <4>1. wasReset'
        BY <2>6, <3>1 DEF Reset
      <4>. QED
        BY <4>1 DEF LimitInv
    <3>2. CASE \A c \in Creation : pc[c] = "idle"
      <4>1. \A c \in Creation : pc'[c] = "idle" /\ paneOf'[c] = None
        BY <1>0, <2>6, <3>2, InterruptedPlace DEF Reset, RunInv
      <4>2. Holding' = {} /\ inUse' = 0
        BY <2>6, <4>1 DEF Holding, Reset, SemaphoreReset
      <4>3. IsFiniteSet({}) /\ Cardinality({}) = 0
        BY FS_EmptySet
      <4>. QED
        BY <4>1, <4>2, <4>3 DEF LimitInv
    <3>. QED
      BY <3>1, <3>2
  <2>7. CASE UNCHANGED vars
    BY <2>7, LimitStays DEF vars, runVars, managerVars, historyNotes
  <2>. QED
    BY <2>1, <2>2, <2>3, <2>4, <2>5, <2>6, <2>7, Steps
<1>. QED
  BY <1>1, <1>2

\* As many runs have a permit as the limiter says and at most Max of them, and a pane
\* has one, whatever their number, until a reset comes in the middle of a run.
THEOREM RunsLimitedAlways == Spec => []RunsLimited
<1>1. Init => LimitInv
  <2>. SUFFICES ASSUME Init PROVE LimitInv
    OBVIOUS
  <2>1. Holding = {} /\ inUse = 0
    BY DEF Init, SemaphoreInit, Holding
  <2>2. IsFiniteSet({}) /\ Cardinality({}) = 0
    BY FS_EmptySet
  <2>. QED
    BY <2>1, <2>2 DEF Init, LimitInv
<1>2. TypeInv /\ LimitInv => RunsLimited
  <2>. SUFFICES ASSUME TypeInv, LimitInv, ~wasReset PROVE RunsLimited
    BY DEF RunsLimited
  <2>1. inUse <= Max /\ (waiting # <<>> => inUse = Max)
    BY MaxAssumption DEF TypeInv, RunInv, SemInv
  <2>. QED
    BY <2>1 DEF LimitInv, RunsLimited
<1>. QED
  BY TypeInit, TypeNext, LimitNext, <1>1, <1>2, PTL DEF Spec

------------------------------------------------------------------------------
(* The metadata on disk                                                    *)

\* While the writers of a pane do not overlap, a writer that is open has open
\* metadata, and panes outside Lively have none.
Files(p) ==
  /\ inits[p] = 0 \/ closes[p] = 0
  /\ closes[p] > 0 => p \notin writer
  /\ p \in writer => meta[p] = "open"
  /\ p \notin Lively => inits[p] = 0 /\ p \notin writer /\ meta[p] # "open"

\* A session that has not ended has a writer, or one that is being made; and once it
\* has, nothing will open the metadata again.
Kept(p) ==
  /\ session[p] # "none" => inits[p] > 0 \/ p \in writer \/ closes[p] > 0 \/ meta[p] # "open"
  /\ session[p] \in {"exited", "killed"} => inits[p] = 0 /\ p \notin writer

CrashInv == \A p \in Pane \ tangled : Files(p) /\ Kept(p)

HistoryFact == /\ HistoryTypeOK /\ inits \in [Pane -> Nat] /\ closes \in [Pane -> Nat]

LEMMA HistoryNat == HistoryTypeOK => HistoryFact
  BY MaxInFlightAssumption DEF HistoryTypeOK, HistoryFact

\* What happens to the history of one pane leaves that of the others alone.
LEMMA OtherPanes ==
  ASSUME HistoryFact, NEW q \in Pane, HistoryStep(q), NEW p \in Pane, p # q
  PROVE  /\ inits'[p] = inits[p] /\ closes'[p] = closes[p] /\ meta'[p] = meta[p]
         /\ (p \in writer' <=> p \in writer) /\ (p \in tangled' <=> p \in tangled)
<1>. USE DEF HistoryFact, HistoryTypeOK
<1>1. CASE StartsInit(q) \/ CloseWriter(q) \/ UNCHANGED historyVars
  BY <1>1 DEF StartsInit, CloseWriter, historyVars
<1>2. CASE ClearWriter(q) \/ RemoveFiles(q)
  BY <1>2 DEF ClearWriter, RemoveFiles
<1>3. CASE InitDone(q) \/ InitFails(q) \/ CloseDone(q)
  BY <1>3 DEF InitDone, InitFails, CloseDone
<1>. QED
  BY <1>1, <1>2, <1>3 DEF HistoryStep

\* What happens to the history of a pane whose session stays what it was, is forgotten
\* or lost.
LEMMA FilesStep ==
  ASSUME HistoryFact, NEW p \in Pane, p \in tangled \/ (Files(p) /\ Kept(p)), p \notin tangled',
         HistoryStep(p), StartsInit(p) => p \in Lively /\ session'[p] = "alive",
         \/ session'[p] = session[p] \/ session'[p] = "none" \/ StartsInit(p)
         \/ session'[p] = "lost" /\ session[p] # "none"
  PROVE  Files(p)' /\ Kept(p)'
<1>. USE DEF HistoryFact, HistoryTypeOK
<1>0. inits[p] \in Nat /\ closes[p] \in Nat
  OBVIOUS
<1>2. CASE StartsInit(p)
  BY <1>0, <1>2 DEF StartsInit, Settled, Files, Kept
<1>. SUFFICES ASSUME \/ session'[p] = session[p] \/ session'[p] = "none"
                     \/ session'[p] = "lost" /\ session[p] # "none"
              PROVE  Files(p)' /\ Kept(p)'
  BY <1>2
<1>1. CASE UNCHANGED historyVars
  BY <1>1 DEF historyVars, Files, Kept
<1>3. CASE CloseWriter(p)
  BY <1>0, <1>3 DEF CloseWriter, Files, Kept
<1>4. CASE ClearWriter(p)
  BY <1>4 DEF ClearWriter
<1>5. CASE RemoveFiles(p)
  BY <1>0, <1>5 DEF RemoveFiles, Files, Kept
<1>6. CASE InitDone(p)
  BY <1>0, <1>6 DEF InitDone, Files, Kept
<1>7. CASE InitFails(p)
  BY <1>7 DEF InitFails
<1>8. CASE CloseDone(p)
  BY <1>0, <1>8 DEF CloseDone, Files, Kept
<1>. QED
  BY <1>1, <1>2, <1>3, <1>4, <1>5, <1>6, <1>7, <1>8 DEF HistoryStep

\* A session is alive in a pane that has no history.
LEMMA AliveStep ==
  ASSUME NEW p \in Pane, p \in tangled \/ (Files(p) /\ Kept(p)), p \notin tangled',
         p \notin Lively, UNCHANGED historyVars, session'[p] = "alive"
  PROVE  Files(p)' /\ Kept(p)'
  BY DEF historyVars, Files, Kept

\* The session ends, and its writer is closed.
LEMMA EndStep ==
  ASSUME HistoryFact, NEW p \in Pane, p \in tangled \/ (Files(p) /\ Kept(p)), p \notin tangled',
         CloseWriter(p), session[p] = "none" => session'[p] = "none"
  PROVE  Files(p)' /\ Kept(p)'
  BY DEF HistoryFact, HistoryTypeOK, CloseWriter, Files, Kept

\* The same for all panes, of which a step touches one.
LEMMA CrashStep ==
  ASSUME HistoryFact, CrashInv, NEW q \in Pane, HistoryStep(q),
         \A p \in Pane : p # q => session'[p] = session[p],
         (q \in tangled \/ (Files(q) /\ Kept(q))) /\ q \notin tangled' =>
           (Files(q)' /\ Kept(q)')
  PROVE  CrashInv'
<1>. SUFFICES ASSUME NEW p \in Pane, p \notin tangled' PROVE Files(p)' /\ Kept(p)'
  BY DEF CrashInv
<1>1. CASE p = q
  BY <1>1 DEF CrashInv
<1>2. CASE p # q
  BY <1>2, OtherPanes DEF CrashInv, Files, Kept
<1>. QED
  BY <1>1, <1>2

LEMMA RunningCrash ==
  ASSUME TypeInv, CrashInv, NEW c \in Creation, Running(c)
  PROVE  CrashInv'
<1>0. paneOf[c] \in Pane /\ HistoryFact
  BY RunningRun, RunPane, HistoryNat DEF TypeInv, Working
<1>1. HistoryStep(paneOf[c])
  BY RunningHistory
<1>2. CASE Answered(c)
  <2>1. /\ session' = [session EXCEPT ![paneOf[c]] = "alive"]
        /\ IF paneOf[c] \in Lively THEN StartsInit(paneOf[c]) ELSE UNCHANGED historyVars
    BY <1>2 DEF Answered
  <2>2. \A p \in Pane : p # paneOf[c] => session'[p] = session[p]
    BY <2>1 DEF TypeInv, ManType
  <2>3. CASE paneOf[c] \in Lively
    <3>1. session'[paneOf[c]] = "alive"
      BY <1>0, <2>1 DEF TypeInv, ManType
    <3>. QED
      BY <1>0, <1>1, <2>1, <2>2, <2>3, <3>1, FilesStep, CrashStep
  <2>4. CASE paneOf[c] \notin Lively
    <3>1. session'[paneOf[c]] = "alive" /\ UNCHANGED historyVars
      BY <1>0, <2>1, <2>4 DEF TypeInv, ManType
    <3>. QED
      BY <1>0, <1>1, <2>2, <2>4, <3>1, AliveStep, CrashStep
  <2>. QED
    BY <2>3, <2>4
<1>3. CASE session' = session /\ ~StartsInit(paneOf[c])
  BY <1>0, <1>1, <1>3, FilesStep, CrashStep
<1>4. ~Answered(c) => session' = session
  BY RunEffects DEF DaemonCreates, managerVars
<1>5. StartsInit(paneOf[c]) => inits' # inits
  BY <1>0 DEF StartsInit, HistoryFact
<1>6. CASE ~Answered(c)
  <2>1. inits' = inits
    <3>1. CASE Start(c) \/ Hydrated(c)
      BY <3>1 DEF Start, Hydrated, Route, CloseWriter, historyVars
    <3>2. CASE DaemonLists(c) \/ DaemonCreates(c) \/ MetadataRead(c) \/ RequestFails(c)
                 \/ RequestRejected(c)
      BY <3>2 DEF DaemonLists, DaemonCreates, MetadataRead, RequestFails, RequestRejected, Fails,
                  historyVars
    <3>3. CASE ColdRestore(c) \/ NoColdRestore(c) \/ Cleared(c)
      BY <3>3 DEF ColdRestore, NoColdRestore, Cleared, RemoveFiles, historyVars
    <3>. QED
      BY <1>6, <3>1, <3>2, <3>3 DEF Running
  <2>. QED
    BY <1>3, <1>4, <1>5, <1>6, <2>1
<1>. QED
  BY <1>2, <1>6

LEMMA AsideCrash ==
  ASSUME TypeInv, CrashInv, NEW p \in Pane, Aside(p)
  PROVE  CrashInv'
<1>0. HistoryFact /\ HistoryStep(p)
  BY HistoryNat, AsideHistory DEF TypeInv
<1>1. CASE ExitEvent(p) \/ Kill(p)
  <2>1. CloseWriter(p) /\ (session[p] = "none" => session'[p] = "none")
        /\ \A q \in Pane : q # p => session'[q] = session[q]
    BY <1>1 DEF ExitEvent, Ended, Kill, MarkKilled, TypeInv, ManType
  <2>. QED
    BY <1>0, <2>1, EndStep, CrashStep
<1>2. CASE CleanupTimer(p) \/ UnknownEvent(p)
  <2>1. /\ \/ session'[p] = session[p] \/ session'[p] = "none"
           \/ session'[p] = "lost" /\ session[p] # "none"
        /\ \A q \in Pane : q # p => session'[q] = session[q]
        /\ UNCHANGED historyVars
    BY <1>2 DEF CleanupTimer, UnknownEvent, TypeInv, ManType
  <2>2. ASSUME p \in tangled \/ (Files(p) /\ Kept(p)), p \notin tangled' PROVE Files(p)' /\ Kept(p)'
    BY <2>1, <2>2 DEF historyVars, Files, Kept
  <2>. QED
    BY <1>0, <2>1, <2>2, CrashStep
<1>3. CASE session' = session /\ ~StartsInit(p)
  BY <1>0, <1>3, FilesStep, CrashStep
<1>4. CASE UNCHANGED <<session, historyVars>>
  BY <1>4 DEF historyVars, CrashInv, Files, Kept
<1>5. CASE Join(p) \/ LateCreate(p) \/ SessionExits(p) \/ WriteLost(p)
  BY <1>4, <1>5 DEF Join, LateCreate, SessionExits, WriteLost, managerVars
<1>6. CASE KillGoesOn(p) \/ ClearSequence(p) \/ History(InitDone(p)) \/ History(CloseDone(p))
             \/ History(InitFails(p))
  <2>1. session' = session
    BY <1>6 DEF KillGoesOn, ClearSequence, History, managerVars
  <2>2. ~StartsInit(p)
    BY <1>0, <1>6 DEF KillGoesOn, ClearSequence, History, RemoveFiles, ClearWriter, InitDone,
         CloseDone, InitFails, StartsInit, HistoryFact
  <2>. QED
    BY <1>3, <2>1, <2>2
<1>. QED
  BY <1>1, <1>2, <1>5, <1>6 DEF Aside

LEMMA CrashNext == TypeInv /\ CrashInv /\ [Next]_vars => CrashInv'
<1>. SUFFICES ASSUME TypeInv, CrashInv, [Next]_vars PROVE CrashInv'
  OBVIOUS
<1>1. CASE UNCHANGED <<session, historyVars>>
  BY <1>1 DEF historyVars, CrashInv, Files, Kept
<1>2. CASE Reset
  <2>1. HistoryFact
    BY HistoryNat DEF TypeInv
  <2>2. /\ closes' = [p \in Pane |-> IF p \in writer THEN closes[p] + 1 ELSE closes[p]]
        /\ writer' = {} /\ tangled' = tangled \cup {p \in Pane : inits[p] > 0}
        /\ UNCHANGED <<inits, meta>> /\ \A p \in Pane : session'[p] = "none"
    BY <1>2 DEF Reset, CloseAll
  <2>. SUFFICES ASSUME NEW p \in Pane, p \notin tangled' PROVE Files(p)' /\ Kept(p)'
    BY DEF CrashInv
  <2>3. Files(p) /\ ~(inits[p] > 0)
    BY <2>2 DEF CrashInv
  <2>. QED
    BY <2>1, <2>2, <2>3 DEF Files, Kept, HistoryFact
<1>3. ASSUME NEW c \in Creation, Rejected(c) \/ \E p \in Pane : Begin(c, p) PROVE CrashInv'
  BY <1>1, <1>3 DEF Rejected, Begin
<1>4. CASE Disconnect \/ UNCHANGED vars
  BY <1>1, <1>4 DEF Disconnect, vars, managerVars
<1>. QED
  BY <1>2, <1>3, <1>4, Steps, RunningCrash, AsideCrash

\* A crash of the app is seen at the next start for a session that was alive, and not
\* for one that had ended, in whatever order writers are opened and closed, as long as
\* two of one pane do not overlap.
THEOREM CrashIsNoticedAlways == Spec => []CrashIsNoticed
<1>1. Init => CrashInv
  BY DEF Init, HistoryInit, CrashInv, Files, Kept
<1>2. TypeInv /\ CrashInv => CrashIsNoticed
  <2>. SUFFICES ASSUME TypeInv, CrashInv, NEW p \in Pane, Settled(p), p \notin tangled
       PROVE  /\ p \in writer => meta[p] = "open"
              /\ session[p] \in {"exited", "killed"} => meta[p] # "open"
    BY DEF CrashIsNoticed
  <2>. QED
    BY DEF CrashInv, Files, Kept, Settled
<1>. QED
  BY TypeInit, TypeNext, CrashNext, <1>1, <1>2, PTL DEF Spec

================================================================================
