--------------------------- MODULE PrioritySemaphore ---------------------------
(***************************************************************************)
(* The limiter of concurrent createOrAttach runs                           *)
(* (main/lib/terminal/daemon/priority-semaphore.ts): the pane that has the *)
(* focus goes before the others, and a reset rejects who waits.            *)
(***************************************************************************)
EXTENDS Integers, Sequences

CONSTANTS Max,     \* CREATE_OR_ATTACH_CONCURRENCY
          User     \* those who may ask for a permit

ASSUME MaxAssumption == Max \in Nat \ {0}

VARIABLES inUse,   \* permits that are out, as far as the limiter knows
          waiting  \* queue: records of who waits with which priority

SemaphoreInit == inUse = 0 /\ waiting = <<>>

\* acquire, without a wait.
AcquireAtOnce == inUse < Max /\ inUse' = inUse + 1 /\ UNCHANGED waiting

\* acquire, with a wait: push and a stable sort by priority put the waiter at place i.
AcquireLater(c, priority) ==
  /\ inUse >= Max
  /\ \E i \in 1..Len(waiting) + 1 :
       /\ \A j \in DOMAIN waiting : j < i <=> waiting[j].priority <= priority
       /\ waiting' = SubSeq(waiting, 1, i - 1) \o <<[user |-> c, priority |-> priority]>>
                       \o SubSeq(waiting, i, Len(waiting))
  /\ UNCHANGED inUse

\* release and pump: who waits longest is served.
Less == IF inUse = 0 THEN 0 ELSE inUse - 1

\* Variant: nobody is served.
GrantedNone == 0

Granted == IF Max - Less < Len(waiting) THEN Max - Less ELSE Len(waiting)
Served == {waiting[i].user : i \in 1..Granted}
Release ==
  /\ inUse' = Less + Granted
  /\ waiting' = SubSeq(waiting, Granted + 1, Len(waiting))

\* reset, after which the permits that are out are not counted any more.
SemaphoreReset == inUse' = 0 /\ waiting' = <<>>

==============================================================================
