-------------------------- MODULE CountingSemaphore --------------------------
(***************************************************************************)
(* What a limiter on concurrent work promises, whatever its code looks     *)
(* like: at most Permits processes hold a permit, a process waits only     *)
(* when every permit is out, and a permit that comes back while somebody   *)
(* waits is handed to the process that has waited longest (nobody overtakes*)
(* the queue).  The Semaphore class of terminal-host.ts is shown to        *)
(* implement this specification: see TerminalHost!Limiter.                 *)
(***************************************************************************)
EXTENDS Naturals, Sequences, FiniteSets

CONSTANTS Proc,      \* the processes that may ask for a permit
          Permits    \* how many may hold one at a time

VARIABLES holders,   \* the processes that hold a permit
          waiting    \* the processes that wait for one, longest wait first

semVars == <<holders, waiting>>

Waiting == {waiting[i] : i \in DOMAIN waiting}

SemInit ==
  /\ holders = {}
  /\ waiting = <<>>

\* A permit is free: the process takes it at once.
Take(p) ==
  /\ p \notin holders \cup Waiting
  /\ Cardinality(holders) < Permits
  /\ holders' = holders \cup {p}
  /\ UNCHANGED waiting

\* All permits are out: the process joins the end of the queue.
Wait(p) ==
  /\ p \notin holders \cup Waiting
  /\ Cardinality(holders) >= Permits
  /\ waiting' = Append(waiting, p)
  /\ UNCHANGED holders

\* A permit comes back and nobody waits for it.
GiveBack(p) ==
  /\ p \in holders
  /\ waiting = <<>>
  /\ holders' = holders \ {p}
  /\ UNCHANGED waiting

\* A permit comes back and goes to the head of the queue in the same step.
HandOver(p) ==
  /\ p \in holders
  /\ waiting # <<>>
  /\ holders' = (holders \ {p}) \cup {Head(waiting)}
  /\ waiting' = Tail(waiting)

SemNext == \E p \in Proc : Take(p) \/ Wait(p) \/ GiveBack(p) \/ HandOver(p)

SemSpec == SemInit /\ [][SemNext]_semVars
==============================================================================
