------------------------------ MODULE PortManager ------------------------------
(***************************************************************************)
(* The table of ports that terminals listen on                             *)
(* (main/lib/terminal/port-manager.ts): it is filled by scans, each of     *)
(* which reads the registered shells, their process trees and the          *)
(* listening sockets one after the other, while shells start, exit and are *)
(* registered, and other scans publish.                                    *)
(*                                                                         *)
(* One full scan runs at a time, every 2.5 s or on demand; a scan of one   *)
(* pane starts half a second after output that looks like a server's.  An  *)
(* action is what happens between two awaits; a step of a full scan reads  *)
(* all trees at once.  Sessions live in the daemon: registerSession is     *)
(* called nowhere.  A pid is not used again within a behaviour, and a      *)
(* signal may or may not end a process.                                    *)
(***************************************************************************)
EXTENDS Naturals

CONSTANTS Pane, Port,
          Process,     \* pids
          Shell,       \* those of the shells that the daemon starts
          Root,        \* the shell in whose tree a process is
          Home,        \* the pane of a shell
          Full,        \* the scan of all panes
          Hint,        \* bound: scans of one pane that may be under way
          MaxChanges,  \* bound: changes of the world and failures in one behaviour
          Early,       \* bound: processes that an earlier run of the app may have left
          None, Null   \* not registered; registered without a pid

ASSUME PortAssumption ==
  /\ Shell \subseteq Process /\ None \notin Process /\ Null \notin Process /\ None # Null
  /\ Root \in [Process -> Shell] /\ Home \in [Shell -> Pane]
  /\ \A s \in Shell : Root[s] = s
  /\ Full \notin Hint /\ MaxChanges \in Nat /\ Early \subseteq Process

Scan == Hint \cup {Full}

VARIABLES
  \* the operating system
  started,     \* processes so far
  alive,       \* processes that run
  listening,   \* pairs of a port and the process that listens on it
  condemned,   \* processes that killPort has sent a signal to
  \* the manager
  registered,  \* daemonSessions: the pid of a pane
  hinted,      \* pendingHintScans
  table,       \* ports: for each pane and port the pid
  \* scans
  phase,       \* idle; trees, ports: waits for their list; done: has it
  target,      \* the shells that the scan has read from daemonSessions
  trees,       \* their process trees
  found,       \* the ports found
  changes      \* changes so far

worldVars == <<started, alive, listening, condemned>>
managerVars == <<registered, hinted, table>>
scanVars == <<phase, target, trees, found>>
vars == <<worldVars, managerVars, scanVars, changes>>

Row == [Port -> Process \cup {None}]
Empty == [t \in Port |-> None]

\* The app has started: the daemon may have kept shells of an earlier run.
Init ==
  /\ alive \in SUBSET Early /\ started = alive
  /\ listening \in SUBSET (Port \X alive)
  /\ condemned = {}
  /\ registered = [p \in Pane |-> None] /\ hinted = {}
  /\ table = [p \in Pane |-> Empty]
  /\ phase = [x \in Scan |-> "idle"]
  /\ target = [x \in Scan |-> [p \in Pane |-> None]]
  /\ trees = [x \in Scan |-> [p \in Pane |-> {}]]
  /\ found = [x \in Scan |-> {}]
  /\ changes = 0

------------------------------------------------------------------------------
(* The world *)

Starts(q) ==
  /\ q \notin started /\ (q \in Shell \/ Root[q] \in alive)
  /\ started' = started \cup {q} /\ alive' = alive \cup {q}
  /\ UNCHANGED <<listening, condemned, managerVars, scanVars>>

Exits(q) ==
  /\ q \in alive
  /\ alive' = alive \ {q} /\ condemned' = condemned \ {q}
  /\ listening' = {i \in listening : i[2] # q}
  /\ UNCHANGED <<started, managerVars, scanVars>>

Listens(q, t) ==
  /\ q \in alive
  /\ \/ listening' = listening \cup {<<t, q>>}
     \/ listening' = listening \ {<<t, q>>}
  /\ UNCHANGED <<started, alive, condemned, managerVars, scanVars>>

\* The processes below a pid, itself included; those of a dead one are not found.
Tree(q) == IF q \in alive THEN {r \in alive : r = q \/ (q \in Shell /\ Root[r] = q)} ELSE {}

------------------------------------------------------------------------------
(* The manager *)

RemovePorts(p) == table' = [table EXCEPT ![p] = Empty]

\* upsertDaemonSession, by an answer of createOrAttach or by the reconciliation: the
\* shell may have exited since, or not be known yet.
Upsert(p) ==
  /\ \E s \in {r \in Shell : Home[r] = p /\ r \in started} \cup {Null} :
       registered' = [registered EXCEPT ![p] = s]
  /\ UNCHANGED <<worldVars, hinted, table, scanVars>>

\* unregisterDaemonSession, at the exit event or when the session is killed, also of a
\* pane that is not registered.
Unregister(p) ==
  /\ registered' = [registered EXCEPT ![p] = None]
  /\ hinted' = hinted \ {p}
  /\ RemovePorts(p)
  /\ UNCHANGED <<worldVars, scanVars>>

\* checkOutputForHint: the timer of the pane is set, or set again.
OutputHint(p) ==
  /\ hinted' = hinted \cup {p}
  /\ UNCHANGED <<worldVars, registered, table, scanVars>>

\* Variant: whatever listens there is killed.
KillPortUnchecked(p, t) ==
  /\ table[p][t] # None
  /\ condemned' = condemned \cup Tree(table[p][t])
  /\ UNCHANGED <<started, alive, listening, managerVars, scanVars>>

\* killPort: the tree of the process in the table, if it is not the pane's shell.  (The
\* escalation to SIGKILL two seconds later signals the same tree again.)
KillPort(p, t) ==
  /\ table[p][t] \notin {None, registered[p]}
  /\ condemned' = condemned \cup Tree(table[p][t])
  /\ UNCHANGED <<started, alive, listening, managerVars, scanVars>>

------------------------------------------------------------------------------
(* Scans *)

\* A scan x of the panes P reads their shells.
Begin(x, P) ==
  /\ phase[x] = "idle"
  /\ phase' = [phase EXCEPT ![x] = "trees"]
  /\ target' = [target EXCEPT ![x] =
       [p \in Pane |-> IF p \in P /\ registered[p] # Null THEN registered[p] ELSE None]]
  /\ UNCHANGED <<trees, found>>

\* scanAllSessions; isScanning keeps a second one from starting.
BeginFull ==
  /\ Begin(Full, Pane)
  /\ UNCHANGED <<worldVars, managerVars>>

\* The timer of scheduleHintScan: scanPane, if the pane has a shell.
HintTimer(p) ==
  /\ p \in hinted
  /\ hinted' = hinted \ {p}
  /\ IF registered[p] \in Shell THEN \E x \in Hint : Begin(x, {p}) ELSE UNCHANGED scanVars
  /\ UNCHANGED <<worldVars, registered, table>>

Ended(x) ==
  /\ phase' = [phase EXCEPT ![x] = "idle"]
  /\ target' = [target EXCEPT ![x] = [p \in Pane |-> None]]
  /\ trees' = [trees EXCEPT ![x] = [p \in Pane |-> {}]]
  /\ found' = [found EXCEPT ![x] = {}]

Targets(x) == {p \in Pane : target[x][p] # None}

\* getProcessTree of every shell; for those in failing it had an error, which reads as
\* an empty tree.  With an empty tree the scan of one pane is over.
ReadTrees(x, failing) ==
  /\ phase[x] = "trees"
  /\ LET tree == [p \in Pane |-> IF p \in Targets(x) \ failing THEN Tree(target[x][p]) ELSE {}] IN
     IF x \in Hint /\ \A p \in Pane : tree[p] = {}
     THEN /\ table' = [p \in Pane |-> IF p \in Targets(x) THEN Empty ELSE table[p]]
          /\ Ended(x)
     ELSE /\ trees' = [trees EXCEPT ![x] = tree]
          /\ phase' = [phase EXCEPT ![x] = "ports"]
          /\ UNCHANGED <<table, target, found>>
  /\ UNCHANGED <<worldVars, registered, hinted>>

Pids(x) == UNION {trees[x][p] : p \in Pane}

\* Variant: what lsof prints is taken as it is.
Unfiltered(x) == listening

\* lsof "returns all TCP listeners": those of other processes are left out.
OfRequested(x) == {i \in listening : i[2] \in Pids(x)}

\* getListeningPortsForPids; an error or its five-second timeout reads as no ports.
ReadPorts(x, fails) ==
  /\ phase[x] = "ports"
  /\ found' = [found EXCEPT ![x] = IF fails THEN {} ELSE OfRequested(x)]
  /\ phase' = [phase EXCEPT ![x] = "done"]
  /\ UNCHANGED <<worldVars, managerVars, target, trees>>

\* updatePortsForPane: the rows that the scan may leave for a pane.  Of several
\* processes on one port the last one stays.
Rows(infos) ==
  {row \in Row : \A t \in Port :
     IF \E q \in Process : <<t, q>> \in infos THEN <<t, row[t]>> \in infos ELSE row[t] = None}

\* What a full scan publishes goes to the pane whose tree the process is in.
InfosOf(x, p) == {i \in found[x] : i[2] \in trees[x][p]}

\* Variant: ports of panes that are not registered are kept.
FullRowsNoCleanup(p) ==
  IF trees[Full][p] # {} THEN Rows(InfosOf(Full, p))
  ELSE IF p \in Targets(Full) THEN {Empty} ELSE {table[p]}

\* updatePortsFromScan, clearEmptyTreePanes, and cleanupUnregisteredPorts at last.
FullRows(p) ==
  IF registered[p] = None THEN {Empty}
  ELSE IF trees[Full][p] # {} THEN Rows(InfosOf(Full, p))
  ELSE IF p \in Targets(Full) THEN {Empty} ELSE {table[p]}

PublishFull ==
  /\ phase[Full] = "done"
  /\ table' \in {new \in [Pane -> Row] : \A p \in Pane : new[p] \in FullRows(p)}
  /\ Ended(Full)
  /\ UNCHANGED <<worldVars, registered, hinted>>

\* The scan of one pane publishes its ports all together.
PublishHint(x) ==
  /\ x \in Hint /\ phase[x] = "done"
  /\ \E p \in Targets(x) : \E row \in Rows(found[x]) : table' = [table EXCEPT ![p] = row]
  /\ Ended(x)
  /\ UNCHANGED <<worldVars, registered, hinted>>

------------------------------------------------------------------------------
ScanStep(x) ==
  \/ ReadTrees(x, {}) \/ ReadPorts(x, FALSE) \/ PublishHint(x) \/ (x = Full /\ PublishFull)

Change ==
  \/ \E q \in Process : Starts(q) \/ Exits(q) \/ \E t \in Port : Listens(q, t)
  \/ \E p \in Pane : Upsert(p) \/ Unregister(p) \/ \E t \in Port : KillPort(p, t)
  \/ \E x \in Scan : ReadPorts(x, TRUE) \/ \E failing \in SUBSET Pane : ReadTrees(x, failing)

Next ==
  \/ /\ BeginFull \/ (\E p \in Pane : OutputHint(p) \/ HintTimer(p)) \/ \E x \in Scan : ScanStep(x)
     /\ UNCHANGED changes
  \/ changes < MaxChanges /\ changes' = changes + 1 /\ Change

Spec == Init /\ [][Next]_vars

\* The interval goes on, and the commands of a scan end: lsof has a timeout, while
\* pidtree is trusted to have an answer.
Fairness ==
  /\ WF_vars(BeginFull /\ UNCHANGED changes)
  /\ \A x \in Scan : WF_vars(ScanStep(x) /\ UNCHANGED changes)

FairSpec == Spec /\ Fairness

------------------------------------------------------------------------------
(* Properties *)

\* Types of the processes, the registry, the table and the scans.
TypeOK ==
  /\ started \subseteq Process /\ alive \subseteq started /\ condemned \subseteq alive
  /\ listening \subseteq Port \X alive
  /\ registered \in [Pane -> Shell \cup {None, Null}] /\ hinted \subseteq Pane
  /\ table \in [Pane -> Row]
  /\ phase \in [Scan -> {"idle", "trees", "ports", "done"}]
  /\ target \in [Scan -> [Pane -> Shell \cup {None}]]
  /\ trees \in [Scan -> [Pane -> SUBSET Process]]
  /\ found \in [Scan -> SUBSET (Port \X Process)]
  /\ changes \in 0..MaxChanges

\* A pane is shown ports of its own terminals only, although the list of sockets names
\* those of all processes and scans publish for panes that have changed since.
NoForeignPorts ==
  \A p \in Pane, t \in Port : table[p][t] # None => Home[Root[table[p][t]]] = p

\* However old the table is, killPort never kills the shell that a pane is running,
\* its own or another's.
ShellsSpared ==
  [][\A p \in Pane : registered[p] \in Shell =>
       registered[p] \notin condemned' \ condemned]_vars

\* Truth and table agree on a pane.
Agrees(p) ==
  LET tree == IF registered[p] \in Shell THEN Tree(registered[p]) ELSE {} IN
  table[p] \in Rows({i \in listening : i[2] \in tree})

\* When nothing changes any more the table comes to show what is there: results of
\* scans that overlapped with a change, an exit or each other do not stay.  A pane
\* that is registered without a pid keeps what it had.
TableCatchesUp == <>[](\A p \in Pane : registered[p] # Null => Agrees(p))

==============================================================================
