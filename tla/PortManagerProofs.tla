--------------------------- MODULE PortManagerProofs ---------------------------
(***************************************************************************)
(* Proofs about the table of ports, for any panes, processes and scans.    *)
(***************************************************************************)
EXTENDS PortManager, TLAPS

------------------------------------------------------------------------------
(* Operators *)

\* What is read as the tree of a shell runs, and runs below that shell.
LEMMA TreeOfShell ==
  ASSUME NEW s \in Shell, alive \subseteq Process, NEW q \in Tree(s)
  PROVE  q \in alive /\ q \in Process /\ Root[q] = s
BY PortAssumption DEF Tree

\* The only shell in the tree of a process is that process.
LEMMA ShellInTree ==
  ASSUME NEW q \in Process, NEW s \in Shell, s \in Tree(q)
  PROVE  s = q
BY PortAssumption DEF Tree

\* The rows of a scan name its ports.
LEMMA RowsFound ==
  ASSUME NEW infos, NEW row \in Rows(infos)
  PROVE  row \in Row /\ \A t \in Port : row[t] # None => <<t, row[t]>> \in infos
BY DEF Rows

LEMMA EmptyRow == Empty \in Row /\ \A t \in Port : Empty[t] = None
BY DEF Empty, Row

------------------------------------------------------------------------------
(* The inductive invariant                                                 *)
(*                                                                         *)
(* A row may be written long after its pane has changed hands, so nothing  *)
(* can be said of the present shell of the pane; what lasts is that every  *)
(* pid on its way to a row of the table was read below some shell of the   *)
(* same pane.                                                              *)

Registry == \A p \in Pane : registered[p] \in Shell => Home[registered[p]] = p

\* What the scan x has read.
ScanOK(x) ==
  /\ \A p \in Pane : target[x][p] # None => Home[target[x][p]] = p
  /\ \A p \in Pane : \A q \in trees[x][p] : p \in Targets(x) /\ Home[Root[q]] = p
  /\ x \in Hint => \A p, q \in Targets(x) : p = q
  /\ \A i \in found[x] : i[2] \in Pids(x)
  /\ phase[x] \in {"idle", "trees"} => found[x] = {} /\ \A p \in Pane : trees[x][p] = {}

PortInv == TypeOK /\ Registry /\ (\A x \in Scan : ScanOK(x)) /\ NoForeignPorts

LEMMA InitPorts == Init => PortInv
<1> SUFFICES ASSUME Init PROVE PortInv
  OBVIOUS
<1>1. TypeOK
  BY PortAssumption, EmptyRow DEF Init, TypeOK
<1>2. \A x \in Scan : ScanOK(x)
  BY DEF Init, ScanOK, Targets
<1>3. Registry /\ NoForeignPorts
  BY PortAssumption, EmptyRow DEF Init, Registry, NoForeignPorts
<1>. QED  BY <1>1, <1>2, <1>3 DEF PortInv

------------------------------------------------------------------------------
(* Steps *)

\* The world moves; the manager and the scans do not.
LEMMA WorldStep ==
  ASSUME PortInv, changes' \in 0..MaxChanges,
         \E q \in Process : Starts(q) \/ Exits(q) \/ \E t \in Port : Listens(q, t)
  PROVE  PortInv'
<1>1. UNCHANGED <<managerVars, scanVars>>
  BY DEF Starts, Exits, Listens
<1>2. TypeOK'
  <2>1. /\ started' \subseteq Process /\ alive' \subseteq started' /\ condemned' \subseteq alive'
        /\ listening' \subseteq Port \X alive'
    BY DEF PortInv, TypeOK, Starts, Exits, Listens
  <2>. QED  BY <1>1, <2>1 DEF PortInv, TypeOK, managerVars, scanVars
<1>. QED
  BY <1>1, <1>2
     DEF PortInv, managerVars, scanVars, Registry, ScanOK, Targets, Pids, NoForeignPorts

\* The registry and the timers; rows are only emptied.
LEMMA ManagerStep ==
  ASSUME PortInv, changes' \in 0..MaxChanges, NEW p \in Pane,
         Upsert(p) \/ Unregister(p) \/ OutputHint(p) \/ \E t \in Port : KillPort(p, t)
  PROVE  PortInv'
<1>1. UNCHANGED <<started, alive, listening, scanVars>>
  BY DEF Upsert, Unregister, OutputHint, KillPort, worldVars
<1>2. /\ registered' \in [Pane -> Shell \cup {None, Null}] /\ Registry'
      /\ hinted' \subseteq Pane
  BY PortAssumption
     DEF PortInv, TypeOK, Registry, Upsert, Unregister, OutputHint, KillPort, managerVars
<1>3. condemned' \subseteq alive'
  BY DEF PortInv, TypeOK, Upsert, Unregister, OutputHint, KillPort, worldVars, Tree
<1>4. table' = table \/ table' = [table EXCEPT ![p] = Empty]
  BY DEF Upsert, Unregister, OutputHint, KillPort, managerVars, RemovePorts
<1>5. table' \in [Pane -> Row] /\ NoForeignPorts'
  BY <1>4, EmptyRow DEF PortInv, TypeOK, NoForeignPorts
<1>. QED
  BY <1>1, <1>2, <1>3, <1>5 DEF PortInv, TypeOK, scanVars, ScanOK, Targets, Pids

\* A scan reads the registered shells, each of which belongs to its pane.
LEMMA BeginStep ==
  ASSUME PortInv, NEW x \in Scan, NEW P \in SUBSET Pane, Begin(x, P),
         x \in Hint => \E p \in Pane : P = {p},
         UNCHANGED <<worldVars, registered, table, changes>>, hinted' \subseteq Pane
  PROVE  PortInv'
<1> DEFINE read == [p \in Pane |-> IF p \in P /\ registered[p] # Null THEN registered[p] ELSE None]
<1>1. /\ target' = [target EXCEPT ![x] = read] /\ phase' = [phase EXCEPT ![x] = "trees"]
      /\ phase[x] = "idle" /\ UNCHANGED <<trees, found>>
  BY DEF Begin
<1>2. read \in [Pane -> Shell \cup {None}] /\ \A p \in Pane : read[p] # None => p \in P
  BY DEF PortInv, TypeOK
<1>3. TypeOK'
  BY <1>1, <1>2 DEF PortInv, TypeOK, worldVars
<1>4. target'[x] = read /\ \A y \in Scan \ {x} : target'[y] = target[y] /\ phase'[y] = phase[y]
  BY <1>1 DEF PortInv, TypeOK
<1>5. ScanOK(x)'
  <2>1. \A p \in Pane : target'[x][p] # None => Home[target'[x][p]] = p
    BY <1>2, <1>4 DEF PortInv, Registry
  <2>2. found'[x] = {} /\ \A p \in Pane : trees'[x][p] = {}
    BY <1>1 DEF PortInv, ScanOK
  <2>3. x \in Hint => \A p, q \in Targets(x)' : p = q
    BY <1>2, <1>4 DEF Targets
  <2>. QED  BY <2>1, <2>2, <2>3 DEF ScanOK
<1>6. ASSUME NEW y \in Scan \ {x} PROVE ScanOK(y)'
  BY <1>1, <1>4, <1>6 DEF PortInv, ScanOK, Targets, Pids
<1>7. Registry' /\ NoForeignPorts'
  BY DEF PortInv, Registry, NoForeignPorts
<1>. QED  BY <1>3, <1>5, <1>6, <1>7 DEF PortInv

\* A scan that has ended holds nothing.
LEMMA EndedStep ==
  ASSUME PortInv, NEW x \in Scan, Ended(x), table' \in [Pane -> Row], NoForeignPorts',
         UNCHANGED <<worldVars, registered, hinted>>, changes' \in 0..MaxChanges
  PROVE  PortInv'
<1>1. /\ phase' = [phase EXCEPT ![x] = "idle"]
      /\ target' = [target EXCEPT ![x] = [p \in Pane |-> None]]
      /\ trees' = [trees EXCEPT ![x] = [p \in Pane |-> {}]]
      /\ found' = [found EXCEPT ![x] = {}]
  BY DEF Ended
<1>2. TypeOK'
  BY <1>1 DEF PortInv, TypeOK, worldVars
<1>3. /\ target'[x] = [p \in Pane |-> None] /\ trees'[x] = [p \in Pane |-> {}] /\ found'[x] = {}
      /\ \A y \in Scan \ {x} : /\ target'[y] = target[y] /\ trees'[y] = trees[y]
                               /\ found'[y] = found[y] /\ phase'[y] = phase[y]
  BY <1>1 DEF PortInv, TypeOK
<1>4. ScanOK(x)'
  BY <1>3 DEF ScanOK, Targets
<1>5. ASSUME NEW y \in Scan \ {x} PROVE ScanOK(y)'
  BY <1>3, <1>5 DEF PortInv, ScanOK, Targets, Pids
<1>. QED  BY <1>2, <1>4, <1>5 DEF PortInv, Registry

\* Trees are read below the shells of their panes.
LEMMA ReadTreesStep ==
  ASSUME PortInv, NEW x \in Scan, NEW failing \in SUBSET Pane, ReadTrees(x, failing),
         changes' \in 0..MaxChanges
  PROVE  PortInv'
<1> DEFINE tree == [p \in Pane |-> IF p \in Targets(x) \ failing THEN Tree(target[x][p]) ELSE {}]
<1>0. phase[x] = "trees" /\ UNCHANGED <<worldVars, registered, hinted>>
  BY DEF ReadTrees
<1>1. CASE x \in Hint /\ \A p \in Pane : tree[p] = {}
  <2>1. /\ table' = [p \in Pane |-> IF p \in Targets(x) THEN Empty ELSE table[p]]
        /\ Ended(x)
    BY <1>1 DEF ReadTrees
  <2>2. table' \in [Pane -> Row] /\ NoForeignPorts'
    BY <2>1, EmptyRow DEF PortInv, TypeOK, NoForeignPorts
  <2>. QED  BY <1>0, <2>1, <2>2, EndedStep
<1>2. CASE ~(x \in Hint /\ \A p \in Pane : tree[p] = {})
  <2>1. /\ trees' = [trees EXCEPT ![x] = tree] /\ phase' = [phase EXCEPT ![x] = "ports"]
        /\ UNCHANGED <<table, target, found>>
    BY <1>2 DEF ReadTrees
  <2>2. ASSUME NEW p \in Pane, NEW q \in tree[p]
        PROVE  p \in Targets(x) /\ q \in Process /\ Home[Root[q]] = p
    <3>1. p \in Targets(x) /\ q \in Tree(target[x][p])
      BY <2>2
    <3>2. target[x][p] \in Shell /\ Home[target[x][p]] = p
      BY <3>1 DEF PortInv, TypeOK, ScanOK, Targets
    <3>. QED  BY <3>1, <3>2, TreeOfShell DEF PortInv, TypeOK
  <2>3. tree \in [Pane -> SUBSET Process]
    BY <2>2
  <2> HIDE DEF tree
  <2>4. TypeOK'
    BY <1>0, <2>1, <2>3 DEF PortInv, TypeOK, worldVars
  <2>5. /\ trees'[x] = tree /\ phase'[x] = "ports" /\ found'[x] = {}
        /\ \A y \in Scan \ {x} : trees'[y] = trees[y] /\ phase'[y] = phase[y]
    BY <1>0, <2>1 DEF PortInv, TypeOK, ScanOK
  <2>6. ScanOK(x)'
    BY <2>1, <2>2, <2>5 DEF PortInv, ScanOK, Targets
  <2>7. ASSUME NEW y \in Scan \ {x} PROVE ScanOK(y)'
    BY <2>1, <2>5, <2>7 DEF PortInv, ScanOK, Targets, Pids
  <2>. QED  BY <1>0, <2>1, <2>4, <2>6, <2>7 DEF PortInv, Registry, NoForeignPorts
<1>. QED  BY <1>1, <1>2

\* Sockets of other processes are left out.
LEMMA ReadPortsStep ==
  ASSUME PortInv, NEW x \in Scan, NEW fails \in BOOLEAN, ReadPorts(x, fails),
         changes' \in 0..MaxChanges
  PROVE  PortInv'
<1>1. /\ phase[x] = "ports" /\ phase' = [phase EXCEPT ![x] = "done"]
      /\ found' = [found EXCEPT ![x] = IF fails THEN {} ELSE OfRequested(x)]
      /\ UNCHANGED <<worldVars, managerVars, target, trees>>
  BY DEF ReadPorts
<1>2. OfRequested(x) \subseteq Port \X Process /\ \A i \in OfRequested(x) : i[2] \in Pids(x)
  BY DEF OfRequested, PortInv, TypeOK
<1>3. TypeOK'
  BY <1>1, <1>2 DEF PortInv, TypeOK, worldVars, managerVars
<1>4. /\ found'[x] \subseteq OfRequested(x) /\ phase'[x] = "done"
      /\ \A y \in Scan \ {x} : found'[y] = found[y] /\ phase'[y] = phase[y]
  BY <1>1 DEF PortInv, TypeOK
<1>5. ScanOK(x)'
  BY <1>1, <1>2, <1>4 DEF PortInv, ScanOK, Targets, Pids
<1>6. ASSUME NEW y \in Scan \ {x} PROVE ScanOK(y)'
  BY <1>1, <1>4, <1>6 DEF PortInv, ScanOK, Targets, Pids
<1>. QED  BY <1>1, <1>3, <1>5, <1>6 DEF PortInv, managerVars, Registry, NoForeignPorts

\* A full scan publishes for each pane what was found in its own tree.
LEMMA PublishFullStep ==
  ASSUME PortInv, PublishFull, UNCHANGED changes
  PROVE  PortInv'
<1>1. /\ Ended(Full) /\ UNCHANGED <<worldVars, registered, hinted>>
      /\ table' \in [Pane -> Row] /\ \A p \in Pane : table'[p] \in FullRows(p)
  BY DEF PublishFull
<1>2. ASSUME NEW p \in Pane, NEW t \in Port, table'[p][t] # None
      PROVE  Home[Root[table'[p][t]]] = p
  <2>1. \/ table'[p] = Empty \/ table'[p] = table[p] \/ table'[p] \in Rows(InfosOf(Full, p))
    BY <1>1, <1>2 DEF FullRows
  <2>2. CASE table'[p] \in Rows(InfosOf(Full, p))
    <3>1. <<t, table'[p][t]>> \in InfosOf(Full, p)
      BY <1>2, <2>2, RowsFound
    <3>2. table'[p][t] \in trees[Full][p]
      BY <3>1 DEF InfosOf
    <3>. QED  BY <3>2 DEF PortInv, ScanOK, Scan
  <2>. QED  BY <1>2, <2>1, <2>2, EmptyRow DEF PortInv, NoForeignPorts
<1>3. NoForeignPorts'
  BY <1>2 DEF NoForeignPorts
<1>. QED  BY <1>1, <1>3, EndedStep DEF Scan, PortInv, TypeOK

\* The scan of one pane has read one tree, that of its own pane.
LEMMA PublishHintStep ==
  ASSUME PortInv, NEW x \in Hint, PublishHint(x), UNCHANGED changes
  PROVE  PortInv'
<1>1. x \in Scan
  BY DEF Scan
<1>2. Ended(x) /\ UNCHANGED <<worldVars, registered, hinted>>
  BY DEF PublishHint
<1>3. PICK p \in Targets(x), row \in Rows(found[x]) : table' = [table EXCEPT ![p] = row]
  BY DEF PublishHint
<1>a. p \in Pane /\ row \in Row /\ \A t \in Port : row[t] # None => <<t, row[t]>> \in found[x]
  BY <1>3, RowsFound DEF Targets
<1>b. \A i \in found[x] : i[2] \in Pids(x)
  BY <1>1 DEF PortInv, ScanOK
<1>4. p \in Pane /\ row \in Row /\ \A t \in Port : row[t] # None => row[t] \in Pids(x)
  <2> SUFFICES ASSUME NEW t \in Port, row[t] # None PROVE row[t] \in Pids(x)
    BY <1>a
  <2>1. <<t, row[t]>>[2] \in Pids(x)
    BY <1>a, <1>b
  <2>. QED  BY <2>1
<1>5. \A t \in Port : row[t] # None => Home[Root[row[t]]] = p
  BY <1>1, <1>3, <1>4 DEF PortInv, ScanOK, Pids
<1>6. table' \in [Pane -> Row] /\ NoForeignPorts'
  BY <1>3, <1>4, <1>5 DEF PortInv, TypeOK, NoForeignPorts
<1>. QED  BY <1>1, <1>2, <1>6, EndedStep DEF PortInv, TypeOK

LEMMA PortStep == PortInv /\ [Next]_vars => PortInv'
<1> SUFFICES ASSUME PortInv, [Next]_vars PROVE PortInv'
  OBVIOUS
<1>0. changes \in 0..MaxChanges /\ hinted \subseteq Pane
  BY DEF PortInv, TypeOK
<1>1. ASSUME BeginFull, UNCHANGED changes PROVE PortInv'
  BY <1>0, <1>1, BeginStep, PortAssumption DEF BeginFull, managerVars, Scan
<1>2. ASSUME NEW p \in Pane, OutputHint(p), UNCHANGED changes PROVE PortInv'
  BY <1>0, <1>2, ManagerStep
<1>3. ASSUME NEW p \in Pane, HintTimer(p), UNCHANGED changes PROVE PortInv'
  <2>1. hinted' \subseteq Pane /\ UNCHANGED <<worldVars, registered, table>>
    BY <1>0, <1>3 DEF HintTimer
  <2>2. CASE UNCHANGED scanVars
    BY <1>3, <2>1, <2>2
       DEF PortInv, TypeOK, worldVars, scanVars, Registry, ScanOK, Targets, Pids, NoForeignPorts
  <2>3. ASSUME NEW x \in Hint, Begin(x, {p}) PROVE PortInv'
    BY <1>3, <2>1, <2>3, BeginStep DEF Scan
  <2>. QED  BY <1>3, <2>2, <2>3 DEF HintTimer
<1>4. ASSUME NEW x \in Scan, ScanStep(x), UNCHANGED changes PROVE PortInv'
  <2>1. CASE ReadTrees(x, {})
    BY <1>0, <1>4, <2>1, ReadTreesStep
  <2>2. CASE ReadPorts(x, FALSE)
    BY <1>0, <1>4, <2>2, ReadPortsStep
  <2>3. CASE PublishHint(x)
    BY <1>4, <2>3, PublishHintStep DEF PublishHint
  <2>4. CASE x = Full /\ PublishFull
    BY <1>4, <2>4, PublishFullStep
  <2>. QED  BY <1>4, <2>1, <2>2, <2>3, <2>4 DEF ScanStep
<1>5. ASSUME changes < MaxChanges, changes' = changes + 1, Change PROVE PortInv'
  <2>1. changes' \in 0..MaxChanges
    BY <1>0, <1>5, PortAssumption
  <2>. QED
    BY <1>5, <2>1, WorldStep, ManagerStep, ReadPortsStep, ReadTreesStep DEF Change
<1>6. CASE UNCHANGED vars
  BY <1>6
     DEF PortInv, TypeOK, vars, worldVars, managerVars, scanVars, Registry, ScanOK, Targets,
         Pids, NoForeignPorts
<1>. QED  BY <1>1, <1>2, <1>3, <1>4, <1>5, <1>6 DEF Next

LEMMA PortAlways == Spec => []PortInv
BY InitPorts, PortStep, PTL DEF Spec

------------------------------------------------------------------------------
(* Theorems *)

\* Processes, registry, table and scans keep their types.
THEOREM TypeCorrect == Spec => []TypeOK
<1>1. PortInv => TypeOK
  BY DEF PortInv
<1>. QED  BY <1>1, PortAlways, PTL

\* A pane is shown ports of its own terminals only, whatever scans overlapped.
THEOREM OwnPortsOnly == Spec => []NoForeignPorts
<1>1. PortInv => NoForeignPorts
  BY DEF PortInv
<1>. QED  BY <1>1, PortAlways, PTL

\* killPort condemns one tree; a shell in it is the process of the row, which belongs
\* to the pane itself: so it is the one shell that is spared, or no registered one.
LEMMA KillSpares ==
  ASSUME PortInv, NEW p \in Pane, NEW t \in Port, KillPort(p, t),
         NEW o \in Pane, registered[o] \in Shell
  PROVE  registered[o] \notin condemned' \ condemned
<1>1. /\ table[p][t] # None /\ table[p][t] # registered[p]
      /\ condemned' = condemned \cup Tree(table[p][t])
  BY DEF KillPort
<1>2. table[p][t] \in Process
  BY <1>1 DEF PortInv, TypeOK, Row
<1>3. SUFFICES ASSUME registered[o] \in Tree(table[p][t]) PROVE FALSE
  BY <1>1
<1>4. registered[o] = table[p][t]
  BY <1>2, <1>3, ShellInTree
<1>5. Home[registered[o]] = o /\ Root[registered[o]] = registered[o]
  BY PortAssumption DEF PortInv, Registry
<1>6. o = p
  BY <1>1, <1>4, <1>5 DEF PortInv, NoForeignPorts
<1>. QED  BY <1>1, <1>4, <1>6

\* However old the table is, killPort never kills a shell that a pane is running.
THEOREM ShellsSparedAlways == Spec => ShellsSpared
<1>1. PortInv /\ [Next]_vars
        => [\A p \in Pane : registered[p] \in Shell =>
              registered[p] \notin condemned' \ condemned]_vars
  <2> SUFFICES ASSUME PortInv, Next
               PROVE  \A p \in Pane : registered[p] \in Shell =>
                        registered[p] \notin condemned' \ condemned
    OBVIOUS
  <2>1. CASE \E p \in Pane, t \in Port : KillPort(p, t)
    BY <2>1, KillSpares
  <2>2. CASE condemned' \subseteq condemned
    BY <2>2
  <2>3. condemned' \subseteq condemned \/ \E p \in Pane, t \in Port : KillPort(p, t)
    BY DEF Next, BeginFull, OutputHint, HintTimer, ScanStep, ReadTrees, ReadPorts, PublishHint,
           PublishFull, Change, Starts, Exits, Listens, Upsert, Unregister, worldVars
  <2>. QED  BY <2>1, <2>2, <2>3
<1>. QED  BY <1>1, PortAlways, PTL DEF Spec, ShellsSpared

==============================================================================
