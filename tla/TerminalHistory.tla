---------------------------- MODULE TerminalHistory ----------------------------
(***************************************************************************)
(* The history of terminals on disk (main/lib/terminal-history.ts) and the *)
(* writers that the app keeps for it                                       *)
(* (main/lib/terminal/daemon/history-manager.ts).  A meta.json without     *)
(* endedAt is how the next start of the app knows of a crash; writers open *)
(* and close by several awaits, so that those of one pane may overlap.     *)
(***************************************************************************)
EXTENDS Naturals

CONSTANTS Pane,
          MaxInFlight  \* bound: operations of a kind under way for one pane

ASSUME MaxInFlightAssumption == MaxInFlight \in Nat \ {0}

VARIABLES
  writer,   \* historyWriters: panes with a writer
  inits,    \* runs of initHistoryWriter under way: historyInitializing
  closes,   \* runs of HistoryWriter.close under way
  meta,     \* meta.json: none, open (no endedAt), ended
  \* history, which no action reads
  tangled   \* panes whose writers have overlapped, or could not be made

historyVars == <<writer, inits, closes, meta, tangled>>

HistoryInit ==
  /\ writer = {} /\ tangled = {}
  /\ inits = [p \in Pane |-> 0] /\ closes = [p \in Pane |-> 0]

Settled(p) == inits[p] = 0 /\ closes[p] = 0

\* initHistoryWriter begins.
StartsInit(p) ==
  /\ inits[p] < MaxInFlight
  /\ inits' = [inits EXCEPT ![p] = @ + 1]
  /\ tangled' = IF Settled(p) THEN tangled ELSE tangled \cup {p}
  /\ UNCHANGED <<writer, closes, meta>>

\* closeHistoryWriter: a writer is closed; one that is being made is not there yet.
CloseWriter(p) ==
  /\ closes[p] < MaxInFlight
  /\ closes' = IF p \in writer THEN [closes EXCEPT ![p] = @ + 1] ELSE closes
  /\ writer' = writer \ {p}
  /\ tangled' = IF inits[p] = 0 THEN tangled ELSE tangled \cup {p}
  /\ UNCHANGED <<inits, meta>>

\* closeAllSync.
CloseAll ==
  /\ \A p \in writer : closes[p] < MaxInFlight
  /\ closes' = [p \in Pane |-> IF p \in writer THEN closes[p] + 1 ELSE closes[p]]
  /\ writer' = {}
  /\ tangled' = tangled \cup {p \in Pane : inits[p] > 0}
  /\ UNCHANGED <<inits, meta>>

\* writeToHistory of the sequence that clears the scrollback: the writer is closed
\* and the next one made at once, on the same files.
ClearWriter(p) ==
  /\ p \in writer /\ inits[p] = 0
  /\ closes[p] < MaxInFlight
  /\ closes' = [closes EXCEPT ![p] = @ + 1]
  /\ writer' = writer \ {p}
  /\ inits' = [inits EXCEPT ![p] = @ + 1]
  /\ tangled' = tangled \cup {p}
  /\ UNCHANGED meta

\* The directory is removed, by cleanupHistory or HistoryReader.cleanup.
RemoveFiles(p) ==
  /\ meta' = [meta EXCEPT ![p] = "none"]
  /\ tangled' = IF inits[p] = 0 /\ p \notin writer THEN tangled ELSE tangled \cup {p}
  /\ UNCHANGED <<writer, inits, closes>>

------------------------------------------------------------------------------
\* HistoryWriter.init has written a meta.json without endedAt, and the writer is put
\* into the map.
InitDone(p) ==
  /\ inits[p] > 0
  /\ inits' = [inits EXCEPT ![p] = @ - 1]
  /\ writer' = writer \cup {p} /\ meta' = [meta EXCEPT ![p] = "open"]
  /\ UNCHANGED <<closes, tangled>>

\* The disk is full, or the files are gone.
InitFails(p) ==
  /\ inits[p] > 0
  /\ inits' = [inits EXCEPT ![p] = @ - 1]
  /\ tangled' = tangled \cup {p}
  /\ UNCHANGED <<writer, closes, meta>>

\* Variant: the metadata stays as it was written at the beginning.
CloseDoneNoEnd(p) ==
  /\ closes[p] > 0
  /\ closes' = [closes EXCEPT ![p] = @ - 1]
  /\ UNCHANGED <<writer, inits, meta, tangled>>

\* HistoryWriter.close has written endedAt, if the directory is there.
CloseDone(p) ==
  /\ closes[p] > 0
  /\ closes' = [closes EXCEPT ![p] = @ - 1]
  /\ \/ (meta[p] # "none" \/ inits[p] > 0) /\ meta' = [meta EXCEPT ![p] = "ended"]
     \/ meta[p] = "none" /\ UNCHANGED meta
  /\ UNCHANGED <<writer, inits, tangled>>

HistoryTypeOK ==
  /\ writer \subseteq Pane /\ tangled \subseteq Pane
  /\ inits \in [Pane -> 0..MaxInFlight] /\ closes \in [Pane -> 0..MaxInFlight]
  /\ meta \in [Pane -> {"none", "open", "ended"}]

==============================================================================
