----------------------------- MODULE DaemonManager -----------------------------
(***************************************************************************)
(* The app's view of its terminals                                         *)
(* (main/lib/terminal/daemon/daemon-manager.ts): what it believes of the   *)
(* sessions, while the daemon creates and ends them.  Answers come by one  *)
(* socket and events by another, so that they may overtake each other.     *)
(*                                                                         *)
(* The app is one JavaScript thread: an action is what happens between two *)
(* awaits.  A run of createOrAttach is a member of Creation; the daemon is *)
(* the sessions it hosts, and the events it has sent (the module           *)
(* TerminalHost is its own model).  A request is taken to reach the daemon *)
(* when it is sent: the app sees no difference before an answer or event.  *)
(* The reads of one history, and its removal, are one step.                *)
(***************************************************************************)
EXTENDS PrioritySemaphore, TerminalHistory, FiniteSets

CONSTANTS Creation, None,
          Lively,      \* bound: panes that have a history on disk, and in which sessions
                       \* exit, are killed and are cleared
          MaxTrouble   \* bound: disturbances in one behaviour

ASSUME CreationAssumption ==
  /\ User = Creation /\ None \notin Creation \cup Pane
  /\ Lively \subseteq Pane /\ MaxTrouble \in Nat

VARIABLES
  \* runs of createOrAttach
  pc,        \* idle, queued, rejected, starting, listing, listed, unlisted, reading,
             \* clearing, asked, answered, ending, failing
  paneOf,    \* the pane of a run
  skip,      \* skipColdRestore
  listed,    \* the answer to listSessions on its way
  \* the manager
  session,   \* sessions: none, alive; or not alive: exited, killed, lost
  pending,   \* pendingSessions
  tombs,     \* killedSessionTombstones
  aliveIds,  \* daemonAliveSessionIds
  hydrated,  \* daemonSessionIdsHydrated
  cold,      \* panes with coldRestoreInfo
  timer,     \* panes with an entry in cleanupTimeouts
  stray,     \* cleanup timers that run without one
  killing,   \* panes whose kill waits for the removal of the history
  \* the daemon
  hosted,    \* panes with a live session
  dying,     \* panes with a session that was told to end
  late,      \* panes the daemon still creates a session for, although the app gave up
  attached,  \* panes whose events are sent to the app
  exits,     \* exit events under way
  unknown,   \* panes with a "Session not found" under way
  \* history, which no action reads
  slipped,   \* panes with an exit or a kill while a createOrAttach was under way, an
             \* exit told of while the cleanup of the last one is due, or a kill that
             \* came after the next session or failed
  wasReset,  \* reset was called while a createOrAttach was under way
  trouble    \* disturbances so far

runVars == <<pc, paneOf, skip, listed>>
managerVars == <<session, pending, tombs, aliveIds, hydrated, cold, timer, stray, killing>>
daemonVars == <<hosted, dying, late, attached, exits, unknown>>
historyNotes == <<slipped, wasReset>>
vars == <<inUse, waiting, historyVars, runVars, managerVars, daemonVars, historyNotes, trouble>>

\* The app has just started: the daemon hosts sessions of an earlier run, or none.
Init ==
  /\ SemaphoreInit /\ HistoryInit
  /\ pc = [c \in Creation |-> "idle"] /\ paneOf = [c \in Creation |-> None]
  /\ skip = {} /\ listed = [c \in Creation |-> {}]
  /\ session = [p \in Pane |-> "none"] /\ pending = [p \in Pane |-> None]
  /\ tombs = {} /\ aliveIds = {} /\ hydrated = FALSE /\ cold = {}
  /\ timer = {} /\ stray = [p \in Pane |-> 0] /\ killing = {}
  /\ hosted \in SUBSET Lively
  /\ meta \in [Pane -> {"none", "open", "ended"}]
  /\ \A p \in Pane \ Lively : meta[p] = "none"
  /\ dying = {} /\ late = {} /\ attached = {}
  /\ exits = [p \in Pane |-> 0] /\ unknown = {}
  /\ slipped = {} /\ wasReset = FALSE /\ trouble = 0

Limiter == <<inUse, waiting>>
InProgress(p) == \E c \in Creation : paneOf[c] = p /\ pc[c] # "ending"

------------------------------------------------------------------------------
(* The end of a run *)

\* The finally clauses of doCreateOrAttach and of createOrAttach: the entry of the
\* pane goes, whichever run it belongs to.
Finish(c) ==
  /\ Release
  /\ pc' = [x \in Creation |-> IF x = c THEN "idle"
                               ELSE IF x \in Served THEN "starting" ELSE pc[x]]
  /\ paneOf' = [paneOf EXCEPT ![c] = None]
  /\ skip' = skip \ {c}
  /\ listed' = [listed EXCEPT ![c] = {}]
  /\ pending' = [pending EXCEPT ![paneOf[c]] = None]

Goto(c, place) == pc' = [pc EXCEPT ![c] = place]
Stay == UNCHANGED <<Limiter, paneOf, skip, listed, pending>>

\* The run of a new session reads the metadata of the last one before it ends.
Ends(c) == Finish(c) \/ (Goto(c, "ending") /\ Stay)

------------------------------------------------------------------------------
(* createOrAttach *)

\* A new run; for a pane that was killed only with allowKilled, which clears the
\* tombstone.
Begin(c, p) ==
  /\ pc[c] = "idle" /\ pending[p] = None
  /\ tombs' = tombs \ {p}
  /\ paneOf' = [paneOf EXCEPT ![c] = p] /\ pending' = [pending EXCEPT ![p] = c]
  /\ skip' \in {skip, skip \cup {c}}
  /\ \/ AcquireAtOnce /\ Goto(c, "starting")
     \/ \E priority \in 0..1 : AcquireLater(c, priority) /\ Goto(c, "queued")
  /\ UNCHANGED <<listed, session, aliveIds, hydrated, cold, timer, stray, killing,
                 historyVars, daemonVars, historyNotes>>

\* A call for a pane with a run in progress is given the promise of that run.
Join(p) ==
  /\ pending[p] # None /\ p \in tombs
  /\ tombs' = tombs \ {p}
  /\ UNCHANGED <<session, pending, aliveIds, hydrated, cold, timer, stray, killing,
                 Limiter, historyVars, runVars, daemonVars, historyNotes>>

\* The request is sent.  The daemon attaches a session that it hosts; one that is
\* about to end it disposes of, without an event, and creates another.
Ask(c) ==
  LET p == paneOf[c] IN
  /\ Goto(c, IF p \in hosted THEN "answered" ELSE "asked")
  /\ attached' = IF p \in hosted THEN attached \cup {p} ELSE attached
  /\ dying' = dying \ {p}
  /\ UNCHANGED <<hosted, late, exits, unknown>>

\* How the run goes on when the inventory of the daemon is known to be ids.
Route(c, ids) ==
  LET p == paneOf[c] IN
  \/ p \in ids /\ Ask(c) /\ UNCHANGED historyVars
  \/ /\ p \notin ids /\ c \notin skip /\ Goto(c, "reading")
     /\ UNCHANGED <<daemonVars, historyVars>>
  \/ /\ p \notin ids /\ c \in skip /\ Goto(c, "clearing")
     /\ CloseWriter(p) /\ UNCHANGED daemonVars

\* With a permit: a cold restore that was not acknowledged is answered once more.
Start(c) ==
  LET p == paneOf[c] IN
  /\ pc[c] = "starting"
  /\ IF c \notin skip /\ p \in cold
     THEN Finish(c) /\ UNCHANGED <<cold, daemonVars, historyVars>>
     ELSE /\ cold' = IF c \in skip THEN cold \ {p} ELSE cold
          /\ IF hydrated THEN Route(c, aliveIds)
                         ELSE Goto(c, "listing") /\ UNCHANGED <<daemonVars, historyVars>>
          /\ Stay
  /\ UNCHANGED <<session, tombs, aliveIds, hydrated, timer, stray, killing, historyNotes>>

DaemonLists(c) ==
  /\ pc[c] = "listing"
  /\ Goto(c, "listed") /\ listed' = [listed EXCEPT ![c] = hosted]
  /\ UNCHANGED <<Limiter, historyVars, paneOf, skip, managerVars, daemonVars, historyNotes>>

\* ensureDaemonSessionIdsHydrated has its answer, or an error.
Hydrated(c) ==
  /\ \/ /\ pc[c] = "listed"
        /\ aliveIds' = listed[c] /\ hydrated' = TRUE
        /\ Route(c, listed[c])
     \/ /\ pc[c] \in {"listing", "unlisted"}
        /\ UNCHANGED <<aliveIds, hydrated>>
        /\ Route(c, aliveIds)
  /\ listed' = [listed EXCEPT ![c] = {}]
  /\ UNCHANGED <<Limiter, paneOf, skip, pending, session, tombs, cold, timer, stray,
                 killing, historyNotes>>

\* attemptColdRestore: after a crash the run is answered from the disk.
ColdRestore(c) ==
  /\ pc[c] = "reading" /\ meta[paneOf[c]] = "open"
  /\ cold' = cold \cup {paneOf[c]}
  /\ Finish(c)
  /\ UNCHANGED <<session, tombs, aliveIds, hydrated, timer, stray, killing,
                 historyVars, daemonVars, historyNotes>>

\* Nothing to restore; a history without its scrollback is removed.
NoColdRestore(c) ==
  /\ pc[c] = "reading"
  /\ \/ meta[paneOf[c]] # "open" /\ UNCHANGED historyVars
     \/ meta[paneOf[c]] = "open" /\ RemoveFiles(paneOf[c])
  /\ Ask(c) /\ Stay
  /\ UNCHANGED <<session, tombs, aliveIds, hydrated, cold, timer, stray, killing, historyNotes>>

\* The history of a pane that starts afresh has been removed.
Cleared(c) ==
  /\ pc[c] = "clearing"
  /\ RemoveFiles(paneOf[c])
  /\ Ask(c) /\ Stay
  /\ UNCHANGED <<session, tombs, aliveIds, hydrated, cold, timer, stray, killing, historyNotes>>

DaemonCreates(c) ==
  /\ pc[c] = "asked"
  /\ Goto(c, "answered")
  /\ hosted' = hosted \cup {paneOf[c]} /\ attached' = attached \cup {paneOf[c]}
  /\ UNCHANGED <<Limiter, paneOf, skip, listed, managerVars, dying, late, exits, unknown,
                 historyVars, historyNotes>>

\* Variant: a cleanup that was scheduled for the last session is left to run.
AnsweredTimerStays(c) ==
  LET p == paneOf[c] IN
  /\ pc[c] = "answered"
  /\ aliveIds' = aliveIds \cup {p}
  /\ session' = [session EXCEPT ![p] = "alive"]
  /\ IF p \in Lively THEN StartsInit(p) ELSE UNCHANGED historyVars
  /\ Ends(c)
  /\ UNCHANGED <<tombs, hydrated, cold, timer, stray, killing, daemonVars, historyNotes>>

\* The answer: the session counts as alive.
Answered(c) ==
  LET p == paneOf[c] IN
  /\ pc[c] = "answered"
  /\ aliveIds' = aliveIds \cup {p}
  /\ timer' = timer \ {p}
  /\ session' = [session EXCEPT ![p] = "alive"]
  /\ IF p \in Lively THEN StartsInit(p) ELSE UNCHANGED historyVars
  /\ Ends(c)
  /\ UNCHANGED <<tombs, hydrated, cold, stray, killing, daemonVars, historyNotes>>

MetadataRead(c) ==
  /\ pc[c] = "ending"
  /\ Finish(c)
  /\ UNCHANGED <<session, tombs, aliveIds, hydrated, cold, timer, stray, killing,
                 historyVars, daemonVars, historyNotes>>

\* The run ends with an error.
Fails(c) ==
  /\ Finish(c)
  /\ UNCHANGED <<session, tombs, aliveIds, hydrated, cold, timer, stray, killing,
                 hosted, dying, attached, exits, unknown, historyVars, historyNotes>>

\* An error, or thirty seconds without an answer; the daemon may still be at it.
RequestFails(c) ==
  /\ pc[c] \in {"asked", "answered"}
  /\ late' = IF pc[c] = "asked" THEN late \cup {paneOf[c]} ELSE late
  /\ Fails(c)

\* The client has rejected the request.
RequestRejected(c) == pc[c] = "failing" /\ UNCHANGED late /\ Fails(c)

\* A run that the reset of the limiter has rejected.
Rejected(c) ==
  /\ pc[c] = "rejected"
  /\ Goto(c, "idle")
  /\ pending' = [pending EXCEPT ![paneOf[c]] = None]
  /\ paneOf' = [paneOf EXCEPT ![c] = None] /\ skip' = skip \ {c}
  /\ UNCHANGED <<Limiter, listed, session, tombs, aliveIds, hydrated, cold, timer, stray,
                 killing, historyVars, daemonVars, historyNotes>>

------------------------------------------------------------------------------
(* The daemon *)

LateCreate(p) ==
  /\ p \in late
  /\ late' = late \ {p}
  /\ \/ hosted' = hosted \cup {p} /\ attached' \in {attached, attached \cup {p}}
     \/ UNCHANGED <<hosted, attached>>
  /\ UNCHANGED <<dying, exits, unknown, Limiter, historyVars, runVars, managerVars, historyNotes>>

\* A session ends, by itself or because it was told to.
SessionExits(p) ==
  /\ p \in Lively
  /\ \/ p \in hosted /\ hosted' = hosted \ {p} /\ UNCHANGED dying
     \/ p \in dying /\ dying' = dying \ {p} /\ UNCHANGED hosted
  /\ exits[p] < MaxInFlight
  /\ exits' = IF p \in attached THEN [exits EXCEPT ![p] = @ + 1] ELSE exits
  /\ UNCHANGED <<late, attached, unknown, Limiter, historyVars, runVars, managerVars, historyNotes>>

\* The app writes to a session that is gone.
WriteLost(p) ==
  /\ session[p] = "alive" /\ p \notin hosted \cup dying
  /\ unknown' = unknown \cup {p}
  /\ UNCHANGED <<hosted, dying, late, attached, exits, Limiter, historyVars, runVars,
                 managerVars, historyNotes>>

------------------------------------------------------------------------------
(* Events *)

Slips(p) == slipped' = IF InProgress(p) \/ p \in late THEN slipped \cup {p} ELSE slipped
SlipsAgain(p) == slipped' = IF InProgress(p) \/ p \in late \/ p \in timer
                            THEN slipped \cup {p} ELSE slipped
SlipsLate(p) == slipped' = IF InProgress(p) \/ p \in late \/ session[p] = "alive"
                           THEN slipped \cup {p} ELSE slipped

\* Variant: a session that ends by itself is not marked.
EndedIfKilled(p) ==
  session' = [session EXCEPT ![p] = IF @ \in {"alive", "lost"} /\ p \in tombs THEN "killed" ELSE @]

Ended(p) ==
  session' = [session EXCEPT ![p] =
    IF @ \in {"alive", "lost"} THEN IF p \in tombs THEN "killed" ELSE "exited" ELSE @]

\* The session is over, and forgotten after five seconds; an earlier timer goes on.
ExitEvent(p) ==
  /\ exits[p] > 0 /\ (p \in timer => stray[p] < MaxInFlight)
  /\ exits' = [exits EXCEPT ![p] = @ - 1]
  /\ aliveIds' = aliveIds \ {p}
  /\ Ended(p)
  /\ stray' = IF p \in timer THEN [stray EXCEPT ![p] = @ + 1] ELSE stray
  /\ timer' = timer \cup {p}
  /\ CloseWriter(p)
  /\ SlipsAgain(p)
  /\ UNCHANGED <<Limiter, runVars, pending, tombs, hydrated, cold, killing, hosted, dying,
                 late, attached, unknown, wasReset>>

\* One of the timers; it deletes the entry of the pane, whichever timer that is.
CleanupTimer(p) ==
  /\ \/ p \in timer /\ UNCHANGED stray
     \/ stray[p] > 0 /\ stray' = [stray EXCEPT ![p] = IF p \in timer THEN @ ELSE @ - 1]
  /\ session' = [session EXCEPT ![p] = "none"]
  /\ timer' = timer \ {p}
  /\ UNCHANGED <<pending, tombs, aliveIds, hydrated, cold, killing, Limiter, historyVars,
                 runVars, daemonVars, historyNotes>>

\* "Session not found": the history is kept for a cold restore.
UnknownEvent(p) ==
  /\ p \in unknown
  /\ unknown' = unknown \ {p}
  /\ aliveIds' = aliveIds \ {p}
  /\ session' = [session EXCEPT ![p] = IF @ = "alive" THEN "lost" ELSE @]
  /\ UNCHANGED <<pending, tombs, hydrated, cold, timer, stray, killing, hosted, dying, late,
                 attached, exits, Limiter, historyVars, runVars, historyNotes>>

\* Output with the sequence that clears the scrollback.
ClearSequence(p) ==
  /\ p \in Lively \cap attached /\ session[p] # "none"
  /\ ClearWriter(p)
  /\ UNCHANGED <<Limiter, runVars, managerVars, daemonVars, historyNotes>>

\* The runs when the client rejects its requests.
Interrupted(place) ==
  CASE place \in {"listing", "listed"} -> "unlisted"
    [] place \in {"asked", "answered"} -> "failing"
    [] OTHER -> place
Abandoned == {paneOf[c] : c \in {x \in Creation : pc[x] = "asked"}}

\* The events disconnected and error; what was on its way is lost.
Disconnect ==
  /\ aliveIds' = {} /\ hydrated' = FALSE
  /\ attached' = {} /\ exits' = [p \in Pane |-> 0] /\ unknown' = {}
  /\ pc' = [c \in Creation |-> Interrupted(pc[c])]
  /\ listed' = [c \in Creation |-> {}]
  /\ late' = late \cup Abandoned
  /\ UNCHANGED <<Limiter, historyVars, paneOf, skip, session, pending, tombs, cold, timer,
                 stray, killing, hosted, dying, historyNotes>>

------------------------------------------------------------------------------
(* Ending sessions *)

\* The request to kill: nothing happens to a session that is still being created.
KillRequest(p) ==
  /\ hosted' = hosted \ {p}
  /\ dying' = IF p \in hosted THEN dying \cup {p} ELSE dying
  /\ UNCHANGED <<late, attached, exits, unknown>>

\* Variant: a session that counts as alive is not marked.
MarkOnlyTomb(p) == tombs' = tombs \cup {p} /\ UNCHANGED session

\* recordKilledSession, and the session counts as ended.
MarkKilled(p) ==
  /\ tombs' = tombs \cup {p}
  /\ session' = [session EXCEPT ![p] = IF @ = "none" THEN @ ELSE "killed"]

\* kill, with or without the history; killByWorkspaceId keeps the pane in
\* daemonAliveSessionIds.  The request may fail.
Kill(p) ==
  /\ p \in Lively
  /\ aliveIds' \in {aliveIds, aliveIds \ {p}}
  /\ MarkKilled(p) /\ CloseWriter(p)
  /\ \/ /\ p \notin killing /\ killing' = killing \cup {p}
        /\ Slips(p) /\ UNCHANGED daemonVars
     \/ /\ aliveIds' = aliveIds \ {p} /\ UNCHANGED killing
        /\ \/ KillRequest(p) /\ Slips(p)
           \/ UNCHANGED daemonVars /\ slipped' = slipped \cup {p}
  /\ UNCHANGED <<Limiter, runVars, pending, hydrated, cold, timer, stray, wasReset>>

\* The history is gone: the request is sent, and ends the session that is there now.
KillGoesOn(p) ==
  /\ p \in killing
  /\ killing' = killing \ {p}
  /\ RemoveFiles(p)
  /\ \/ KillRequest(p) /\ SlipsLate(p)
     \/ UNCHANGED daemonVars /\ slipped' = slipped \cup {p}
  /\ UNCHANGED <<Limiter, runVars, session, pending, tombs, aliveIds, hydrated, cold, timer,
                 stray, wasReset>>

\* reset, called by restartDaemon after it has shut the daemon down.
Reset ==
  /\ CloseAll /\ SemaphoreReset
  /\ session' = [p \in Pane |-> "none"] /\ pending' = [p \in Pane |-> None]
  /\ tombs' = {} /\ aliveIds' = {} /\ hydrated' = FALSE /\ cold' = {} /\ timer' = {}
  /\ pc' = [c \in Creation |-> IF pc[c] = "queued" THEN "rejected" ELSE Interrupted(pc[c])]
  /\ listed' = [c \in Creation |-> {}]
  /\ hosted' = {} /\ dying' = {} /\ late' = {} /\ attached' = {}
  /\ exits' = [p \in Pane |-> 0] /\ unknown' = {}
  /\ wasReset' = (wasReset \/ \E c \in Creation : pc[c] # "idle")
  /\ UNCHANGED <<paneOf, skip, stray, killing, slipped>>

------------------------------------------------------------------------------
RunNext == \E c \in Creation :
  \/ \E p \in Pane : Begin(c, p)
  \/ Start(c) \/ DaemonLists(c) \/ Hydrated(c) \/ ColdRestore(c) \/ NoColdRestore(c)
  \/ Cleared(c) \/ DaemonCreates(c) \/ Answered(c) \/ MetadataRead(c)
  \/ RequestRejected(c) \/ Rejected(c)

History(A) == A /\ UNCHANGED <<Limiter, runVars, managerVars, daemonVars, historyNotes>>

EventNext == \E p \in Pane :
  \/ Join(p) \/ LateCreate(p) \/ ExitEvent(p) \/ CleanupTimer(p) \/ UnknownEvent(p)
  \/ KillGoesOn(p) \/ History(InitDone(p)) \/ History(CloseDone(p))

\* What may not happen more than MaxTrouble times.
Disturbance ==
  \/ \E p \in Pane : SessionExits(p) \/ WriteLost(p) \/ ClearSequence(p) \/ Kill(p)
                       \/ History(InitFails(p))
  \/ \E c \in Creation : RequestFails(c)
  \/ Disconnect

Next ==
  \/ (RunNext \/ EventNext) /\ UNCHANGED trouble
  \/ trouble < MaxTrouble /\ trouble' = trouble + 1 /\ Disturbance
  \/ trouble < MaxTrouble /\ trouble' = MaxTrouble /\ Reset

Spec == Init /\ [][Next]_vars

------------------------------------------------------------------------------
(* Properties *)

Places == {"idle", "queued", "rejected", "starting", "listing", "listed", "unlisted",
           "reading", "clearing", "asked", "answered", "ending", "failing"}

\* Types of the limiter, the history, the manager and the daemon.
TypeOK ==
  /\ inUse \in Nat /\ waiting \in Seq([user : Creation, priority : 0..1])
  /\ HistoryTypeOK
  /\ pc \in [Creation -> Places] /\ paneOf \in [Creation -> Pane \cup {None}]
  /\ skip \subseteq Creation /\ listed \in [Creation -> SUBSET Pane]
  /\ session \in [Pane -> {"none", "alive", "exited", "killed", "lost"}]
  /\ pending \in [Pane -> Creation \cup {None}]
  /\ tombs \subseteq Pane /\ aliveIds \subseteq Pane /\ hydrated \in BOOLEAN
  /\ cold \subseteq Pane /\ timer \subseteq Pane /\ stray \in [Pane -> 0..MaxInFlight]
  /\ killing \subseteq Pane
  /\ hosted \subseteq Pane /\ dying \subseteq Pane /\ late \subseteq Pane
  /\ attached \subseteq Pane /\ exits \in [Pane -> 0..MaxInFlight] /\ unknown \subseteq Pane
  /\ slipped \subseteq Pane /\ wasReset \in BOOLEAN /\ trouble \in 0..MaxTrouble

Holding == {c \in Creation : pc[c] \notin {"idle", "queued", "rejected"}}

\* The limiter admits at most Max runs and lets nobody wait for a free permit; and a
\* pane has one run at a time: until a reset comes in the middle of a run, whose
\* permit and entry are then forgotten while it goes on.
RunsLimited ==
  wasReset \/ /\ inUse = Cardinality(Holding) /\ inUse <= Max
              /\ waiting # <<>> => inUse = Max
              /\ \A c, d \in Creation : paneOf[c] = paneOf[d] /\ c # d => paneOf[c] = None

\* A session counts as alive only as long as the daemon has it, or news of its end is
\* on the way, or the app has lost touch with it and told its listeners so; the
\* exception is an exit that overtook the answer of createOrAttach.
BelievedAlive ==
  \A p \in Pane : session[p] = "alive" =>
    \/ p \in hosted \cup dying \/ exits[p] > 0 \/ p \notin attached
    \/ p \in slipped

\* A pane that was killed has no session alive, here or in the daemon: unless the kill
\* came while a createOrAttach was under way, or the request to kill has failed.
KilledStaysDead ==
  \A p \in tombs :
    \/ session[p] # "alive" /\ (p \in hosted => p \in killing)
    \/ p \in slipped

\* The cleanup of a session that has ended never forgets one that is alive.
CleanupSparesLive ==
  [][\A p \in Pane : session[p] = "alive" /\ session'[p] = "none" =>
       Reset \/ p \in slipped]_vars

\* Whatever the app does not live to tell the disk does: while a session has a writer
\* its meta.json has no endedAt, and once a session has ended, exited or killed, it
\* does not stay so; except where writers of the pane have overlapped or failed.
CrashIsNoticed ==
  \A p \in Pane : Settled(p) /\ p \notin tangled =>
    /\ p \in writer => meta[p] = "open"
    /\ session[p] \in {"exited", "killed"} => meta[p] # "open"

===============================================================================
