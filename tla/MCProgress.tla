----------------------------- MODULE MCProgress -----------------------------
(***************************************************************************)
(* What must go on without anybody doing anything: the events on their way *)
(* to the main thread, the orders and the refresh of the server, the edit  *)
(* lock, the commands and the connection of the desklet.  They meet in     *)
(* other modules or not at all and are looked at one by one here: a        *)
(* behaviour is one of one part, chosen at the beginning, the others stay  *)
(* as they are initially.                                                  *)
(***************************************************************************)
EXTENDS WakePipe, CommandPanel, ServerLink, FiniteSets

CONSTANT Nobody     \* no connection

VARIABLES
    part,                                                           \* the part that runs
    \* the bridge; the names it shares with WakePipe begin with "bridge"
    bridgeMain, bridgeWorker, bridgeEvents, bridgeBatch, hand, failing, state, refreshScheduled,
    awaiting, manualOverride, issued, commands, reconnectRequested, deviceReady, stopping,
    statusRequired, current, currentOk, answer, attempted, lastContact, awaitingOld,
    \* the edit lock
    editor, revision, open, inbox, outbox, session, linked, lastId, pending, held, dialog, base,
    cut

bridgeVars ==
    <<bridgeMain, bridgeWorker, bridgeEvents, bridgeBatch, hand, failing, state,
      refreshScheduled, awaiting, manualOverride, issued, commands, reconnectRequested,
      deviceReady, stopping, statusRequired, current, currentOk, answer, attempted, lastContact,
      awaitingOld>>
lockVars  == <<editor, revision, open, inbox, outbox, session, linked, lastId, pending, held,
               dialog, base, cut>>

-----------------------------------------------------------------------------
\* A client's and a script's order.
Bridge == INSTANCE DeviceBridge WITH
    Origins <- {"plain", "script"}, MaxCommands <- 1, MaxEvents <- 1,
    mainPc <- bridgeMain, workerPc <- bridgeWorker, events <- bridgeEvents, batch <- bridgeBatch

\* Two clients, one connection and one request each.
Lock == INSTANCE EditLock WITH
    Clients <- {"a", "b"}, MaxSessions <- 1, MaxRequests <- 1, MaxRevision <- 2

-----------------------------------------------------------------------------
Parts == {"wake", "bridge", "lock", "panel", "link"}

ProgressInit ==
    /\ part \in Parts
    /\ Init /\ Bridge!Init /\ Lock!Init /\ PanelInit /\ LinkInit
    \* One state where what is restored and the server do not matter.
    /\ part # "bridge" => manualOverride
    /\ part # "link"   => up

\* Every part but the one chosen is left alone.
Only(chosen) ==
    /\ part = chosen /\ UNCHANGED part
    /\ IF chosen = "wake"   THEN TRUE ELSE UNCHANGED vars
    /\ IF chosen = "bridge" THEN TRUE ELSE UNCHANGED bridgeVars
    /\ IF chosen = "lock"   THEN TRUE ELSE UNCHANGED lockVars
    /\ IF chosen = "panel"  THEN TRUE ELSE UNCHANGED panelVars
    /\ IF chosen = "link"   THEN TRUE ELSE UNCHANGED linkVars

ProgressNext ==
    \/ Only("wake")   /\ Next
    \/ Only("bridge") /\ Bridge!Next
    \/ Only("lock")   /\ Lock!Next
    \/ Only("panel")  /\ PanelNext
    \/ Only("link")   /\ LinkNext

progressVars == <<part, vars, bridgeVars, lockVars, panelVars, linkVars>>

\* The fairness of each part, as its module states it, for the part that runs.
WakeFairness ==
    WF_vars(part = "wake" /\ Main) /\ WF_vars(part = "wake" /\ WorkerWrites)
BridgeFairness ==
    /\ WF_bridgeVars(part = "bridge" /\ Bridge!Worker)
    /\ WF_bridgeVars(part = "bridge" /\ Bridge!MainStep)
LockFairness ==
    /\ \A c \in {"a", "b"} :
           /\ WF_lockVars(part = "lock" /\ Lock!Controller(c))
           /\ WF_lockVars(part = "lock" /\ Lock!Dropped(c) /\ Lock!Disconnect(c))
    /\ \A k \in {"a", "b"} \X {1} :
           /\ WF_lockVars(part = "lock" /\ Lock!Server(k))
           /\ WF_lockVars(part = "lock" /\ Lock!Left(k) /\ Lock!CloseClient(k))
PanelFairness ==
    /\ WF_panelVars(part = "panel" /\ WriteTimeout)
    /\ WF_panelVars(part = "panel" /\ ConfirmationTimeout)
LinkFairness ==
    /\ WF_linkVars(part = "link" /\ ReconnectTimeout)
    /\ WF_linkVars(part = "link" /\ ConnectTimeout)
    /\ WF_linkVars(part = "link" /\ Attempt)
    /\ WF_linkVars(part = "link" /\ HeartbeatTimeout)
    /\ WF_linkVars(part = "link" /\ Pong)
    /\ WF_linkVars(part = "link" /\ PongTimeout)
    /\ WF_linkVars(part = "link" /\ \E n \in 0..MaxAddresses : Lookup(n))

ProgressSpec ==
    /\ ProgressInit /\ [][ProgressNext]_progressVars
    /\ WakeFairness /\ BridgeFairness /\ LockFairness /\ PanelFairness /\ LinkFairness

-----------------------------------------------------------------------------
(* The properties of the other parts, where they are stated.               *)

\* A scheduled refresh takes place (handle("refresh"), deviceLoop).
RefreshServed == Bridge!RefreshServed

\* Every accepted order is answered (deviceLoop, processEvents).
OrdersAnswered == Bridge!OrdersAnswered

\* A shutdown ends with the worker joined (run, ~AirCtrlServer).
ShutdownCompletes == Bridge!ShutdownCompletes

\* A connection that its client has left gives up the lock (closeClient).
DisconnectReleases == Lock!DisconnectReleases

\* A lock that the controller has given back is free (automation_edit_cancel).
CancelReleases == Lock!CancelReleases
=============================================================================
