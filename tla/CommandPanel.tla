---------------------------- MODULE CommandPanel ----------------------------
(***************************************************************************)
(* A command from the desklet to the server and back: the buttons of the   *)
(* window (src/src/client/desklet.cpp), the controller behind them         *)
(* (src/src/client/controller.cpp), the bytes between it and the server.   *)
(*                                                                         *)
(* Window and controller share one thread, a handler of the one calls the  *)
(* other: both are one record.  How a connection comes about is left to    *)
(* ServerLink, what a server may send is all that DeviceBridge and         *)
(* AutomationEngine let it send.                                           *)
(***************************************************************************)
EXTENDS Integers, Sequences, SequencesExt

CONSTANTS
    Servers,        \* servers the preferences may name
    NoServer,       \* no status is shown
    MaxOrders,      \* bound: commands the controller sends
    MaxInFlight     \* bound: messages on their way in one direction

ASSUME PanelAssumption ==
    MaxOrders \in Nat /\ MaxInFlight \in Nat /\ Servers # {} /\ NoServer \notin Servers

Ids == 1..MaxOrders

VARIABLES
    client,     \* the fields of Controller and Desklet
    toServer, toClient,
    server      \* what the server knows of this client

panelVars == <<client, toServer, toClient, server>>

\* The lines of a connection.  A read may end inside a line: it takes the head
\* and leaves the tail.
Message == [kind : {"status"}, host : Servers, after : 0..MaxOrders]
           \cup [kind : {"control"}, id : Ids, ok : BOOLEAN]
           \cup [kind : {"state"}, state : {"connecting", "error"}]
           \cup [kind : {"automation_state"}, override : BOOLEAN]
Garbage == [kind |-> "garbage"]
HeadOf(m) == [kind |-> "head", of |-> m]
TailOf(m) == [kind |-> "tail", of |-> m]

-----------------------------------------------------------------------------
(* Operators on the client c: one per function of the program.             *)

\* connectionFailed, with setConnectionError behind its signal.
PanelConnectionFailed(c) ==
    IF c.failureReported THEN [c EXCEPT !.hasStatus = FALSE]
    ELSE [c EXCEPT !.hasStatus = FALSE, !.failureReported = TRUE, !.connected = FALSE,
                   !.resumeRequested = FALSE, !.panelAwaiting = @ /\ c.busy]

\* The command in hand is over for the user.
Over(c) == [c.ended EXCEPT ![c.nextId - 1] = @ + 1]

\* failCommand, with commandFailed behind it.
FailCommand(c) ==
    [c EXCEPT !.pendingId = 0, !.awaiting = FALSE, !.writeWatchdog = FALSE,
              !.confirmation = FALSE, !.busy = FALSE, !.panelAwaiting = FALSE,
              !.ended = IF c.busy THEN Over(c) ELSE @]

\* The signal disconnected.
\* MUTANT: the command in hand is forgotten.
PanelDisconnectedSilently(c) ==
    LET d == [c EXCEPT !.linked = FALSE, !.hasStatus = FALSE, !.busy = FALSE, !.pendingId = 0,
                       !.awaiting = FALSE, !.writeWatchdog = FALSE, !.confirmation = FALSE]
    IN  IF ~c.linked THEN c ELSE IF d.active THEN PanelConnectionFailed(d) ELSE d

PanelDisconnected(c) ==
    LET d == [c EXCEPT !.linked = FALSE, !.hasStatus = FALSE]
        e == IF d.busy THEN FailCommand(d) ELSE d
    IN  IF ~c.linked THEN c ELSE IF e.active THEN PanelConnectionFailed(e) ELSE e

\* statusReceived: applyStatus.
ApplyStatus(c, m) ==
    [c EXCEPT !.connected = TRUE, !.shown = m.host, !.panelAwaiting = FALSE,
              !.judgedBy = IF c.panelAwaiting THEN m.after ELSE @,
              !.judged   = IF c.panelAwaiting THEN c.nextId - 1 ELSE @]

\* handleEnvelope, by kind.
\* MUTANT: a status confirms also what was not answered yet.
StatusAtOnce(c, m) ==
    LET d == [c EXCEPT !.hasStatus = TRUE, !.failureReported = FALSE]
    IN  IF d.busy THEN ApplyStatus([d EXCEPT !.awaiting = FALSE, !.confirmation = FALSE,
                                             !.writeWatchdog = FALSE, !.pendingId = 0,
                                             !.busy = FALSE, !.ended = Over(d)], m)
        ELSE ApplyStatus(d, m)

StatusMessage(c, m) ==
    LET d == [c EXCEPT !.hasStatus = TRUE, !.failureReported = FALSE]
    IN  IF d.busy /\ ~d.awaiting THEN d
        ELSE IF d.awaiting
             THEN ApplyStatus([d EXCEPT !.awaiting = FALSE, !.confirmation = FALSE,
                                        !.busy = FALSE, !.ended = Over(d)], m)
             ELSE ApplyStatus(d, m)

\* MUTANT: no time-out for the status.
ControlUnwatched(c, m) ==
    LET d == [c EXCEPT !.writeWatchdog = FALSE, !.pendingId = 0]
    IN  IF ~c.busy \/ m.id # c.pendingId THEN c
        ELSE IF ~m.ok THEN FailCommand(d)
        ELSE [d EXCEPT !.awaiting = TRUE]

ControlMessage(c, m) ==
    LET d == [c EXCEPT !.writeWatchdog = FALSE, !.pendingId = 0]
    IN  IF ~c.busy \/ m.id # c.pendingId THEN c
        ELSE IF ~m.ok THEN FailCommand(d)
        ELSE [d EXCEPT !.awaiting = TRUE, !.confirmation = TRUE]

StateMessage(c, m) ==
    LET d == [c EXCEPT !.hasStatus = FALSE]
    IN  IF m.state = "connecting" THEN d
        ELSE PanelConnectionFailed(IF d.busy THEN FailCommand(d) ELSE d)

AutomationMessage(c, m) ==
    [c EXCEPT !.override = m.override, !.resumeRequested = @ /\ m.override]

\* Not a JSON object: the connection is given up.
GarbageMessage(c) == PanelConnectionFailed(PanelDisconnected(c))

HandleEnvelope(c, m) ==
    CASE m.kind = "status"           -> StatusMessage(c, m)
      [] m.kind = "control"          -> ControlMessage(c, m)
      [] m.kind = "state"            -> StateMessage(c, m)
      [] m.kind = "automation_state" -> AutomationMessage(c, m)
      [] m.kind = "garbage"          -> GarbageMessage(c)

\* stream_ and what was read behind it.
Joined(stream, chunk) ==
    IF stream = <<>> \/ Last(stream).kind # "head" THEN stream \o chunk
    ELSE LET line == IF Head(chunk).kind = "tail" THEN Last(stream).of
                     ELSE IF Head(chunk).kind = "head" THEN HeadOf(Garbage) ELSE Garbage
         IN  Front(stream) \o <<line>> \o Tail(chunk)

\* readServer: the lines one after the other, until one ends the connection.
ReadServer(c, chunk) ==
    LET lines == Joined(c.stream, chunk)
        f[i \in 0..Len(lines)] ==
            IF i = 0 THEN [c EXCEPT !.stream = lines]
            ELSE IF lines[i].kind = "head" \/ ~f[i - 1].linked THEN f[i - 1]
            ELSE HandleEnvelope([f[i - 1] EXCEPT !.stream = Tail(@)], lines[i])
    IN  f[Len(lines)]

\* stop.
PanelStop(c) ==
    [PanelDisconnected([c EXCEPT !.active = FALSE, !.writeWatchdog = FALSE, !.confirmation = FALSE,
                            !.awaiting = FALSE, !.pendingId = 0, !.hasStatus = FALSE,
                            !.stream = <<>>])
     EXCEPT !.busy = FALSE]

-----------------------------------------------------------------------------
(* The client.                                                             *)

\* What was on its way on a connection is gone with it.
Settle(c) ==
    /\ client' = c
    /\ IF c.linked THEN UNCHANGED server ELSE server' = [server EXCEPT !.open = {}]

Read(n, half) ==
    LET chunk == SubSeq(toClient, 1, n) \o (IF half THEN <<HeadOf(toClient[n + 1])>> ELSE <<>>)
        rest  == SubSeq(toClient, n + 1, Len(toClient))
        c     == ReadServer(client, chunk)
    IN  /\ client.linked /\ chunk # <<>>
        /\ half => toClient[n + 1].kind # "tail"
        /\ Settle(c)
        /\ toClient' = IF ~c.linked THEN <<>>
                       ELSE IF half THEN <<TailOf(Head(rest))>> \o Tail(rest) ELSE rest
        /\ toServer' = IF c.linked THEN toServer ELSE <<>>

\* The connection is lost, by either side or by a heartbeat without answer.
Lose ==
    /\ client.linked
    /\ Settle(PanelDisconnected(client))
    /\ toClient' = <<>> /\ toServer' = <<>>

\* launchWrite, from openControl(0) and sendValues.
LaunchWrite(c) ==
    IF ~c.active \/ ~c.linked \/ ~c.hasStatus THEN FailCommand(c)
    ELSE [c EXCEPT !.pendingId = c.nextId, !.nextId = @ + 1, !.awaiting = FALSE, !.busy = TRUE,
                   !.writeWatchdog = TRUE]

\* The power button is live without a connection too, the others are not; a
\* blinking one is no command.
ClickCommand ==
    LET c == LaunchWrite([client EXCEPT !.panelAwaiting = TRUE])
    IN  /\ client.active /\ ~client.panelAwaiting /\ ~client.busy
        /\ ~(client.connected /\ client.override)
        /\ client.nextId \in Ids /\ Len(toServer) < MaxInFlight
        /\ client' = c
        /\ toServer' = IF c.busy THEN Append(toServer, [kind |-> "control", id |-> c.pendingId])
                       ELSE toServer
        /\ UNCHANGED <<toClient, server>>

\* The blinking power button: resumeAutomation.
ClickResume ==
    /\ client.active /\ client.connected /\ client.override
    /\ ~client.panelAwaiting /\ ~client.busy /\ ~client.resumeRequested
    /\ Len(toServer) < MaxInFlight
    /\ client' = [client EXCEPT !.resumeRequested = TRUE]
    /\ toServer' = IF client.linked THEN Append(toServer, [kind |-> "automation_resume"]) ELSE toServer
    /\ UNCHANGED <<toClient, server>>

WriteTimeout ==
    client.writeWatchdog /\ client' = FailCommand(client) /\ UNCHANGED <<toServer, toClient, server>>
ConfirmationTimeout ==
    client.confirmation /\ client' = FailCommand(client) /\ UNCHANGED <<toServer, toClient, server>>

\* showSettings.
StopForSettings ==
    /\ client.active /\ ~client.busy /\ ~client.panelAwaiting
    /\ Settle(PanelStop(client))
    /\ toClient' = <<>> /\ toServer' = <<>>

StartAfterSettings(host) ==
    /\ ~client.active
    /\ client' = IF host = client.host THEN [client EXCEPT !.active = TRUE]
                 ELSE [client EXCEPT !.active = TRUE, !.host = host, !.shown = NoServer,
                                     !.connected = FALSE]
    /\ UNCHANGED <<toServer, toClient, server>>

-----------------------------------------------------------------------------
(* The server, and another client of it.                                   *)

Status == [kind |-> "status", host |-> client.host, after |-> server.answered]
Automation(override) == [kind |-> "automation_state", override |-> override]

\* acceptClients.
Connect(connected) ==
    /\ client.active /\ ~client.linked
    /\ client' = [client EXCEPT !.linked = TRUE, !.failureReported = FALSE]
    /\ toServer' = <<>>
    /\ toClient' = (IF connected THEN <<Status>> ELSE <<[kind |-> "state", state |-> "connecting"]>>)
                   \o <<Automation(server.override)>>
    /\ UNCHANGED server

Send(m) == client.linked /\ Len(toClient) < MaxInFlight /\ toClient' = Append(toClient, m)

Serve ==
    /\ toServer # <<>> /\ toServer' = Tail(toServer)
    /\ LET m == Head(toServer)
       IN  IF m.kind = "control"
           THEN /\ server' = [server EXCEPT !.open = @ \cup {m.id}]
                /\ UNCHANGED toClient
           ELSE /\ server' = [server EXCEPT !.override = FALSE]
                /\ Send(Automation(FALSE))
    /\ UNCHANGED client

\* The worker serves the orders in their order (DeviceBridge).
Answer(id, ok) ==
    /\ id \in server.open /\ \A other \in server.open : id <= other
    /\ Send([kind |-> "control", id |-> id, ok |-> ok])
    /\ server' = [server EXCEPT !.open = @ \ {id}, !.answered = IF ok THEN id ELSE @]
    /\ UNCHANGED <<client, toServer>>

SendStatus == Send(Status) /\ UNCHANGED <<client, toServer, server>>

SendState(state) ==
    Send([kind |-> "state", state |-> state]) /\ UNCHANGED <<client, toServer, server>>

\* A command of any client suspends the automation.
Suspend ==
    /\ ~server.override
    /\ server' = [server EXCEPT !.override = TRUE]
    /\ IF client.linked THEN Send(Automation(TRUE)) ELSE UNCHANGED toClient
    /\ UNCHANGED <<client, toServer>>

PanelInit ==
    /\ client = [active |-> TRUE, linked |-> FALSE, hasStatus |-> FALSE, busy |-> FALSE,
                 awaiting |-> FALSE, pendingId |-> 0, nextId |-> 1, writeWatchdog |-> FALSE,
                 confirmation |-> FALSE, failureReported |-> FALSE, stream |-> <<>>,
                 host |-> CHOOSE h \in Servers : TRUE, connected |-> FALSE, shown |-> NoServer,
                 panelAwaiting |-> FALSE, resumeRequested |-> FALSE, override |-> FALSE,
                 ended |-> [i \in Ids |-> 0], judged |-> 0, judgedBy |-> 0]
    /\ toServer = <<>> /\ toClient = <<>>
    /\ server = [override |-> FALSE, open |-> {}, answered |-> 0]

Reading == \E n \in 0..Len(toClient), half \in BOOLEAN :
              n + (IF half THEN 1 ELSE 0) <= Len(toClient) /\ Read(n, half)

PanelNext ==
    \/ Reading \/ Lose \/ ClickCommand \/ ClickResume \/ WriteTimeout \/ ConfirmationTimeout
    \/ StopForSettings \/ Serve \/ SendStatus \/ Suspend
    \/ \E h \in Servers : StartAfterSettings(h)
    \/ \E b \in BOOLEAN : Connect(b)
    \/ \E id \in Ids, b \in BOOLEAN : Answer(id, b)
    \/ \E s \in {"connecting", "error"} : SendState(s)

\* Qt's timers expire.
PanelSpec ==
    /\ PanelInit /\ [][PanelNext]_panelVars
    /\ WF_panelVars(WriteTimeout) /\ WF_panelVars(ConfirmationTimeout)

-----------------------------------------------------------------------------
(* The window waits only while the controller works, and what it works on  *)
(* has a time-out: neither a lost connection, a late answer nor a settings *)
(* dialog leaves the buttons waiting for nothing (desklet.cpp:273-279).    *)
WaitsForWork ==
    /\ client.panelAwaiting <=> client.busy
    /\ client.busy <=> client.writeWatchdog \/ client.confirmation

(* Every command that was sent ends once for the user: with a failure or   *)
(* with the status that follows it, never with both.                       *)
EndsOnce ==
    \A i \in Ids : client.ended[i] = IF i < client.nextId /\ ~(client.busy /\ i = client.nextId - 1)
                                     THEN 1 ELSE 0

(* No command and no button is left to wait for something that is over.    *)
CommandsEnd == WaitsForWork /\ EndsOnce

(* A command is judged by a status that the server sent after its answer   *)
(* to this very command (controller.cpp:394; docs/IPC_PROTOCOL.md, "warten *)
(* weiterhin auf die naechste Statusmeldung").                             *)
JudgedAfterAnswer == client.judgedBy >= client.judged

(* What the window shows is of the server it is set to, no reply of an old *)
(* one comes after the dialog ("no old-host reply can arrive",             *)
(* desklet.cpp:596).                                                       *)
ShowsItsServer == client.shown \in {NoServer, client.host}

(* What the user sees is of the right server and of the right command.     *)
ShownIsTrue == JudgedAfterAnswer /\ ShowsItsServer

(* The buttons do not wait for ever.                                       *)
PanelFreed == client.panelAwaiting ~> ~client.panelAwaiting

(* A click on the blinking power button lifts the suspension: as long as   *)
(* the window takes it for asked, the request or its answer is on the way, *)
(* or the connection is not there (docs/LUA_AUTOMATION.md, "Ein Klick auf  *)
(* die blinkende Power-Taste hebt ausschliesslich diese Sperre auf").      *)
(* The code does not keep this; see README.md.                             *)
ResumeIsUnderWay ==
    client.resumeRequested /\ client.linked
        => \/ \E i \in 1..Len(toServer) : toServer[i].kind = "automation_resume"
           \/ ~server.override
           \/ \E i \in 1..Len(toClient) : toClient[i] \in {Automation(FALSE), TailOf(Automation(FALSE))}

(* No message is refused as invalid: the server sends whole JSON lines     *)
(* only (docs/IPC_PROTOCOL.md, "genau ein Objekt pro Zeile";               *)
(* controller.cpp:286).                                                    *)
(* The code does not keep this; see README.md.                             *)
NothingIsRefused == [][Reading => client'.linked]_panelVars
=============================================================================
