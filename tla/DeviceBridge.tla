--------------------------- MODULE DeviceBridge ---------------------------
(***************************************************************************)
(* The two threads of airctrl-server and the state they share              *)
(* (src/src/server/server.cpp, class AirCtrlServer).                       *)
(*                                                                         *)
(* The main thread serves the TCP clients and the Lua automation: it       *)
(* accepts control orders into the queue commands_, schedules a renewal    *)
(* of the device I/O ("refresh", F5) and digests the events the worker     *)
(* posts.  The worker thread (deviceLoop) owns the only UDP session with   *)
(* the air purifier; it alternates between observing the status and        *)
(* sending one queued order.                                               *)
(*                                                                         *)
(* A step is what one thread does between two accesses to shared state:    *)
(* one critical section of commandMutex_ or of eventMutex_, or one access  *)
(* to the atomics deviceReady_ and stopping_.  The content of orders,      *)
(* statuses and scripts is abstracted: an order is an id with an origin,   *)
(* and whether a status shows what an order asked for is a free choice.    *)
(***************************************************************************)
EXTENDS Naturals, Sequences

CONSTANTS
    Origins,        \* the kinds of orders that occur, see below
    MaxCommands,    \* bound: orders accepted in a behaviour
    MaxEvents       \* bound: the worker starts no session and reads no status
                    \* while that many events wait for the main thread

ASSUME BoundsAssumption == MaxCommands \in Nat /\ MaxEvents \in Nat \ {0}

Ids == 1..MaxCommands

(***************************************************************************)
(* Where an order comes from: "manual" is a client's order that suspends   *)
(* the automation, "plain" one that does not (display, child lock, or any  *)
(* order while the automation is switched off), "script" an order of a Lua *)
(* event or schedule, "timer" one of on_long_timer.                        *)
(***************************************************************************)
ASSUME OriginsAssumption == Origins \subseteq {"manual", "plain", "script", "timer"}

ClientOrigins == Origins \cap {"manual", "plain"}
LuaOrigins    == Origins \cap {"script", "timer"}
Command       == [id : Ids, origin : Origins]
NoCommand     == [id |-> 0, origin |-> "none"]
Automated(c)  == c.origin \in LuaOrigins

\* A ServerEvent: "empty" is a status message without content.
Event == [kind : {"start", "error", "status", "empty"}, cmd : {NoCommand}, ok : {FALSE}]
         \cup [kind : {"control"}, cmd : Command, ok : BOOLEAN]

Signal(kind)    == [kind |-> kind, cmd |-> NoCommand, ok |-> FALSE]
Control(c, ok)  == [kind |-> "control", cmd |-> c, ok |-> ok]

VARIABLES
    mainPc,             \* where the main thread is
    hand,               \* origin of an order past its check of deviceReady_, not yet queued
    failing,            \* handle(refresh): the local deque "pending"
    batch,              \* processEvents: the local deque "pending"
    state,              \* state_, told to every client
    refreshScheduled,   \* refreshScheduled_
    awaiting,           \* pendingAutomationConfirmation_
    manualOverride,     \* AutomationEngine::manualOverride_
    issued,             \* number of orders queued so far, the id of the last one
    commands,           \* commands_               (commandMutex_)
    reconnectRequested, \* reconnectRequested_     (commandMutex_)
    events,             \* events_                 (eventMutex_)
    deviceReady,        \* deviceReady_            (atomic)
    stopping,           \* stopping_               (atomic)
    workerPc,           \* where the worker is in deviceLoop
    statusRequired,     \* statusRequiredAfterControl, local to a session
    current,            \* the order in the worker's hands
    currentOk,          \* the outcome it is going to report
    answer,             \* history: what became of each order
    attempted,          \* history: ids sent to the device
    lastContact,        \* history: the last exchange with the device
    awaitingOld         \* history: awaiting belongs to an earlier session

\* Grouped by who changes them and when.
orderVars   == <<hand, issued, manualOverride>>
refreshVars == <<refreshScheduled, failing>>
eventVars   == <<batch, state, awaiting, awaitingOld, answer>>
sessionVars == <<statusRequired, current, currentOk, attempted, lastContact>>
sharedVars  == <<commands, reconnectRequested, events, deviceReady, stopping>>
mainVars    == <<mainPc, orderVars, refreshVars, eventVars>>
workerVars  == <<workerPc, sessionVars>>
vars        == <<mainVars, workerVars, sharedVars>>

-----------------------------------------------------------------------------

Init ==
    /\ mainPc = "loop" /\ hand = "none" /\ failing = <<>> /\ batch = <<>>
    /\ state = "starting" /\ refreshScheduled = FALSE
    /\ awaiting = NoCommand /\ awaitingOld = FALSE
    /\ manualOverride \in BOOLEAN       \* restored from automation-state.json
    /\ issued = 0
    /\ commands = <<>> /\ reconnectRequested = FALSE /\ events = <<>>
    /\ deviceReady = FALSE /\ stopping = FALSE
    /\ workerPc = "top" /\ statusRequired = FALSE
    /\ current = NoCommand /\ currentOk = FALSE
    /\ answer = [i \in Ids |-> "none"] /\ attempted = {} /\ lastContact = "none"

-----------------------------------------------------------------------------
(* The main thread: client requests and Lua actions *)

\* Between two handlers: nothing is held.
Free == hand = "none" /\ mainPc = "loop"

(***************************************************************************)
(* handle("control"): refused on the spot while the device is not ready.   *)
(* Otherwise a manual order suspends the automation, and the handler goes  *)
(* on to its critical section, PushControl.                                *)
(***************************************************************************)
HandleControl(origin) ==
    /\ Free /\ issued < MaxCommands
    /\ deviceReady
    /\ hand' = origin
    /\ manualOverride' = (manualOverride \/ origin = "manual")
    /\ UNCHANGED <<mainPc, issued, refreshVars, eventVars, workerVars, sharedVars>>

\* Mutant: ids that count from zero.
EnqueueFromZero(origin) ==
    /\ issued' = issued + 1
    /\ commands' = Append(commands, [id |-> issued, origin |-> origin])

\* Mutant: push_front instead of push_back.
EnqueueInFront(origin) ==
    /\ issued' = issued + 1
    /\ commands' = <<[id |-> issued + 1, origin |-> origin]>> \o commands

Enqueue(origin) ==
    /\ issued' = issued + 1
    /\ commands' = Append(commands, [id |-> issued + 1, origin |-> origin])

PushControl ==
    /\ hand \in ClientOrigins
    /\ hand' = "none"
    /\ Enqueue(hand)
    /\ UNCHANGED <<mainPc, manualOverride, refreshVars, eventVars, workerVars,
                   reconnectRequested, events, deviceReady, stopping>>

\* Mutant: the suspension by a manual order is not asked for.
LuaActionWhileSuspended(origin) ==
    /\ hand = "none" /\ issued < MaxCommands
    /\ \/ origin = "script" /\ mainPc \in {"loop", "status"}
       \/ origin = "timer" /\ mainPc = "loop"
    /\ deviceReady
    /\ hand' = origin
    /\ UNCHANGED <<mainPc, issued, manualOverride, refreshVars, eventVars, workerVars,
                   sharedVars>>

(***************************************************************************)
(* handleAutomationAction, up to its check of deviceReady_.  A script acts *)
(* on a status being processed or on the loop's time tick, never while     *)
(* the automation is suspended; on_long_timer answers a client's request   *)
(* and is not suspended.  The exits that queue nothing change no state     *)
(* here.                                                                   *)
(***************************************************************************)
LuaAction(origin) ==
    /\ hand = "none" /\ issued < MaxCommands
    /\ \/ origin = "script" /\ mainPc \in {"loop", "status"} /\ ~manualOverride
       \/ origin = "timer" /\ mainPc = "loop"
    /\ deviceReady
    /\ hand' = origin
    /\ UNCHANGED <<mainPc, issued, manualOverride, refreshVars, eventVars, workerVars,
                   sharedVars>>

\* One Lua order at a time: one that waits for its confirmation or in the queue
\* makes the server refuse another.
AutomationBusy ==
    \/ Automated(awaiting)
    \/ \E i \in DOMAIN commands : Automated(commands[i])

PushAutomated ==
    /\ hand \in LuaOrigins
    /\ hand' = "none"
    /\ IF AutomationBusy THEN UNCHANGED <<issued, commands>> ELSE Enqueue(hand)
    /\ UNCHANGED <<mainPc, manualOverride, refreshVars, eventVars, workerVars,
                   reconnectRequested, events, deviceReady, stopping>>

\* handle("automation_resume"); the re-evaluation it triggers is LuaAction.
HandleResume ==
    /\ Free /\ manualOverride
    /\ manualOverride' = FALSE
    /\ UNCHANGED <<mainPc, hand, issued, refreshVars, eventVars, workerVars, sharedVars>>

(***************************************************************************)
(* handle("refresh") in three kinds of steps: the atomic store, the        *)
(* critical section, and the posting of a failure for every order it took. *)
(***************************************************************************)
HandleRefresh ==
    /\ Free /\ ~refreshScheduled
    /\ refreshScheduled' = TRUE
    /\ deviceReady' = FALSE
    /\ mainPc' = "refresh"
    /\ UNCHANGED <<orderVars, failing, eventVars, workerVars, commands,
                   reconnectRequested, events, stopping>>

\* Mutant: clear() of the queue in place of the swap.
RefreshClearing ==
    /\ mainPc = "refresh"
    /\ reconnectRequested' = TRUE
    /\ commands' = <<>>
    /\ mainPc' = "failing"
    /\ UNCHANGED <<orderVars, refreshVars, eventVars, workerVars, events, deviceReady, stopping>>

\* Mutant: the queue is copied, not taken.
RefreshCopying ==
    /\ mainPc = "refresh"
    /\ reconnectRequested' = TRUE
    /\ failing' = commands
    /\ mainPc' = "failing"
    /\ UNCHANGED <<orderVars, refreshScheduled, eventVars, workerVars, commands, events,
                   deviceReady, stopping>>

RefreshSwap ==
    /\ mainPc = "refresh"
    /\ reconnectRequested' = TRUE
    /\ failing' = commands
    /\ commands' = <<>>
    /\ mainPc' = "failing"
    /\ UNCHANGED <<orderVars, refreshScheduled, eventVars, workerVars, events,
                   deviceReady, stopping>>

RefreshFail ==
    /\ mainPc = "failing"
    /\ IF failing = <<>>
       THEN mainPc' = "loop" /\ UNCHANGED <<failing, events>>
       ELSE /\ events' = Append(events, Control(Head(failing), FALSE))
            /\ failing' = Tail(failing)
            /\ UNCHANGED mainPc
    /\ UNCHANGED <<orderVars, refreshScheduled, eventVars, workerVars, commands,
                   reconnectRequested, deviceReady, stopping>>

-----------------------------------------------------------------------------
(* The main thread: processEvents *)

\* The swap of events_.
TakeEvents ==
    /\ Free /\ events # <<>>
    /\ batch' = events
    /\ events' = <<>>
    /\ mainPc' = "events"
    /\ UNCHANGED <<orderVars, refreshVars, state, awaiting, awaitingOld, answer,
                   workerVars, commands, reconnectRequested, deviceReady, stopping>>

\* The next event of the batch is of this kind and gets processed.
Processing(kind) ==
    /\ mainPc \in {"events", "status"} /\ hand = "none"
    /\ batch # <<>> /\ Head(batch).kind = kind
    /\ batch' = Tail(batch)
    /\ mainPc' = IF kind = "status" THEN "status" ELSE "events"
    /\ UNCHANGED <<orderVars, failing, workerVars, sharedVars>>

Settle(c, outcome) == answer' = [answer EXCEPT ![c.id] = outcome]

\* The automated order that was waiting for a status, if any, gets its outcome.
ResolveAwaiting(outcome) ==
    /\ IF Automated(awaiting) THEN Settle(awaiting, outcome) ELSE UNCHANGED answer
    /\ awaiting' = NoCommand
    /\ awaitingOld' = FALSE

ProcessStart ==
    /\ Processing("start")
    /\ refreshScheduled' = FALSE
    /\ state' = "connecting"
    /\ awaitingOld' = Automated(awaiting)
    /\ UNCHANGED <<awaiting, answer>>

\* Mutant: the state is left to the next start event.
ProcessErrorKeepingState ==
    /\ Processing("error")
    /\ ResolveAwaiting("failed")
    /\ UNCHANGED <<state, refreshScheduled>>

ProcessError ==
    /\ Processing("error")
    /\ state' = "error"
    /\ ResolveAwaiting("failed")
    /\ UNCHANGED refreshScheduled

\* confirmAutomationAction compares the status with the order: either may result.
ProcessStatus ==
    /\ Processing("status")
    /\ state' = "connected"
    /\ \E outcome \in {"ok", "failed"} : ResolveAwaiting(outcome)
    /\ UNCHANGED refreshScheduled

ProcessEmpty ==
    /\ Processing("empty")
    /\ UNCHANGED <<state, refreshScheduled, awaiting, awaitingOld, answer>>

\* A client gets its reply; a Lua order that was accepted starts to wait, in the
\* place of one that may still be waiting: that one will never have an outcome.
ProcessControl ==
    LET event == Head(batch) IN
    /\ Processing("control")
    /\ IF Automated(event.cmd) /\ event.ok
       THEN /\ IF Automated(awaiting) THEN Settle(awaiting, "dropped") ELSE UNCHANGED answer
            /\ awaiting' = event.cmd /\ awaitingOld' = FALSE
       ELSE /\ Settle(event.cmd, IF event.ok THEN "ok" ELSE "failed")
            /\ UNCHANGED <<awaiting, awaitingOld>>
    /\ UNCHANGED <<state, refreshScheduled>>

EventsDone ==
    /\ mainPc \in {"events", "status"} /\ hand = "none" /\ batch = <<>>
    /\ mainPc' = "loop"
    /\ UNCHANGED <<orderVars, refreshVars, eventVars, workerVars, sharedVars>>

-----------------------------------------------------------------------------
(* The main thread: shutdown *)

Shutdown ==
    /\ Free
    /\ stopping' = TRUE
    /\ mainPc' = "stop"
    /\ UNCHANGED <<orderVars, refreshVars, eventVars, workerVars, commands,
                   reconnectRequested, events, deviceReady>>

ShutdownNotify ==
    /\ mainPc = "stop"
    /\ reconnectRequested' = TRUE
    /\ mainPc' = "join"
    /\ UNCHANGED <<orderVars, refreshVars, eventVars, workerVars, commands, events,
                   deviceReady, stopping>>

Join ==
    /\ mainPc = "join" /\ workerPc = "exit"
    /\ mainPc' = "done"
    /\ UNCHANGED <<orderVars, refreshVars, eventVars, workerVars, sharedVars>>

-----------------------------------------------------------------------------
(* The worker thread: deviceLoop *)

\* The worker goes on; what is the main thread's stays as it is.
From(pc) == workerPc = pc /\ UNCHANGED <<mainVars, stopping>>
Goto(pc) == workerPc' = pc

\* interrupted(): what ends an observation early.
Interrupted ==
    stopping \/ reconnectRequested \/ (~statusRequired /\ commands # <<>>)

\* Steps that only read shared state.
Silent == UNCHANGED <<sessionVars, commands, reconnectRequested, events, deviceReady>>

\* postEvent(): its critical section.
Post(event) ==
    /\ events' = Append(events, event)
    /\ UNCHANGED <<statusRequired, attempted, lastContact, commands, reconnectRequested,
                   deviceReady>>

\* Mutant: front() without pop_front().
PeekHead ==
    /\ current' = Head(commands)
    /\ UNCHANGED commands

\* takeCommand() of a queue that is not empty.
TakeHead ==
    /\ current' = Head(commands)
    /\ commands' = Tail(commands)

\* Mutant: the loop does not look at stopping_.
TopForever ==
    From("top") /\ Silent /\ Len(events) < MaxEvents /\ Goto("begin")

Top ==
    /\ From("top") /\ Silent
    /\ \/ stopping /\ Goto("exit")
       \/ ~stopping /\ Len(events) < MaxEvents /\ Goto("begin")

Begin ==
    /\ From("begin") /\ Goto("start")
    /\ reconnectRequested' = FALSE
    /\ UNCHANGED <<sessionVars, commands, events, deviceReady>>

PostStart ==
    /\ From("start") /\ Goto("connect")
    /\ Post(Signal("start"))
    /\ UNCHANGED <<current, currentOk>>

\* Mutant: the flag is taken down when the new session is up.
ConnectClearingRequest ==
    /\ From("connect")
    /\ \/ /\ Goto("check")
          /\ statusRequired' = FALSE
          /\ reconnectRequested' = FALSE
          /\ lastContact' = IF lastContact = "attempt" THEN "oldAttempt" ELSE lastContact
       \/ Goto("failed") /\ UNCHANGED <<statusRequired, lastContact, reconnectRequested>>
    /\ UNCHANGED <<current, currentOk, attempted, commands, events, deviceReady>>

\* The constructor of aioairctrl::Client binds the socket and synchronises, or throws.
Connect ==
    /\ From("connect")
    /\ \/ /\ Goto("check")
          /\ statusRequired' = FALSE
          /\ lastContact' = IF lastContact = "attempt" THEN "oldAttempt" ELSE lastContact
       \/ Goto("failed") /\ UNCHANGED <<statusRequired, lastContact>>
    /\ UNCHANGED <<current, currentOk, attempted, commands, reconnectRequested, events,
                   deviceReady>>

Check ==
    /\ From("check") /\ Silent
    /\ Goto(IF stopping \/ reconnectRequested THEN "end" ELSE "observe")

\* Transport::receive asks the stop predicate, then waits a slice for a datagram.
Observe ==
    /\ From("observe") /\ Silent
    /\ Goto(IF Interrupted THEN "after" ELSE "receive")

ReceiveStatus ==
    /\ From("receive") /\ Len(events) < MaxEvents
    /\ Goto("deliver") \/ Goto("deliverEmpty")
    /\ statusRequired' = FALSE
    /\ deviceReady' = TRUE
    /\ lastContact' = "status"
    /\ UNCHANGED <<current, currentOk, attempted, commands, reconnectRequested, events>>

\* The device may end the observation with the very status.
Deliver ==
    /\ \/ From("deliver") /\ Post(Signal("status"))
       \/ From("deliverEmpty") /\ Post(Signal("empty"))
    /\ Goto("observe") \/ Goto("failed")
    /\ UNCHANGED <<current, currentOk>>

\* The slice is over and the predicate has become true.
ReceiveStopped ==
    /\ From("receive") /\ Silent
    /\ Interrupted /\ Goto("after")

\* Time-out after the re-registrations, reset by the peer, unreadable status.
ReceiveFails ==
    From("receive") /\ Silent /\ Goto("failed")

After ==
    /\ From("after") /\ Silent
    /\ Goto(IF stopping \/ reconnectRequested THEN "end" ELSE "take")

\* Mutant: the next order may follow at once.
TakeWithoutWaiting ==
    /\ From("take")
    /\ IF commands = <<>> THEN Goto("check") /\ UNCHANGED <<current, commands>>
       ELSE Goto("control") /\ TakeHead
    /\ UNCHANGED <<statusRequired, currentOk, attempted, lastContact, reconnectRequested,
                   events, deviceReady>>

Take ==
    /\ From("take")
    /\ IF commands = <<>>
       THEN Goto("check") /\ UNCHANGED <<current, commands, statusRequired>>
       ELSE Goto("control") /\ TakeHead /\ statusRequired' = TRUE
    /\ UNCHANGED <<currentOk, attempted, lastContact, reconnectRequested, events,
                   deviceReady>>

\* set_control_values without retry or resync: the device answers, or an exception
\* leaves open whether the order was executed.
SetControl ==
    /\ From("control")
    /\ attempted' = attempted \cup {current.id}
    /\ lastContact' = "attempt"
    /\ \/ Goto("judge") /\ currentOk' \in BOOLEAN
       \/ Goto("report") /\ currentOk' = FALSE
    /\ UNCHANGED <<statusRequired, current, commands, reconnectRequested, events,
                   deviceReady>>

\* An answer counts for nothing when a refresh was requested meanwhile.
Judge ==
    /\ From("judge") /\ Goto("report")
    /\ currentOk' = (currentOk /\ ~reconnectRequested)
    /\ UNCHANGED <<statusRequired, current, attempted, lastContact, commands,
                   reconnectRequested, events, deviceReady>>

Report ==
    /\ From("report") /\ Goto("check")
    /\ Post(Control(current, currentOk))
    /\ current' = NoCommand /\ currentOk' = FALSE

\* The catch block of a session.
Failed ==
    /\ From("failed") /\ Goto("postError")
    /\ deviceReady' = FALSE
    /\ UNCHANGED <<sessionVars, commands, reconnectRequested, events>>

PostError ==
    /\ From("postError") /\ Goto("drain")
    /\ Post(Signal("error"))
    /\ UNCHANGED <<current, currentOk>>

\* Mutant: a failed session leaves its orders to the next one.
DrainNothing ==
    From("drain") /\ Silent /\ Goto(IF stopping THEN "end" ELSE "wait")

Drain ==
    /\ From("drain")
    /\ IF commands = <<>>
       THEN Goto(IF stopping THEN "end" ELSE "wait") /\ UNCHANGED <<current, commands>>
       ELSE Goto("drained") /\ TakeHead
    /\ UNCHANGED <<statusRequired, currentOk, attempted, lastContact, reconnectRequested,
                   events, deviceReady>>

PostDrained ==
    /\ From("drained") /\ Goto("drain")
    /\ Post(Control(current, FALSE))
    /\ current' = NoCommand /\ UNCHANGED currentOk

\* waitReconnect: an order, a refresh, a shutdown or the time-out ends it.
WaitReconnect ==
    From("wait") /\ Silent /\ Goto("end")

\* Mutant: deviceReady_ is taken down by failures only.
EndKeepingReady ==
    From("end") /\ Silent /\ Goto("top")

End ==
    /\ From("end") /\ Goto("top")
    /\ deviceReady' = FALSE
    /\ UNCHANGED <<sessionVars, commands, reconnectRequested, events>>

-----------------------------------------------------------------------------

\* What the main thread does when asked; nobody has to ask.
Requests ==
    \/ \E origin \in ClientOrigins : HandleControl(origin)
    \/ \E origin \in LuaOrigins : LuaAction(origin)
    \/ HandleResume \/ HandleRefresh \/ Shutdown

\* What the main thread does because it has started it, or because an event waits.
MainStep ==
    \/ PushControl \/ PushAutomated
    \/ RefreshSwap \/ RefreshFail
    \/ TakeEvents \/ EventsDone
    \/ ProcessStart \/ ProcessError \/ ProcessStatus \/ ProcessEmpty \/ ProcessControl
    \/ ShutdownNotify \/ Join

Worker ==
    \/ Top \/ Begin \/ PostStart \/ Connect
    \/ Check \/ Observe \/ ReceiveStatus \/ Deliver \/ ReceiveStopped \/ ReceiveFails
    \/ After \/ Take \/ SetControl \/ Judge \/ Report
    \/ Failed \/ PostError \/ Drain \/ PostDrained \/ WaitReconnect \/ End

Terminated == mainPc = "done" /\ UNCHANGED vars

Next == Requests \/ MainStep \/ Worker \/ Terminated

Spec == Init /\ [][Next]_vars

(***************************************************************************)
(* The worker is a thread that never waits without a time-out, and the     *)
(* poll loop looks for events every 100 ms at the latest.  No client,      *)
(* script or signal has to do anything.                                    *)
(***************************************************************************)
FairSpec == Spec /\ WF_vars(Worker) /\ WF_vars(MainStep)
-----------------------------------------------------------------------------
(* Properties *)

MainPcs   == {"loop", "refresh", "failing", "events", "status", "stop", "join", "done"}
WorkerPcs == {"top", "begin", "start", "connect", "check", "observe", "receive", "deliver",
              "deliverEmpty", "after", "take", "control", "judge", "report", "failed",
              "postError", "drain", "drained", "wait", "end", "exit"}

OrderTypes ==
    /\ hand \in Origins \cup {"none"}
    /\ issued \in 0..MaxCommands
    /\ hand # "none" => issued < MaxCommands
    /\ manualOverride \in BOOLEAN
RefreshTypes ==
    /\ refreshScheduled \in BOOLEAN
    /\ failing \in Seq(Command)
EventsTypes ==
    /\ batch \in Seq(Event)
    /\ state \in {"starting", "connecting", "connected", "error"}
    /\ awaiting \in Command \cup {NoCommand}
    /\ awaitingOld \in BOOLEAN
    /\ answer \in [Ids -> {"none", "ok", "failed", "dropped"}]
SessionTypes ==
    /\ workerPc \in WorkerPcs
    /\ statusRequired \in BOOLEAN
    /\ current \in Command \cup {NoCommand}
    /\ workerPc \in {"control", "judge", "report", "drained"} => current \in Command
    /\ currentOk \in BOOLEAN
    /\ attempted \subseteq Ids
    /\ lastContact \in {"none", "status", "attempt", "oldAttempt"}
SharedTypes ==
    /\ commands \in Seq(Command)
    /\ reconnectRequested \in BOOLEAN
    /\ events \in Seq(Event)
    /\ deviceReady \in BOOLEAN
    /\ stopping \in BOOLEAN

MainTypes == mainPc \in MainPcs /\ OrderTypes /\ RefreshTypes /\ EventsTypes

TypeOK == MainTypes /\ SessionTypes /\ SharedTypes

Holds(queue, kind) == \E i \in DOMAIN queue : queue[i].kind = kind

(***************************************************************************)
(* A refresh once scheduled is never forgotten: until the main thread has  *)
(* digested the start of a new session, and accepts the next refresh, the  *)
(* request is still before its critical section, or the flag is up, or a   *)
(* new session is about to be announced, or its announcement is on its     *)
(* way.  (handle("refresh"), the reset of the flag in deviceLoop and the   *)
(* Start event; F5 would be dead for good otherwise.)                      *)
(***************************************************************************)
RefreshNotLost ==
    refreshScheduled =>
        \/ mainPc = "refresh"
        \/ reconnectRequested
        \/ workerPc = "start"
        \/ Holds(events, "start") \/ Holds(batch, "start")

(***************************************************************************)
(* Within one session two orders are never sent in a row: a status of the  *)
(* device lies between them (statusRequiredAfterControl in deviceLoop).    *)
(***************************************************************************)
StatusBetweenAttempts ==
    [][workerPc = "take" /\ workerPc' = "control" => lastContact # "attempt"]_vars

(***************************************************************************)
(* No order is sent to the device twice, whatever refreshes, failures and  *)
(* reconnections come between (the writes are not idempotent for the user: *)
(* somebody may have changed the device meanwhile).                        *)
(***************************************************************************)
AttemptedOnce ==
    [][\A id \in Ids : workerPc = "control" /\ workerPc' # "control" /\ current.id = id
            => id \notin attempted]_vars

(***************************************************************************)
(* Orders are sent in the order in which they were accepted: the device    *)
(* ends up with the last one.                                              *)
(***************************************************************************)
AttemptedInOrder ==
    [][\A id \in Ids : attempted' # attempted /\ id \in attempted => id <= current.id]_vars

(***************************************************************************)
(* deviceReady_ is up only while a session exists from which a status has  *)
(* come, or is being torn down: no order is accepted on the strength of an *)
(* earlier session (the stores in handle("refresh"), in the status         *)
(* callback and at the end of deviceLoop's body).                          *)
(***************************************************************************)
Sessions == {"check", "observe", "receive", "deliver", "deliverEmpty", "after", "take",
             "control", "judge", "report", "failed", "end"}

ReadyInSession == deviceReady => workerPc \in Sessions

(***************************************************************************)
(* The state told to clients, which decides whether a new client gets the  *)
(* cached status, lags behind the worker only by events that are on their  *)
(* way: with nothing of the kind pending, "connected" means that the       *)
(* session is not yet replaced nor its failure announced.                  *)
(***************************************************************************)
ConnectedIsCurrent ==
    /\ state = "connected"
    /\ \A kind \in {"start", "error"} : ~Holds(events, kind) /\ ~Holds(batch, kind)
    => workerPc \notin {"connect", "drain", "drained", "wait"}

(***************************************************************************)
(* While the automation is suspended by a manual order, no script order    *)
(* can overtake it: every script order still queued has an order of a      *)
(* client that suspends the automation behind it, queued or on its way.    *)
(***************************************************************************)
ManualPrevails ==
    manualOverride =>
        \A i \in DOMAIN commands : commands[i].origin = "script" =>
            \/ hand = "manual"
            \/ \E j \in DOMAIN commands : j > i /\ commands[j].origin = "manual"

\* The places of an order: where in a queue it or its report is, the worker's hands,
\* the wait for confirmation, an answer.
OrderAt(name, queue, id)  == {<<name, i>> : i \in {j \in DOMAIN queue : queue[j].id = id}}
ReportAt(name, queue, id) ==
    {<<name, i>> : i \in {j \in DOMAIN queue : queue[j].kind = "control" /\ queue[j].cmd.id = id}}
There(name, b) == IF b THEN {<<name, 0>>} ELSE {}
Places(id) ==
    OrderAt("commands", commands, id) \cup OrderAt("failing", failing, id)
    \cup ReportAt("events", events, id) \cup ReportAt("batch", batch, id)
    \cup There("worker", current.id = id) \cup There("awaiting", awaiting.id = id)
    \cup There("settled", answer[id] # "none")

(***************************************************************************)
(* No order is lost and none is answered twice: each accepted order is in  *)
(* exactly one place: the queue, the worker's hands, a report on its way,  *)
(* the wait for confirmation, or answered.                                 *)
(***************************************************************************)
EveryOrderInOnePlace == \A id \in 1..issued : \E place \in Places(id) : Places(id) = {place}

(***************************************************************************)
(* The two threads together keep the ledger: an order that a refresh, a    *)
(* failing session or the worker has reported is not sent afterwards, and  *)
(* nothing is reported as done that was not sent.                          *)
(***************************************************************************)
Ledger == INSTANCE OrderLedger WITH sent <- attempted, outcome <- answer

LedgerKept == Ledger!Spec

(***************************************************************************)
(* Three things the documentation says that the code does not keep.        *)
(*                                                                         *)
(* "Between two attempts at least one new status of the device must have   *)
(* arrived" (docs/IPC_PROTOCOL.md), also when the first attempt belonged   *)
(* to an earlier session.                                                  *)
(***************************************************************************)
StatusBetweenAllAttempts ==
    [][workerPc = "take" /\ workerPc' = "control"
            => lastContact \notin {"attempt", "oldAttempt"}]_vars

\* "A status of the new session must not falsely confirm it" (docs/IPC_PROTOCOL.md):
\* a Lua order is confirmed only by a status of the session in which it was sent.
NoConfirmationAcrossSessions ==
    [][\A id \in Ids : awaiting.id = id /\ awaitingOld => answer'[id] # "ok"]_vars

\* A Lua order is accepted only when no other "is already running"
\* (the refusal in handleAutomationAction), be it with the worker.
OneLuaOrderAtATime ==
    [][issued' # issued /\ hand \in LuaOrigins => ~Automated(current)]_vars

(***************************************************************************)
(* Liveness.  A scheduled refresh takes place.  Every accepted order is    *)
(* answered, or, when it is the automation's, at least accepted by the     *)
(* device and waiting for the next status that says anything (a device     *)
(* that sends only empty ones keeps it waiting).  A shutdown ends with the *)
(* worker joined.                                                          *)
(***************************************************************************)
RefreshServed == refreshScheduled ~> (~refreshScheduled \/ stopping)

OrdersAnswered ==
    \A id \in Ids :
        issued >= id ~> (answer[id] # "none" \/ awaiting.id = id \/ stopping)

ShutdownCompletes == stopping ~> mainPc = "done"

=============================================================================
