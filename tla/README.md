# Verification of AirCtrl-Desklet

TLA+ models of AirCtrl-Desklet v2.00 (C++17): a server, `airctrl-server`, that
owns the only UDP session with a Philips air purifier, runs a Lua automation and
serves desklets and command-line clients over TCP.  The models are translated
from the source; TLC checks them on small instances, TLAPS proves the safety of all but
one of them for every value of their constants.

## 1. Inventory

| Component | State | Operations | Talks to | Modules |
|---|---|---|---|---|
| Server, main thread (`server.cpp`: `run`, `handle`, `processEvents`) | `state_`, `lastStatus_`, `refreshScheduled_`, `pendingAutomationConfirmation_` | client requests, events of the worker, one time tick per poll | worker (two queues), clients, automation (calls and a callback) | `DeviceBridge`, `AutomationEngine` |
| Server, device worker (`deviceLoop`) | the session, `statusRequiredAfterControl`, the order in its hands | observe, send one order, reconnect | main thread, device | `DeviceBridge` |
| Shared by both | `commands_`, `reconnectRequested_`, `events_`, `deviceReady_`, `stopping_`, the wake pipe | | | `DeviceBridge`, `WakePipe` |
| Server, connections (`acceptClients`, `readClient`, `flushClient`, `closeClient`, `broadcast`) | `clients_` with their output, `automationEditor_`, the exit when none is left | accept, read, write, close, tell all | clients (TCP) | `ClientLink` |
| Automation engine (`automation.cpp`) | the script, `enabled_`, `revision_`, `manualOverride_`, plans, handled occurrences, digest of the alarms; two files | save and load a script, events, plans, orders | main thread | `Schedules`, `ScheduleTable`, `AutomationEngine`, `AlarmEvents`, `ScriptStore` |
| Edit lock (server, `controller.cpp`, `desklet.cpp`) | owner at the server; pending request and "held" at each client; the dialog | begin, save, cancel, watchdog, disconnect | TCP | `EditLock`, `ClientLink` |
| Controller (`controller.cpp`) | connection, look-up, pending order, awaited confirmation, input buffer, timers | commands, refresh, heartbeat, reconnection | desklet (signals), server | `CommandPanel`, `ServerLink` |
| Desklet window (`desklet.cpp`, `desklet_events.cpp`) | button state, mouse flags, open menus and dialogs | mouse, timers, tray, dialogs | controller | `CommandPanel`, `DeskletInput` |
| Alerts (`alerts.cpp`, `emblems.cpp`, `updateMonitoring`) | active, notified and acknowledged alarms | statuses, failures, time, acknowledgement | window | `AlertRules`, `AlertMonitor` |
| Status log (`statuslog.cpp`) | a CSV file with a header | append under `flock`, restore the header | file system | `StatusLog` |
| Device client (`third_party/aioairctrl`) | CoAP tokens, keys, socket | observe, set, cancel | device (UDP) | as the worker sees it |
| Command line, control values, Lua | | | | none |

### What is hard

* **Two threads.**  Orders go to the worker through one queue, everything else
  comes back through another; readiness and stop are atomics read outside any
  lock.  A handler reads `deviceReady_`, and queues an order later; the worker
  resets `reconnectRequested_` and announces the session later.
* **Sessions.**  A session can end by a refresh, a failure or a shutdown at any
  point of an order's life.  Orders are never repeated, so each must be answered
  exactly once, by the refresh, the failing session or the worker.
* **Confirmation.**  The device accepts an order, and only a later status shows
  whether it did anything, at the server as at the desklet.
* **Manual against automatic.**  A client's order suspends the script; an order
  of the script may already be on its way.
* **Calls that come back.**  A handler calls the engine, it calls Lua, which
  orders, which calls the server, which calls the engine.  Sending to a client may
  close it, closing the editor sends to all others.  Aborting a Qt socket runs the
  handler of its end at once; a menu runs an event loop inside the handler that
  opened it.
* **Time.**  Plans over midnight and the end of the week, plans that were refused,
  occurrences handled before a crash.
* **A lock over TCP.**  Owner and server learn of grants, cancellations and lost
  connections at different times; a watchdog gives up on late answers.
* **Files.**  A script and its state are two files; either write may fail, and so
  may the one that takes the other back.  The log is shared with other processes.
* **Late answers.**  Of a resolver, of a server that is no longer the one that is
  set, of a command that has timed out.

### What makes each component correct

* Bridge (main thread and worker): no order lost, none answered or sent twice,
  none out of order; a status between two orders; no refresh forgotten; readiness
  and state follow the session; a manual order wins; shutdown ends.
* Connections and edit lock: one holder, connected, known to all, who alone gives it
  back; a lost connection and a cancellation free it, a failed save can be repeated.
* Automation: a plan is due when it says; each occurrence is handed over at most
  once, over crashes, and not forgotten; the script knows the alarms; a failed or
  suspended script is silent; script, revision and activation stay together.
* Controller: a command ends once, by an answer, a status or a time-out; no message
  of an old connection counts in a new one; a server that is there is reached.
* Alerts: a new alarm is announced once, an acknowledged one is quiet until it is
  gone, and then announced again.
* Window: one press does one thing, whatever is open.
* Status log: every record whole, every file headed, one set of columns.

## 2. Modules

| Module | Models |
|---|---|
| `DeviceBridge` | main thread and worker of the server; proved in `DeviceBridge_proofs` |
| `OrderLedger` | what the server promises of every order it accepts; `DeviceBridge` implements it, proved in `DeviceBridge_proofs` |
| `WakePipe` | how an event wakes the main thread: queue, pipe, batch, in finer steps than `DeviceBridge`; proved in `WakePipe_proofs` |
| `Mailbox` | what `WakePipe` promises: each event processed, once, in order; `WakePipe` implements it |
| `EditLock` | the edit lock, from the dialog to the server; proved in `EditLock_proofs` |
| `ClientLink` | the server's connections, with what a handler does to them while it runs |
| `Schedules` | what a plan is, when it was last due and which one is followed: operators without state |
| `ScheduleTable` | the table of plans that a script's calls build up; proved in `AutomationEngine_proofs` |
| `AutomationEngine` | the engine with the part of the server that takes its orders; uses `Schedules`; proved in `AutomationEngine_proofs` |
| `AlertRules` | the device's codes as alarms, once as the server and once as the desklet translates them |
| `AlarmEvents` | the alarm event of the server over the statuses, against what the desklet shows; uses `AlertRules` |
| `AlertMonitor` | the alarms of the desklet and the latch; uses `AlertRules`; all three proved in `AlertMonitor_proofs` |
| `ScriptStore` | the two files of the automation, with failing writes and crashes; proved in `ScriptStore_proofs` |
| `StatusLog` | the CSV file, piece by piece, with other processes; proved in `StatusLog_proofs` |
| `CommandPanel` | a command from the button to the status that judges it, with both ends of the connection |
| `ServerLink` | how the desklet finds, watches and regains its server |
| `DeskletInput` | mouse, timers, menus and dialogs; proved with the two above in `Desklet_proofs` |
| `MCDeviceBridge`, `MCEditLock` | instances of one module |
| `MCServer`, `MCClient`, `MCProgress` | instances of several modules that share no variable |

### DeviceBridge

Written so that one step is what one thread does between two accesses to shared
state: a critical section of `commandMutex_` or `eventMutex_`, or one access to
an atomic.  `mainPc` and `workerPc` are the places between them.

| Variable | Code |
|---|---|
| `commands`, `reconnectRequested`, `events`, `deviceReady`, `stopping` | the members of the same name |
| `mainPc`, `hand`, `failing`, `batch` | where the main thread is; the order past its check of `deviceReady_`; the local deques of `handle("refresh")` and `processEvents` |
| `state`, `refreshScheduled`, `awaiting`, `manualOverride` | `state_`, `refreshScheduled_`, `pendingAutomationConfirmation_`, `AutomationEngine::manualOverride_` |
| `workerPc`, `statusRequired`, `current`, `currentOk` | where the worker is in `deviceLoop` and its local variables |
| `issued` | orders queued so far; an order's id is its number |
| `answer`, `attempted`, `lastContact`, `awaitingOld` | history: not in the code |

| Actions | Code |
|---|---|
| `HandleControl`, `PushControl` | `handle("control")`, before and in its critical section |
| `LuaAction`, `PushAutomated` | `handleAutomationAction`, likewise |
| `HandleRefresh`, `RefreshSwap`, `RefreshFail` | `handle("refresh")` |
| `HandleResume` | `handle("automation_resume")` |
| `TakeEvents`, `Process…`, `EventsDone` | `processEvents`: the swap, one action per kind of event |
| `Shutdown`, `ShutdownNotify`, `Join` | `shutdown` |
| `Top` … `End` | `deviceLoop` in the order of its lines, with what it sees of the device client |

Abstractions.  An order is an id and an origin (`manual`, `plain`, `script`,
`timer`): its values matter only for whether it suspends the automation and for
whether a status shows them, which is a free choice.  A status is a full or an
empty one.  A script may ask for an order at any event at which `airctrl.set` is
allowed: on a status, on the time tick, on `on_long_timer`; which orders a given
script does ask for is `AutomationEngine`'s part.
`configGeneration_` is never changed by the code and is left out.  Requests that
are refused on the spot change no state and have no action.  `waitReconnect` may
end at any time because its time-out may have passed.

`Ledger == INSTANCE OrderLedger WITH sent <- attempted, outcome <- answer` is the
refinement mapping.  The abstract specification knows three things only, how many
orders were accepted, which were sent and which outcome each has, and three
actions: `Accept`, `Send`, `Settle`.  Every other step of the two threads maps to a
stutter.  That an order taken back by a refresh or a failing session is not sent
afterwards follows from `Send` asking for an order without an outcome.

### WakePipe

| Variable | Code |
|---|---|
| `events` | `events_`; an event is its number |
| `pipe` | bytes in the wake pipe, at most `Capacity` |
| `batch` | the local deque of `processEvents` |
| `mainPc`, `workerPc` | where either thread is in `run`, `processEvents` and `postEvent` |
| `posted`, `processed` | the event posted and the event processed last |

`postEvent` is two steps, `…Queues` under the mutex and `…Writes` after it; a byte
that does not fit is lost, as the result of `write` is ignored.  `Drain` is one
`read` of at most `Block` bytes, repeated until it finds nothing.  `DeviceBridge`
has queue and batch but no pipe and lets the main thread take events whenever some
wait: `Delivers` is what justifies that.

### EditLock

| Variable | Code |
|---|---|
| `editor`, `revision`, `open` | `automationEditor_`, `AutomationEngine::revision_`, the keys of `clients_` |
| `inbox`, `outbox` | bytes in the socket and in the buffers of either side, per connection |
| `session`, `linked` | which connection a controller has, and whether the socket is connected |
| `lastId`, `pending`, `held` | `nextAutomationRequestId_ - 1`, `pendingAutomationRequestId_`, `automationEditHeld_` |
| `dialog`, `base` | the locals `lockHeld`, `saving`, `revision` of `showAutomationSettings` |
| `cut` | history: the settings have stopped the controller under this dialog |

`waiting` is a dialog without the lock, `editing` one with it, `saving` one whose
save button was pressed.  A connection is a pair of a client and a number, as the
server gives every connection an id of its own.  The two ends of a connection
notice its end independently: `Disconnect` at the client, `CloseClient` at the
server.  `Stop` is `Controller::stop`, which the settings call, from the tray over the
dialog of the script as well: it forgets request and lock before it aborts the
connection, so that the dialog is told nothing.  `HandleBegin` may fail because the script cannot be read; `HandleSave`
has the four outcomes of `saveScript`: refused, not written (rolled back), stored
and loaded, stored but not loaded.  A desklet has one dialog of the script at a time
here; the tray can open a second one over the first, and both would be told of every
answer.

### ClientLink

| Variable | Code |
|---|---|
| `server.open`, `.out`, `.closing` | the keys of `clients_`, what waits in `output`, `closeAfterWrite` |
| `server.editor`, `.quit` | `automationEditor_`; the exit when the last client is gone |
| `told`, `actor` | history: what each client was last sent of the lock; the connection the step was about |

The handlers call each other back: `Send` may close the client it sends to, when
more than `MaxOutput` waits; `CloseClient` of the editor broadcasts; `Broadcast`
goes over the clients there were when it began.  They are recursive operators on
`[server, told]`, and an action is one whole handler (`DoRead` with all lines of a
read, `DoFlush`, `Accept`, `Hangup`, `Event`, `AutomationEvent`).  `unordered_map`
has no order, so every order of the clients is tried.

### Schedules, ScheduleTable, AutomationEngine

`Schedules` has no state: `Accepts` and `Register` are `luaSchedule` (names, times,
days, the limit of plans, conflicts with the plans there are), `Occurrence` is
`occurrenceFor`, `Selected` the choice of `evaluateSchedules`.  Time is a number of
minutes since a Monday.  `ScheduleTable` makes every call a script could make.

| Variable of `AutomationEngine` | Code |
|---|---|
| `engine.script`, `.dead` | `state_` with its functions, `lastError_` not empty |
| `engine.minute`, `.digest`, `.connected`, `.handled`, `.enabled`, `.override` | `lastMinute_`, `lastAlertDigest_`, `connected_`, `handledSchedules_`, `enabled_`, `manualOverride_` |
| `engine.queued`, `.flying`, `.awaiting`, `.failing` | a Lua order in `commands_`, in the worker's hands, in `pendingAutomationConfirmation_`, failed and not yet told |
| `engine.status`, `disk`, `ready` | `lastStatus_`, the files, `deviceReady_` |
| `engine.told`, `suspended`, `log` | history: the alarms this script was told; what the users last asked for; every occurrence handed over and taken |
| `engine.given` | history: the occurrences taken in the handler that runs |

A script is what it does: a set of plans, an order per event, the events it raises
in.  The chain engine, Lua, `flushActions`, server, engine is a composition of
operators on the record `engine`, one per function, and an action is a whole
handler.  `HandOver` notes an occurrence whose order the server takes, remembered or not,
but for the plan in force that a resume asks for once more; `told` changes only when
Lua is called.  `Crash` between any two handlers loses everything but `disk`; between two
writes of one handler it leaves what another handler leaves at its end.

### AlertRules, AlarmEvents, AlertMonitor

`ServerAlerts` translates `publishDeviceAlerts`, `DeviceAlerts` the desklet's
`deviceAlerts` and the functions of `emblems.cpp` behind it; codes are numbers with
the fields that may be missing.  `AlarmEvents` walks from status to status and
compares the two through the server's digest.  `AlertMonitor` has the desklet's
fields in the record `desk` (`active`, `notified`, `acknowledged` are the maps of
`AlertLatch`), with the settings dialogs that are open (`settings`), whether the
controller runs, failed commands and the age of the data.  Statuses come whenever the
controller runs, below a second dialog of the settings too, where the alarms pause and
the latch is not asked.  History: `incident`, what was announced and acknowledged since
the alarm last was away; `missed`, the alarms whose end the latch did not see.

### ScriptStore

| Variable | Code |
|---|---|
| `script`, `state`, `leftOver` | `automation.lua`, `automation-state.json`, temporary files of `writeAtomic` by process |
| `server` | process number, `enabled_`, `revision_`, `manualOverride_`, the script that runs |
| `save` | where `saveScript` is: first script, script, state, rollback, or the state alone |
| `history` | what clients enabled, and what they were last told |

Each write is `OpenTemporary` (with `O_EXCL`, so a left-over file of the same
process number refuses it), then `Renamed` or `WriteFailed`; a `StoreCrash` may come
between any two steps.  A start that fails, because an enabled script raises or the
example cannot be written, leaves the server up without a script, as it only logs the
failure.  The state that cannot be written is followed by the rollback only if the old
script could be read.

### StatusLog

A line reaches the file in two pieces, as a `write` may take part of it; `proc` is
where each process is in `append` (open, `flock`, `fstat`, write, unlock) with its
columns and what it has still to write.  `setting` does not change: which servers are
given this log, and which faults may happen (another program truncates the file, the disk
is full, a server dies).

### CommandPanel, ServerLink

`client` has the fields of `Controller` and those of `Desklet` that a command
touches; `toServer`, `toClient` are the messages on their way on the one connection
there is, the last of which may have been read in half; `server` is what the server
knows of this client.  Statuses say how far the server was when they were sent
(`after`), so that `JudgedAfterAnswer` can compare.  History: `ended`, how often each
command ended for the user; `judged`, `judgedBy`.

`ServerLink` has the timers, the socket and the look-ups of `Controller` in the record
`link` and whether the server can be reached in `up`.  `connectToHost` may connect
before it returns (loopback) or later, `abort` of a connected socket runs the handler
of its end within the caller; operators that may connect at once return the set of
records.

### DeskletInput

`ui` holds the flags of the event filter and of the dialogs, `stack` the open menus
and dialogs, the last of which runs the event loop; `mouse` where the left button is
held and whether the button of the device under it is down, `history` what the press led
to.  The window sees the mouse only while `stack` is empty; timers and the tray icon are
served always.  A Qt button that is held comes up when the pointer leaves it, when it is
disabled or loses the focus, and goes down again when the pointer returns (`ComesUp`,
`ComesDown`): each is a `released` or `pressed` of its own.

### MCServer, MCClient, MCProgress

Modules that share no variable need no interleaving: every invariant or action
property of one is a property of it alone, and their product would only multiply the
states.  These modules put several of them side by side and choose at the beginning
which one runs (`part`); the others keep their initial state.  They EXTEND the modules, whose
names are distinct for that; `ClientLink`, and in `MCProgress` the bridge and the lock, are
instances with constants of their own, the names of whose properties are repeated there.
A property of a part is stated in its own module.

## 3. Checks

| Run | Shows | Distinct states |
|---|---|---|
| `bridge_safety` | two orders of any of the four origins, with refreshes, failures, reconnections and a shutdown in every interleaving: no order or refresh is lost, sent twice or out of order, readiness and state follow the session, and the two threads implement `OrderLedger` | 1 510 000 |
| `lock_safety` | two desklets that edit, save, cancel, time out, lose their connection and come back: client and server agree, also when the settings cut a dialog off | 1 565 000 (with symmetry) |
| `server` | the engine over midnight with crashes, reloads, suspensions and refused orders; two plans of every shape; the device's codes at every boundary; saves with failing writes and crashes; a shared and a faulty log; clients that do not read, hang up and edit | 534 000 |
| `client` | alarms that rise, go and come back; commands over connections that are lost and split lines anywhere; look-ups, attempts and time-outs in every order; mouse, timers, menus, tray and dialogs within each other | 603 000 |
| `progress` | a pipe that overflows implements a mailbox that delivers; under fairness a refresh takes place, an order is answered, a shutdown ends, a lock is freed, the buttons are freed, a reachable server is reached | 105 000 |
| `bridge_session_change`, `bridge_confirmation`, `lock_closing`, `lock_retry`, `store_crash`, `panel_resume`, `panel_halfline` | a counterexample to a sentence of the documentation, see section 5 | |

Bounds, and why they are enough:

* `DeviceBridge`, `MaxCommands = 2`: every property relates one order to itself or two
  orders to each other; 1 in `progress`, whose properties are about one order.
  Refreshes and sessions are not bounded, since the models count neither.
* `MaxEvents = 1`: the worker starts no session and reads no status while an
  event waits.  Answers, errors and reports of drained orders are not held back,
  so that the queue does hold several events, of two sessions too; only a main
  thread that falls several statuses behind is left out.  The proofs hold for
  every value.
* `WakePipe`, `Capacity = 3`, `Block = 2`, `MaxPosts = 6`: the pipe overflows, a drain
  takes several reads and ends with a short one, and events are posted at every point
  of it.  The code has 65536 and 256 on Linux; the theorems hold for all.
* `EditLock`, two sessions, requests and revisions: an answer that belongs to an
  earlier request or an earlier connection, a conflict of revisions.  Clients are
  interchangeable, hence the symmetry; the liveness run uses none and one session.
* `AutomationEngine`: four minutes with three minutes a day, so that a plan is due
  before and after midnight and two plans follow each other; `HandledMax = 1` where the
  program has 64, so that the limit is reached; `MaxFailing = 1` order whose failure
  is not told yet, `MaxLog = 2` occurrences taken before the last save.  Two scripts: plans
  alone, and one with orders in an event and on the long press that raises in
  `command`.
* `ScheduleTable`: days of three minutes, weeks of seven days, two names, every call of one
  moment or a range (over midnight too), all days or one, with and without `catch_up`,
  and every kind of refused call.  Two plans are enough for a
  conflict; the properties look at every minute of the second week.
* `AlarmEvents`: each code below, at and above each limit, and missing; `AlertMonitor`: a
  filter that is well, near its end and at it, one failed command, two dialogs of the
  settings, the smallest number with a controller that runs while the alarms pause.  Its
  causes are explored in two halves (`alarms`: the device and its reception; `causes`:
  reception, commands and script), as no property relates two alarms.
* `ScriptStore`: two scripts, one of which may raise when loaded, two process numbers (one
  comes back), two saved revisions.
* `StatusLog`: two writers with rows of different columns; one writer with all
  faults.  10 pieces: a header and three rows, a truncation, a header again.
* `ClientLink`: two clients, 4 messages of output (the script of a grant counts two), two
  lines in one read: the smallest in which the client that is told is closed by it
  while a further line of it waits.
* `CommandPanel`: two servers, two commands, two messages on their way each way (one in
  `progress`).  `ServerLink`: a server by address, two by name with up to two addresses,
  6 calls of the window (4 in `progress`).  `DeskletInput`: three menus or dialogs within each
  other: a menu, a dialog of it, one from the tray over both.

Deadlock is checked in `bridge_safety`, where only the end after a shutdown may rest,
and in `client`, `bridge_session_change`, `bridge_confirmation`, `store_crash`,
`panel_resume` and `panel_halfline`; the other models come to rest when their bounds are
used up or, as a server, when the last client is gone.

Fairness.

* `DeviceBridge`: weak fairness of the worker as a whole and of the main thread's own steps
  as a whole.  The worker is an operating system thread whose every wait has a
  time-out (100 ms slices in `Transport::receive`, the control time-out,
  `waitReconnect`); the main thread looks for events at least every 100 ms.  Nothing is
  asked of clients, scripts, signals or the device: which way a step of the worker goes
  is free, so a device that never sends a status is among the behaviours.
* `EditLock`: either end serves what has arrived, the watchdog rings, an ended connection
  is noticed (TCP closes it, or the client's heartbeat does).  Users and connects are
  not fair.
* `WakePipe`: the main thread outside its handlers' choice to post, and a worker between
  its two steps of `postEvent`.  Nobody is asked to post.
* `CommandPanel`: the two timers of a command expire.  Neither the server nor the
  connection is fair.
* `ServerLink`: timers expire, the resolver answers, what is sent to a reachable server
  arrives.  That a reachable server answers before its watchdog is in the guards of
  `ConnectTimeout`, `PongTimeout`, `Closed` and `AttemptError`: without it no
  implementation could promise a connection.  `Reconnects` asks this only of a server
  that stays reachable from some time on.

`OrdersAnswered` is no stronger than the code: a Lua order that the device has
accepted may wait for its confirmation for ever if the device sends only empty
statuses.

## 4. Proofs

`DeviceBridge_proofs` proves, for every set of origins and every bound:

| Theorem | Property | Inductive invariant |
|---|---|---|
| `TypeCorrect` | `TypeOK` | itself: an order in the worker's hands while it is being sent is a conjunct of it |
| `RefreshSafe` | `RefreshNotLost` | with `BatchInv`: outside `processEvents` the batch is empty, so a Start event is never overlooked when the batch is replaced |
| `ReadySafe` | `ReadyInSession` | itself |
| `StatusBetween` | `StatusBetweenAttempts` | `SessionInv`: after an attempt `statusRequired` is up, or a session start lies between |
| `ManualSafe` | `ManualPrevails` | `ManualInv`: no script order is past its check of the suspension while the automation is suspended |
| `SentOnce`, `SentInOrder` | `AttemptedOnce`, `AttemptedInOrder` | `OrderInv`: the ids in the queue increase, are at most `issued` and above every id attempted, and above the one in the worker's hands |
| `ConnectedSafe` | `ConnectedIsCurrent` | `LagInv`: every status that waits and is older than the session is followed by a start or an error |

It also proves `KeepsLedger` (`LedgerKept`), that `DeviceBridge`
implements `OrderLedger`.  The invariant says that every order can be given one
place: there is a function `w` from ids to places (`Placed`) such that every id
in a queue, a deque, the worker's hands or the wait for confirmation is mapped to
exactly that place, every answered one to "settled" and every one not yet accepted
to "nowhere".  Two places can then not hold the same order, without a conjunct for
each pair of places, and a step that moves an order changes `w` at that id alone.
With it go `DistinctInv` (no queue holds an id twice) and `SentInv` (a report of
"ok", and an order that waits for its confirmation, belongs to one that was sent),
and `OrderInv` from above for the order of sending.

`NoOrderLost` (`EveryOrderInOnePlace`) needs the converse, that what is recorded is
there: `KeepInv` says that every order issued is somewhere or answered (`NoneLost`),
and that the places which the code overwrites are empty when it does (`HandsInv`:
the worker's hands before the next order, the deque of a refresh before the next
refresh; `BatchInv`: the batch).  What awaits confirmation may be overwritten, but is
then a script's order, which `answer` records as dropped.

`WakePipe_proofs` proves, for every capacity, block size and number of events:

| Theorem | Property | Inductive invariant |
|---|---|---|
| `TypeCorrect` | `TypeOK` | itself |
| `WakeUpSafe` | `WakeUpNotLost` | itself |
| `KeepsOrder` | `InOrder` | `BatchInv` and `ContentInv`: batch and queue hold, in this order, the numbers after `processed` up to `posted` |

`EditLock_proofs` proves, for every number of clients, connections, requests and
revisions:

| Theorem | Property |
|---|---|
| `EditTypesCorrect` | `TypeOK` |
| `HeldOwned` | `HeldIsOwned` |
| `LockKnown` | `LockIsKnown` |
| `SavingPending` | `SavingIsPending`: of the dialogs that the settings have not cut off |

They share one inductive invariant, `LockInv`.  Its core, `Agreed`, relates five values
of a controller and its connection: what is on its way in either direction, the pending
request, whether the controller believes to hold the lock and whether the server agrees.
A pending request is the last one on its way or its answer is; a request that was given
up has its cancellation behind it; an owner who does not know of his lock is about to be
told or gives it back.  Without the clause on given-up requests a late `edit_begin` would
take the lock for a dialog that is closed, without the one on numbers (`NumberInv`) a new
request could meet an old answer.  Every step of an end is a lemma about the five values,
so that what other clients do needs no argument but that it leaves them alone.

`AutomationEngine_proofs` proves, for all scripts, plans, calendars and lengths of the
list of handled occurrences:

| Theorem | Property | What it rests on |
|---|---|---|
| `EngineTypesCorrect` | `TypeOK` | itself, with the facts on `Schedules` that the occurrence followed is a moment of the plan |
| `OccurrencesHandedOverOnce` | `HandedOverOnce` | `FilesInv`, `LogInv`: the engine remembers the end of the log, in memory and on disk, where it is stored before the order goes out, so that a crash forgets none; `Evaluate` hands over nothing remembered, unless it is asked to by a resume, which `HandedOverOnce` leaves out |
| `RunningScriptIsTold` | `AlarmsAreTold` | while a script runs, `digest` is what it was told: a load clears both, and the engine looks at alarms only while nothing is suspended, so that both change together unless the script fails |
| `EngineSilent` | `SilentWhenDeadOrSuspended` | `OverrideInv`: the override in memory and on disk is what the users last asked for |
| `PulseSettles` | `PulseSettlesPlan` | the operators of a pulse, one after the other |
| `PlansStayApart`, `LatestPlanIsOne` | (about `Schedules`) | what `luaSchedule` accepts shares no minute and day with a plan of the table; then no two plans were last due at the same moment, and the latest one is one plan |
| `PlansDueOneAtATime` | `OneAtATime` of `ScheduleTable` | `TableInv`: the table is `Apart`, and a call that was accepted is in it as a whole |
| `PlansDueWhenPlanned` | `DueWhenPlanned` of `ScheduleTable` | `TableInv`, by which no other plan has the name of a range, and arithmetic on days and weeks: of the two ends of a range the later one is the beginning exactly while the moment lies in the range of one of its days |

The last two, and `TableTypesCorrect`, are for every length of the day and the week and
every set of calls; the run has days of three minutes.

`AlertMonitor_proofs` proves, for all statuses and any number of failed commands,
`QuittedNow` (`QuittedInThisIncident`) and `AnnouncedRight` (`AnnouncedAsItHappens`).
`AlertInv` relates the latch and the history of each alarm: what was told is notified, what
is notified was told since the alarm last was away (`ToldInv`), what is acknowledged was
acknowledged since then (`AckedInv`), the last two unless the latch missed an end of the
alarm.  `missed` is what makes them invariants: while the alarms pause an alarm may go and
come back.  `SameAlarms` says of `AlertRules` that the server's translation of a status and
the desklet's are the same, for all numbers and missing fields, where the run `server` tries
the boundaries; with it `ScriptKnows` (`ScriptKnowsWhatIsShown`) follows for every sequence
of statuses.

`ScriptStore_proofs` proves `FilesKept` (`FilesKeepTheirWord`) and `StoreTypesCorrect`.
The invariant follows a save through its writes: which of the two files is new at each
(`SaveInv`), that the fields in memory agree with the file between saves
(`FieldsAreStored`), and that the suspension, whose one write may come after a refused save,
does not lose what that save found (`RefusedInv`).

`Desklet_proofs` proves, for any names, servers and addresses, any depth of dialogs and any
number of calls, commands and messages:

| Theorem | Property | Inductive invariant |
|---|---|---|
| `LinkNeverIdle`, `LinkLeadsToItsHost` | `AlwaysUnderWay`, `ConnectsToItsHost` | `LinkInv` |
| `PressesDoOneThing` | `OnePressOneThing` | `InputInv` |
| `PanelCommandsEnd`, `PanelShowsTheTruth` | `CommandsEnd`, `ShownIsTrue` | `PanelInv` |

`LinkInv` is a predicate on the record `link`: what a handler may rely on while it runs
(`SoundLink`) and, when it returns, that who does nothing will try again (`Retries`).  There is
a lemma for each operator, so that the handlers that run within another (a loopback connect,
the end of an aborted socket) are treated where they are called.

`InputInv` says of the stack that it shows what the flags claim (`StackInv`: one menu at most,
and `menuOpen` while it is there; `paused` while the settings are), and of the press in hand
what may still come of it (`PressInv`: after the short function the timer is off, after the
long one the release finds it triggered, unless the button went down again).

`PanelInv` has four parts.  `Sound` holds of the client also between two lines of one read:
the button waits exactly while a watchdog runs, and every command has ended once but the one
that is awaited.  `Flow` says of every line on its way, the ones read included, that it
tells the truth: a status is of the server that is set and, if one is awaited, later than the
command; an answer was given; and a status behind an answer to a command is later than that
command.  `WholeLines` and `Continues` place the half lines: the last line read may be one, and
then its rest comes next or the connection is gone.  `OrdersInv` keeps the orders on their way
and in the server's hands in their order.  A read is a recursive function over the lines that
have arrived; that every line is handled from a sound record is shown by the first one that
is not, the numbers being well-founded.

`StatusLog_proofs` proves `LogTypesCorrect` and `LogReadable` (`LogIsReadable`), for any
processes, columns and number of pieces.  Of the pieces in the file nothing inductive can be
said, since a record may be there in part; what is always complete is the file followed by
what the process inside the lock has still to write (`FileInv` in `LogInv`), and a write moves a
part of it across.  For one server under all faults `SoloInv` relates the columns in memory
to the rows in the file.  The restrictions are those of the property, for the reasons given
in section 5: with a truncation or a full disk the code keeps neither whole records nor the
header, with two servers not one set of columns.

Every inductive invariant was checked with TLC on small instances before it was proved:
`LockInv` on 3 128 046 states, `EngineInv` 202 500, `AlertInv` 12 493 and 138 578 (its two
halves), `StoreInv` 316 032, `LinkInv` 27 916, `LogInv` of the status log 793 and, with all faults, `SchemaInv` 3 750; `InputInv`,
`PanelInv` and `TableInv` on the parts of the runs `client` and `server`.

The assumptions are those the modules name: bounds are numbers, sizes positive, origins
among the four, marks for "none" no values (`NoAlert`, `None`, `Nobody`, `NoHost`; `NoneAssumption`:
no plan either), sets of process numbers and servers not empty, calls of the shape
`luaSchedule` reads (`RequestsAssumption`), numbers in the statuses (`ReportedAssumption`).  All are
ASSUMEs, which TLC evaluates in the runs; that of the instance `ClientLink` is the
`PartsAssumption` of `MCServer`.  `SameAlarms` asks that a missing field is no integer.  The proofs
have one step per action; lemmas about queues and records come first.

Only model-checked:

* liveness (`Delivers`, `RefreshServed`, `OrdersAnswered`, `ShutdownCompletes`,
  `DisconnectReleases`, `CancelReleases`, `PanelFreed`, `FollowsServer`), which is beyond
  the prover;
* `LockHasItsHolder` of `ClientLink`: sending, closing and telling all call each other, so that its
  operators are mutually recursive, which the prover does not read.

Every other safety property of a passing run is a theorem.

## 5. Where code and documentation differ

With a run that shows it:

* **A status between two attempts** (`docs/IPC_PROTOCOL.md`, `bridge_session_change`).
  Kept within a session (`StatusBetweenAttempts`, proved), not across two: an
  order checked against the old session is queued in the new one and sent first.
* **No confirmation by a new session** (`docs/IPC_PROTOCOL.md`, `bridge_confirmation`).
  The start of a session leaves `pendingAutomationConfirmation_` alone.
* **Cancelling frees the lock** (`docs/LUA_AUTOMATION.md`, `lock_closing`).  Not if
  the dialog is closed before the grant arrives.
* **A failed save can be corrected and repeated** (`docs/LUA_AUTOMATION.md`,
  `lock_retry`).  Not if the script was stored and failed when it was loaded.
* **A save is atomic** (`docs/LUA_AUTOMATION.md`, `store_crash`).  Script and state are two
  files; after a crash between them a script that was saved as not active may run.
* **A click on the blinking button lifts the suspension** (`docs/LUA_AUTOMATION.md`,
  `panel_resume`).  Not if the settings dialog cuts the request off: the window takes it
  for asked, and ignores further clicks until a failure or a change of the state.
* **One object per line** (`docs/IPC_PROTOCOL.md`, `panel_halfline`).  Half a line of a lost
  connection stays in `stream_` and spoils the first line of the next one.

Stated as a property of its module or met while modelling, without a run:

* **One Lua order at a time** (the message in `handleAutomationAction`, `server.cpp:754`;
  `OneLuaOrderAtATime` in `DeviceBridge`).  The order the worker is sending is not
  looked at (line 737).
* **A refused plan is tried again** (`docs/LUA_AUTOMATION.md:72-73`; `ResumeFollowsPlan` in
  `AutomationEngine`).  What a resume forces is not: the occurrence is handled already,
  so that the next pulse leaves it alone (`automation.cpp:914`).
* **A return is an event of its own** (`docs/ARCHITECTURE.md:146-147`;
  `ReturnsAreAnnounced` and `QuittedIsSeen` in `AlertMonitor`).  While the alarms pause the
  latch is not asked (`desklet.cpp:372`).  With the settings open twice, from the tray, the
  end of the inner dialog starts the controller under the outer one: an alarm that goes and
  returns by then is not announced again, and keeps its Q.  Nor does the latch forget the
  acknowledgement of an alarm that was not notified (`alerts.cpp:60`): the Q of a loss of
  reception acknowledged while the settings are open outlasts it if a status comes right
  after they close, and stands for the next one (`docs/USER_GUIDE.de.md:97`).
* **A save has an end** (`desklet.cpp:553-561`, where a failure enables the dialog again;
  `SavingIsAnswered` in `EditLock`).  `showSettings` does not look at the edit
  (`desklet.cpp:594-596`), and `Controller::stop` drops the request without
  `automationEditFailed`: a dialog that saves then stays disabled until it is closed.
  `SavingIsPending` leaves these dialogs out.
* **A refused save leaves the old script** (what `automation.cpp:289-294` is for).  When the
  state cannot be written the new script stays in place if the old one could not be read
  (lines 282 and 291); `RefusedChangesNothing` leaves these saves out, as it does
  those whose rollback fails.
* **The header is restored after copytruncate** (`docs/ARCHITECTURE.md:61`).  Not if the
  truncation comes between the test of the size and the write (`statuslog.cpp:187`).
  `HeaderFirst` is therefore checked without that fault.
* **Complete records** (`docs/ARCHITECTURE.md:60-61`).  A full disk may leave a part of a
  record, to which the next one is joined (`statuslog.cpp:91`); `WholeRecords` is checked
  without faults.
* **A state for all** (`docs/IPC_PROTOCOL.md:57`; `FreeIsKnown` in `ClientLink`).  When the
  broadcast of "busy" closes the editor, the nested broadcast of "free" reaches some clients
  first, and the outer one then tells them "busy" (`server.cpp:695`).
* **A long press lasts 800 ms** (`docs/LUA_AUTOMATION.md:104`; `LongWhileHeld` in
  `DeskletInput`).  The timer does not look at the button (`desklet.cpp:88`), whose release
  may have gone to a menu.
* **No menu after a long press** (`docs/LUA_AUTOMATION.md:106`; `LongOpensNoMenu` in
  `DeskletInput`).  When the pointer leaves the button after the long function and returns,
  the second `pressed` clears `longTimerTriggered_` (`desklet.cpp:103`), and the release
  opens the menu.  `LongOrShort` says that nothing else leads to both.
* **Buttons keep their click** (`desklet_events.cpp:86`; `ButtonsKeepTheirClick`).  A flag
  left over from a press whose release went elsewhere swallows a later click (line 110).
* **No reply during a change of the settings** (`desklet.cpp:596`; `StoppedInSettings`).
  The tray can open the settings twice; closing the inner one starts the controller under
  the outer one.

## 6. Not modelled, and the plan

* Daylight saving: a day has the same number of minutes throughout.  The code works
  with local broken-down time, so that a plan in the hour that is skipped or repeated is
  outside the model.
* A Lua script beyond its plans, orders and errors: its own variables, its instruction
  limit and its output.  Control values are members of a small set; the check of single
  pairs (`control_values.cpp`) is a pure table look-up.
* Writes fail in `ScriptStore` alone; `AutomationEngine` stores every change at once.  A loss of
  power that keeps the renaming of a file and loses its content is not modelled.
* `Take` of `AutomationEngine` lets the worker take an order whenever the device is ready; `DeviceBridge`
  has the exact conditions.
* Numbers that the device sends as odd strings ("12abc"): both sides parse them, in
  different ways.
* Two servers with different columns on one log: the columns are read when a server starts, so
  that `OneSchema` is checked for one writer.
* The device client: tokens, keep-alives, retransmissions and encryption are inside a vendored
  library; the worker sees a status, an end, a failure or an answer, and `DeviceBridge` leaves
  free which and when.  A status that belongs to the observation before is among them.
* The command-line client (one connection, one request, one answer), `loadConfig`, the Lua
  interpreter, painting, layout, preferences, diagnostics, the plot program and packaging: sequential,
  vendored or presentation.

What remains worth doing, in this order:

1. `AutomationEngine` and `DeviceBridge` as one refinement: the engine's `queued`, `flying` and
   `awaiting` as a view of the two threads.
2. An abstract lock with one holder that both `EditLock` and `ClientLink` implement.
3. Two servers on one log of which each names its columns, once the code says what is to happen
   then.
