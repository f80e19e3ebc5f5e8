-------------------------- MODULE AutomationEngine --------------------------
(***************************************************************************)
(* The Lua automation of the server (src/src/server/automation.cpp) with   *)
(* the part of the server that takes its orders (handleAutomationAction    *)
(* and processEvents, src/src/server/server.cpp): events, time plans,      *)
(* orders, manual override, Lua errors, crash and restart.                 *)
(*                                                                         *)
(* All of it runs in the main thread.  A handler calls the engine, which   *)
(* calls Lua, which orders, which calls the server, which calls the engine *)
(* again: these chains are operators from the engine's state to its next   *)
(* one, an action is one whole handler.  A script is what it does: the     *)
(* plans it registers, the event it orders something in, the events it     *)
(* fails in.                                                               *)
(***************************************************************************)
EXTENDS Schedules, Sequences

CONSTANTS
    Scripts,        \* scripts that pass validateScript
    HandledMax,     \* occurrences remembered; 64 in the program
    Alerts,         \* digests of the device's alerts
    NoAlert,        \* the digest of none
    MaxClock,       \* bound: the last minute
    MaxFailing,     \* bound: failed orders the main thread has not heard of
    MaxLog          \* bound: occurrences handled before the last save

ASSUME HandledAssumption ==
    HandledMax \in Nat \ {0} /\ MaxClock \in Nat /\ MaxFailing \in Nat
    /\ MaxLog \in Nat

Events == {"startup", "time", "connected", "disconnected", "status", "alarm", "command",
           "long_timer"}

\* The events in which airctrl.set is allowed (luaSet).
OrderEvents == {"connected", "status", "alarm", "time", "long_timer"}

ASSUME ScriptsAssumption ==
    \A s \in Scripts : /\ \A p \in s.plans : p \in Schedule
                       /\ s.raises \subseteq Events
                       /\ \A t \in DOMAIN s.orders : t \in Events /\ s.orders[t] \in Values

Key   == Names \X (0..MaxClock)
Order == [values : Values, source : OrderEvents \cup {"plan"}, key : Key \cup {None}]

ASSUME NothingAssumption == NoAlert \in Alerts /\ None \notin Key

VARIABLES
    clock,      \* local time
    up,         \* the server runs
    engine,     \* AutomationEngine and the automated orders of AirCtrlServer
    disk,       \* automation.lua and automation-state.json
    ready,      \* deviceReady_
    suspended,  \* history: what the users last asked for
    log         \* history: the occurrences handed over and taken, in order

vars == <<clock, up, engine, disk, ready, suspended, log>>

-----------------------------------------------------------------------------
(* Operators on the engine e: one per function of the program.             *)

\* given is a history: the occurrences taken in the handler that runs.
Memory(stored) ==
    [script |-> None, dead |-> FALSE, minute |-> None, digest |-> NoAlert, told |-> NoAlert,
     connected |-> FALSE, status |-> None, queued |-> None, flying |-> FALSE, awaiting |-> FALSE,
     failing |-> 0, enabled |-> stored.enabled, override |-> stored.override,
     handled |-> stored.handled, given |-> <<>>]

\* state_ is there and lastError_ is empty.
Alive(e) == e.script # None /\ ~e.dead

\* The script fails in this event, by itself or by ordering where it must not.
Raises(e, type) ==
    \/ type \in e.script.raises
    \/ type \in DOMAIN e.script.orders /\ type \notin OrderEvents

Handled(e) == {e.handled[i] : i \in 1..Len(e.handled)}

\* actionAccepted.
Accept(e, key) ==
    IF key = None \/ key \in Handled(e) THEN e
    ELSE LET longer == Append(e.handled, key)
         IN  [e EXCEPT !.handled = IF Len(longer) > HandledMax THEN Tail(longer) ELSE longer]

\* commandEvent: the script is told how an order ended; it cannot order here.
Command(e) ==
    IF Alive(e) /\ ~e.override /\ Raises(e, "command") THEN [e EXCEPT !.dead = TRUE] ELSE e

\* The order in the queue or the one that waits for its confirming status.
Busy(e) == e.awaiting \/ e.queued # None

\* An order of these values is taken; another fails and is not repeated.
TakesOrder(e, values) == ready /\ (e.status = values \/ ~Busy(e))

\* handleAutomationAction: one that changes nothing is confirmed at once.
Handle(e, order) ==
    IF ~TakesOrder(e, order.values) THEN Command(e)
    ELSE IF e.status = order.values THEN Command(Accept(e, order.key))
    ELSE [Accept(e, order.key) EXCEPT !.queued = order]

\* A call into Lua, with flushActions behind it.
Run(e, type) ==
    IF ~Alive(e) THEN e
    ELSE IF Raises(e, type) THEN [e EXCEPT !.dead = TRUE]
    ELSE IF type \notin DOMAIN e.script.orders THEN e
    ELSE Handle(e, [values |-> e.script.orders[type], source |-> type, key |-> None])

CallEvent(e, type) == IF e.override THEN e ELSE Run(e, type)

\* evaluateSchedules: the plan it follows and the key of its occurrence.
InForce == [s \in Scripts |-> [now \in 0..MaxClock |->
    LET p == Selected(s.plans, now)
    IN  IF p = None THEN None ELSE [values |-> p.values, key |-> <<p.name, Occurrence(p, now)>>]]]

\* The plan's order goes to the server.  What a resume asks for once more, though
\* it is remembered, is not noted in given.
HandOver(e, p, force) ==
    LET noted == TakesOrder(e, p.values) /\ ~(force /\ p.key \in Handled(e))
    IN  Handle(IF noted THEN [e EXCEPT !.given = Append(@, p.key)] ELSE e,
               [values |-> p.values, source |-> "plan", key |-> p.key])

\* MUTANT: a failed script's plans go on.
EvaluateWhenDead(e, force) ==
    IF e.script = None \/ e.override \/ ~e.connected THEN e
    ELSE LET p == InForce[e.script][clock]
         IN  IF p = None \/ (~force /\ p.key \in Handled(e)) THEN e ELSE HandOver(e, p, force)

\* MUTANT: what was handled is not looked at.
EvaluateAgain(e, force) ==
    IF ~Alive(e) \/ e.override \/ ~e.connected THEN e
    ELSE LET p == InForce[e.script][clock] IN IF p = None THEN e ELSE HandOver(e, p, force)

Evaluate(e, force) ==
    IF ~Alive(e) \/ e.override \/ ~e.connected THEN e
    ELSE LET p == InForce[e.script][clock]
         IN  IF p = None \/ (~force /\ p.key \in Handled(e)) THEN e ELSE HandOver(e, p, force)

\* MUTANT: the plans are left to the status events.
ProcessTimeWithoutPlans(e) ==
    IF e.script = None \/ e.override \/ e.minute = clock THEN e
    ELSE CallEvent([e EXCEPT !.minute = clock], "time")

ProcessTime(e) ==
    IF e.script = None \/ e.override \/ e.minute = clock THEN e
    ELSE Evaluate(CallEvent([e EXCEPT !.minute = clock], "time"), FALSE)

SetConnected(e, connected) ==
    IF e.connected = connected THEN e
    ELSE LET f == CallEvent([e EXCEPT !.connected = connected],
                            IF connected THEN "connected" ELSE "disconnected")
         IN  IF connected THEN Evaluate(f, FALSE) ELSE f

\* publishDeviceAlerts; told is what the running script was called with.
Publish(e, alerts) ==
    IF e.digest = alerts THEN e
    ELSE CallEvent([e EXCEPT !.digest = alerts,
                             !.told = IF Alive(e) /\ ~e.override THEN alerts ELSE e.told], "alarm")

\* confirmAutomationAction, or the end of the wait by a lost session.
Resolve(e) == IF e.awaiting THEN [Command(e) EXCEPT !.awaiting = FALSE] ELSE e

\* MUTANT: alarms count as announced while the automation is suspended.
StatusEventSuspended(e, status, alerts) ==
    LET f == SetConnected(Resolve([e EXCEPT !.status = status]), TRUE)
    IN  Evaluate(Publish(CallEvent(f, "status"), alerts), FALSE)

StatusEvent(e, status, alerts) ==
    LET f == SetConnected(Resolve([e EXCEPT !.status = status]), TRUE)
    IN  IF f.override THEN f
        ELSE Evaluate(Publish(CallEvent(f, "status"), alerts), FALSE)

\* reevaluate.
Reevaluate(e) ==
    IF e.override \/ ~Alive(e) THEN e
    ELSE Evaluate(CallEvent([CallEvent(e, "status") EXCEPT !.minute = clock], "time"), TRUE)

\* closeState and loadScriptText.
Close(e) == [e EXCEPT !.script = None, !.dead = FALSE]

Load(e, script) ==
    ProcessTime(CallEvent([e EXCEPT !.script = script, !.dead = FALSE, !.minute = None,
                                    !.digest = NoAlert, !.told = NoAlert], "startup"))

-----------------------------------------------------------------------------
\* What savePersistentState stores, and the script next to it.
Stored(e, script) == [script |-> script, enabled |-> e.enabled, override |-> e.override,
                      handled |-> e.handled]

\* A handler of the running server leaves the engine as e: every change of a
\* stored value is stored at once.
Leaves(e, script) ==
    /\ up /\ UNCHANGED up
    /\ engine' = [e EXCEPT !.given = <<>>]
    /\ disk' = Stored(e, script)
    /\ log' = log \o e.given

Becomes(e) == Leaves(e, disk.script)

Boot ==
    /\ ~up /\ up' = TRUE
    /\ engine' = IF disk.enabled THEN Load(Memory(disk), disk.script) ELSE Memory(disk)
    /\ UNCHANGED <<clock, disk, ready, suspended, log>>

\* The files survive.  A crash inside a handler leaves them as they are between
\* two of its writes; that is what another handler leaves at its end, but for
\* the two files of a save, which ScriptStore models.
Crash ==
    /\ up /\ up' = FALSE
    /\ engine' = Memory(disk) /\ ready' = FALSE
    /\ UNCHANGED <<clock, disk, suspended, log>>

Tick == clock < MaxClock /\ clock' = clock + 1 /\ UNCHANGED <<up, engine, disk, ready, suspended, log>>

\* run: processTime after every poll.
Pulse == Becomes(ProcessTime(engine)) /\ UNCHANGED <<clock, ready, suspended>>

\* processEvents: Status; Start; State; a failed automated order; an accepted one.
Status(v, alerts) ==
    Becomes(StatusEvent(engine, v, alerts)) /\ UNCHANGED <<clock, ready, suspended>>
Start == Becomes(SetConnected(engine, FALSE)) /\ UNCHANGED <<clock, ready, suspended>>
State == Becomes(Resolve(SetConnected(engine, FALSE))) /\ UNCHANGED <<clock, ready, suspended>>
\* MUTANT: a failure is heard of twice.
FailsAgain ==
    /\ Becomes(Command([engine EXCEPT !.failing = @ - 1]))
    /\ UNCHANGED <<clock, ready, suspended>>
Fails ==
    /\ engine.failing > 0
    /\ Becomes(Command([engine EXCEPT !.failing = @ - 1]))
    /\ UNCHANGED <<clock, ready, suspended>>
Accepted ==
    /\ engine.flying
    /\ Becomes([engine EXCEPT !.flying = FALSE, !.awaiting = TRUE])
    /\ UNCHANGED <<clock, ready, suspended>>

\* The device worker takes the order; the device refuses it.
Take ==
    /\ ready /\ engine.queued # None /\ ~engine.flying
    /\ Becomes([engine EXCEPT !.queued = None, !.flying = TRUE])
    /\ UNCHANGED <<clock, ready, suspended>>
Refused ==
    /\ engine.flying /\ engine.failing < MaxFailing
    /\ Becomes([engine EXCEPT !.flying = FALSE, !.failing = @ + 1])
    /\ UNCHANGED <<clock, ready, suspended>>

Ready == up /\ ~ready /\ ready' = TRUE /\ UNCHANGED <<clock, up, engine, disk, suspended, log>>

\* F5 or a lost session: what waits in the queue fails.
Unready ==
    /\ ready /\ ready' = FALSE
    /\ engine.queued # None => engine.failing < MaxFailing
    /\ Becomes(IF engine.queued = None THEN engine
               ELSE [engine EXCEPT !.queued = None, !.failing = @ + 1])
    /\ UNCHANGED <<clock, suspended>>

\* handle: a manual change; automation_resume; long_timer; automation_edit_save.
Manual ==
    /\ ready /\ engine.enabled
    /\ Becomes([engine EXCEPT !.override = TRUE])
    /\ suspended' = TRUE
    /\ UNCHANGED <<clock, ready>>

Resume ==
    /\ LET e == [engine EXCEPT !.override = FALSE]
       IN  Becomes(IF engine.override /\ e.status # None THEN Reevaluate(e) ELSE e)
    /\ suspended' = FALSE
    /\ UNCHANGED <<clock, ready>>

LongTimer == Becomes(Run(engine, "long_timer")) /\ UNCHANGED <<clock, ready, suspended>>

Save(script, enabled) ==
    LET e == [engine EXCEPT !.enabled = enabled]
    IN  /\ Len(log) < MaxLog
        /\ Leaves(IF enabled THEN Load(e, script) ELSE Close(e), script)
        /\ UNCHANGED <<clock, ready, suspended>>

Init ==
    /\ clock = 0 /\ up = FALSE /\ ready = FALSE /\ suspended = FALSE /\ log = <<>>
    /\ disk \in [script : Scripts, enabled : BOOLEAN, override : {FALSE}, handled : {<<>>}]
    /\ engine = Memory(disk)

Next ==
    \/ Boot \/ Crash \/ Tick \/ Pulse \/ Start \/ State \/ Fails \/ Accepted \/ Take \/ Refused
    \/ Ready \/ Unready \/ Manual \/ Resume \/ LongTimer
    \/ \E v \in Values, a \in Alerts : Status(v, a)
    \/ \E s \in Scripts, b \in BOOLEAN : Save(s, b)

Spec == Init /\ [][Next]_vars

-----------------------------------------------------------------------------
TypeOK ==
    /\ clock \in 0..MaxClock /\ up \in BOOLEAN /\ ready \in BOOLEAN /\ suspended \in BOOLEAN
    /\ engine.script \in Scripts \cup {None} /\ engine.minute \in (0..MaxClock) \cup {None}
    /\ engine.digest \in Alerts /\ engine.told \in Alerts
    /\ engine.status \in Values \cup {None} /\ engine.queued \in Order \cup {None}
    /\ engine.failing \in 0..MaxFailing /\ Handled(engine) \subseteq Key
    /\ \A b \in {"dead", "connected", "flying", "awaiting", "enabled", "override"} :
          engine[b] \in BOOLEAN

(* An occurrence of a plan that the server took is not handed over again:  *)
(* not by a later event or pulse, not after a crash or a restart, not      *)
(* because another script was loaded, unless more than HandledMax others   *)
(* were taken since; only a resume asks for the plan in force once more    *)
(* (docs/LUA_AUTOMATION.md, "Ein Termin wird dauerhaft als behandelt       *)
(* gespeichert"; automation.cpp:775, 889, 914-920).                        *)
HandedOverOnce ==
    \A i, j \in 1..Len(log) : i < j /\ log[i] = log[j] => j - i > HandledMax

(* After every status a script that runs and is not suspended was told the *)
(* alarms of this status: those the script before it was told of as well,  *)
(* and those that came or went while the override kept events away         *)
(* (automation.cpp:674, 800, 850-853).                                     *)
AlarmsAreTold ==
    [][Alive(engine') /\ ~engine'.override
         => \A v \in Values, a \in Alerts :
               engine'.status = v /\ engine'.told # a => ~Status(v, a)]_vars

\* A new automated order is in the queue.
NewOrder == engine'.queued \notin {None, engine.queued}

(* After a Lua error there is no order until a script is loaded again      *)
(* (docs/LUA_AUTOMATION.md, "werden weitere Ereignisse und Zeitplaene bis  *)
(* zum erfolgreichen Neuladen blockiert"), and while the users have        *)
(* suspended the automation there is none but the long press of the timer. *)
SilentWhenDeadOrSuspended ==
    [][NewOrder => /\ engine.dead => \E s \in Scripts : Save(s, TRUE)
                   /\ suspended' => engine'.queued.source = "long_timer"]_vars

(* The first pulse of a minute settles the plan of that minute: when the   *)
(* device is ready, no order is under way and the script orders nothing in *)
(* its time event, the latest due plan is handled after it, however long   *)
(* it was refused before (docs/LUA_AUTOMATION.md, "prueft der naechste     *)
(* Minutenimpuls den Termin erneut").                                      *)
PulseSettlesPlan ==
    [][engine.minute # clock /\ engine.connected /\ ready /\ ~engine.override /\ ~Busy(engine)
         /\ Alive(engine) /\ "time" \notin DOMAIN engine.script.orders /\ Pulse /\ Alive(engine')
         => LET p == InForce[engine.script][clock]
            IN  p # None => p.key \in Handled(engine')]_vars

(* The plan in force is followed after a resume: its order is in the queue,*)
(* or the device is as it says, or the next pulse tries again: what        *)
(* docs/LUA_AUTOMATION.md and the message of server.cpp:722 promise of a   *)
(* plan that is refused.                                                   *)
(* The code does not keep this; see README.md.                             *)
ResumeFollowsPlan ==
    [][Resume /\ engine.override /\ engine.status # None /\ engine.connected /\ Alive(engine')
         => LET p == InForce[engine.script][clock]
            IN  p # None => \/ engine'.queued # None /\ engine'.queued.key = p.key
                            \/ engine.status = p.values
                            \/ p.key \notin Handled(engine')]_vars
=============================================================================
