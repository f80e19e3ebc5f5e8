------------------------------ MODULE MCServer ------------------------------
(***************************************************************************)
(* The parts of the server that share nothing, side by side: the engine of *)
(* the automation, its plans, its alarm event, its files, the status log,  *)
(* the connections.  A behaviour is one of one part, chosen at the         *)
(* beginning; the others stay as they are initially.                       *)
(***************************************************************************)
EXTENDS AutomationEngine, ScheduleTable, AlarmEvents, ScriptStore, StatusLog

CONSTANTS
    day, night      \* the control values of two plans

VARIABLES
    part,                   \* the part that runs
    clients, told, actor    \* the connections

clientsVars == <<clients, told, actor>>

-----------------------------------------------------------------------------
(* The engine.  Two plans a day and no events; one plan, a rule on alarms  *)
(* and the long press, and a mistake in an event.                          *)

Daily(name, minute, values) ==
    [name |-> name, phase |-> "once", minute |-> minute, days |-> Days, values |-> values,
     catchUp |-> TRUE]

Planner == [plans |-> {Daily("a", 0, day), Daily("b", 1, night)},
            orders |-> [t \in {} |-> day], raises |-> {}]
Ruler   == [plans |-> {Daily("a", 0, day)},
            orders |-> [t \in {"alarm", "long_timer"} |-> night], raises |-> {"command"}]

MCScripts == {Planner, Ruler}
MCNames   == {"a", "b"}

-----------------------------------------------------------------------------
(* The plans: a week of days of three minutes.  Well-formed calls: one     *)
(* moment or a range, every day or one day a week, with and without        *)
(* catch_up; and calls the program refuses.                                *)

GoodCalls ==
    LET days  == {None, {7}}
        catch == {None, FALSE}
    IN  [name : MCNames, at : 0..2, between : {None}, days : days, catchUp : catch,
         set : {day}, outside : {None}]
        \cup [name : MCNames, at : {None}, between : (0..2) \X (0..2), days : days,
              catchUp : catch, set : {day}, outside : {night}]

BadCalls ==
    LET good == [name |-> "a", at |-> 0, between |-> None, days |-> None, catchUp |-> None,
                 set |-> day, outside |-> None]
    IN  {[good EXCEPT !.name = Bad], [good EXCEPT !.at = Bad], [good EXCEPT !.at = None],
         [good EXCEPT !.between = <<0, 1>>], [good EXCEPT !.days = {}], [good EXCEPT !.days = {0}],
         [good EXCEPT !.days = Bad], [good EXCEPT !.catchUp = Bad], [good EXCEPT !.set = None],
         [good EXCEPT !.outside = night]}

Calls == GoodCalls \cup BadCalls

\* Codes at and next to every boundary.
Codes ==
    [modelid |-> {"", "AC2729"}, type |-> {"AC2729", "other"}, pwr |-> {"0", "1"},
     func |-> {"P", "PH"}, fltsts1 |-> {Missing, -1, 0, 1, 120, 121}, fltsts2 |-> {0, 120},
     wicksts |-> {121}, fltsts0 |-> {Missing, 0, 1}, wl |-> {Missing, 0, 1},
     err |-> {Missing, 49408, 49153, 49155, 49236}]

\* A log of two servers; one of one server and everything that may go wrong.
LogSettings ==
    {[servers |-> {"p1", "p2"}, faults |-> {}],
     [servers |-> {"p1"}, faults |-> {"truncate", "full", "crash"}]}

\* Two clients, output for four messages, two lines in a read.
Clients == INSTANCE ClientLink WITH
    MaxClients <- 2, MaxOutput <- 4, MaxLines <- 2, server <- clients

ASSUME PartsAssumption == Clients!ClientAssumption

-----------------------------------------------------------------------------
Parts == {"engine", "plans", "alarm", "store", "log", "clients"}

ServerInit ==
    /\ part \in Parts
    /\ Init /\ TableInit /\ AlarmInit /\ StoreInit /\ LogInit /\ Clients!Init
    \* One state where what is installed and who has the log does not matter.
    /\ part # "engine" => disk.script = Planner /\ disk.enabled
    /\ part # "log" => setting.faults = {}

\* Every part but the one chosen is left alone.
Only(chosen) ==
    /\ part = chosen /\ UNCHANGED part
    /\ IF chosen = "engine"     THEN TRUE ELSE UNCHANGED vars
    /\ IF chosen = "plans"      THEN TRUE ELSE UNCHANGED tableVars
    /\ IF chosen = "alarm"      THEN TRUE ELSE UNCHANGED alarmVars
    /\ IF chosen = "store"      THEN TRUE ELSE UNCHANGED storeVars
    /\ IF chosen = "log"        THEN TRUE ELSE UNCHANGED logVars
    /\ IF chosen = "clients"    THEN TRUE ELSE UNCHANGED clientsVars

ServerNext ==
    \/ Only("engine")     /\ Next
    \/ Only("plans")      /\ TableNext
    \/ Only("alarm")      /\ AlarmNext
    \/ Only("store")      /\ StoreNext
    \/ Only("log")        /\ LogNext
    \/ Only("clients")    /\ Clients!Next

serverVars == <<part, vars, tableVars, alarmVars, storeVars, logVars, clientsVars>>

ServerSpec == ServerInit /\ [][ServerNext]_serverVars

-----------------------------------------------------------------------------
\* The edit lock has one holder, who is connected, whom all know and who alone
\* gives it back (readClient, closeClient, broadcast).
LockHasItsHolder == Clients!LockHasItsHolder
=============================================================================
