--------------------------- MODULE ScheduleTable ---------------------------
(***************************************************************************)
(* The plans a script registers while it runs: AutomationEngine::schedules_*)
(* (src/src/server/automation.cpp), filled by airctrl.schedule, emptied    *)
(* when the script is loaded again.  A script may catch the error of a     *)
(* refused call and go on; the table must be consistent all the same.      *)
(***************************************************************************)
EXTENDS Schedules

CONSTANT Requests   \* the calls of airctrl.schedule the script may make

\* Times are read before anything else is done with them.
ASSUME RequestsAssumption ==
    \A r \in Requests :
        /\ r.at \in Minutes \cup {None, Bad}
        /\ r.between \in (Minutes \X Minutes) \cup {None, Bad}
        /\ r.catchUp \in BOOLEAN \cup {None, Bad}

VARIABLES
    table,      \* schedules_
    accepted    \* history: the calls that were not refused

tableVars == <<table, accepted>>

TableInit == table = {} /\ accepted = {}

\* luaSchedule: both plans of a range are stored, or none is.
LuaSchedule(r) ==
    /\ Accepts(table, r)
    /\ table' = Register(table, r)
    /\ accepted' = accepted \cup {r}

\* closeState, at the beginning of every load.
CloseState ==
    /\ table # {}
    /\ table' = {} /\ accepted' = {}

TableNext == CloseState \/ \E r \in Requests : LuaSchedule(r)

TableSpec == TableInit /\ [][TableNext]_tableVars

-----------------------------------------------------------------------------
(* Every entry is a plan that can be due, and there are at most MaxNames   *)
(* names: what the limit of 64 plans in luaSchedule counts.                *)
TableTypeOK ==
    /\ \A s \in table :
          /\ s.name \in Names /\ s.phase \in Phases /\ s.values \in Values
          /\ s.minute \in 0..(DayLength - 1) /\ s.days # {} /\ s.days \subseteq Days
    /\ Cardinality({s.name : s \in table}) <= MaxNames

\* The moments the properties look at: those of the second week.
Horizon == (WeekDays * DayLength)..(2 * WeekDays * DayLength - 1)

(* No two plans are due at the same moment, ranges that end on the         *)
(* following day included.  evaluateSchedules follows the latest due plan  *)
(* and has no rule for two equally late ones (automation.cpp:904-913).     *)
OneAtATime ==
    \A now \in Horizon : \A s, t \in table :
        now \in Moments(s, now) /\ now \in Moments(t, now) => s = t

\* now lies in the range of r that began on day k, one of its days.
InRangeOf(r, k, now) ==
    LET start == k * DayLength + r.between[1]
        last  == (IF r.between[2] < r.between[1] THEN k + 1 ELSE k) * DayLength + r.between[2]
    IN  1 + (k % WeekDays) \in DaysOf(r) /\ start <= now /\ now < last

(* A range, alone with itself, is followed at every moment of the week:    *)
(* the engine selects its beginning while the moment lies in the range of  *)
(* one of its days, its end otherwise, over midnight and over the week's   *)
(* end too; with one day a week the last end is up to seven days old       *)
(* (docs/LUA_AUTOMATION.md, "Tag und Nacht"; automation.cpp:628-634 and    *)
(* 868-886).                                                               *)
RangeIsFollowed ==
    \A r \in {q \in accepted : q.between # None /\ CatchUpOf(q)} :
        \A now \in Horizon :
            LET s == Selected({p \in table : p.name = r.name}, now)
            IN  /\ s # None
                /\ s.phase = "Beginn" <=> \E k \in 0..DayOf(now) : InRangeOf(r, k, now)

(* Without catch_up a plan is due in its own minute and in no other, never *)
(* before and never late (automation.cpp:880-882).                         *)
OnlyInItsMinute ==
    \A s \in {p \in table : ~p.catchUp} : \A now \in Horizon :
        Occurrence(s, now) # None <=> WeekdayOf(now) \in s.days /\ now % DayLength = s.minute

(* A plan is due when it says and not otherwise, at the edges of the day,  *)
(* the week and the range too.                                             *)
DueWhenPlanned == RangeIsFollowed /\ OnlyInItsMinute
=============================================================================
