----------------------------- MODULE Schedules -----------------------------
(***************************************************************************)
(* The time plans of the Lua automation, as operators without state        *)
(* (src/src/server/automation.cpp): what airctrl.schedule accepts and      *)
(* stores (luaSchedule), when a plan was last due (occurrenceFor) and      *)
(* which due plan the engine follows (evaluateSchedules).                  *)
(*                                                                         *)
(* Time is a number of minutes since some Monday 00:00.  Every day has     *)
(* DayLength minutes: the changes of daylight saving are left out.         *)
(***************************************************************************)
EXTENDS Naturals, FiniteSets

CONSTANTS
    DayLength,      \* minutes of a day; 24 * 60 in the program
    WeekDays,       \* days of a week; 7 in the program
    MaxNames,       \* plans a script may have; 64 in the program
    Names,          \* well-formed names
    Values,         \* tables of control values the server accepts
    None,           \* a field that is missing
    Bad             \* a field that is malformed

ASSUME CalendarAssumption == DayLength \in Nat \ {0} /\ WeekDays \in Nat \ {0} /\ MaxNames \in Nat

Minutes == 0..(DayLength - 1)
Days    == 1..WeekDays
Phases  == {"once", "Beginn", "Ende"}

Schedule == [name : Names, phase : Phases, minute : Minutes, days : SUBSET Days,
             values : Values, catchUp : BOOLEAN]

ASSUME NoneAssumption ==
    /\ None \notin Names \cup Values \cup Nat /\ Bad \notin Names \cup Values \cup Nat
    /\ None # Bad /\ None \notin Schedule

\* The days on which a range that begins on one of D ends: the next day when
\* it runs over midnight.
EndDays(D, from, to) ==
    IF to < from THEN {IF d = WeekDays THEN 1 ELSE d + 1 : d \in D} ELSE D

DaysOf(r)    == IF r.days = None THEN Days ELSE r.days
CatchUpOf(r) == IF r.catchUp = None THEN TRUE ELSE r.catchUp

\* The plans one call of airctrl.schedule adds: one for at, two for between.
Additions(r) ==
    LET plan(phase, minute, D, values) ==
            [name |-> r.name, phase |-> phase, minute |-> minute, days |-> D,
             values |-> values, catchUp |-> CatchUpOf(r)]
    IN  IF r.at # None
        THEN {plan("once", r.at, DaysOf(r), r.set)}
        ELSE LET from == r.between[1]
                 to   == r.between[2]
             IN  {plan("Beginn", from, DaysOf(r), r.set),
                  plan("Ende", to, EndDays(DaysOf(r), from, to), r.outside)}

Conflict(s, t) == s.minute = t.minute /\ s.days \cap t.days # {}

WellFormed(r) ==
    /\ r.name \in Names
    /\ (r.at = None) # (r.between = None)
    /\ r.at # Bad /\ r.between # Bad
    /\ r.days # Bad /\ DaysOf(r) # {} /\ DaysOf(r) \subseteq Days
    /\ r.catchUp # Bad
    /\ r.set \in Values
    /\ r.at # None => r.outside = None
    /\ r.between # None => r.outside \in Values /\ r.between[1] # r.between[2]

\* MUTANT: a range's end is compared on the days of its beginning.
AcceptsByFirstDay(table, r) ==
    /\ WellFormed(r)
    /\ Cardinality({s.name : s \in table}) < MaxNames
    /\ \A s \in table : s.name # r.name
    /\ \A s \in table, t \in Additions(r) : ~Conflict(s, [t EXCEPT !.days = DaysOf(r)])

\* The checks of luaSchedule; a call that fails one of them raises a Lua error
\* and leaves the table as it was.
Accepts(table, r) ==
    /\ WellFormed(r)
    /\ Cardinality({s.name : s \in table}) < MaxNames
    /\ \A s \in table : s.name # r.name
    /\ \A s \in table, t \in Additions(r) : ~Conflict(s, t)

Register(table, r) == IF Accepts(table, r) THEN table \cup Additions(r) ELSE table

-----------------------------------------------------------------------------
DayOf(t)     == t \div DayLength
WeekdayOf(t) == 1 + (DayOf(t) % WeekDays)

\* MUTANT: the same day of last week is not reached.
LookBackSixDays == 0..(WeekDays - 1)

\* How many days occurrenceFor looks back.
LookBack == 0..WeekDays

\* The moments of plan s up to now, of the last week.
Moments(s, now) ==
    {t \in {(DayOf(now) - back) * DayLength + s.minute : back \in {b \in LookBack : b <= DayOf(now)}} :
        t <= now /\ WeekdayOf(t) \in s.days}

\* The newest of them, None when there is none.  Without catch_up it counts
\* only in the very minute.
Occurrence(s, now) ==
    LET newest == CHOOSE t \in Moments(s, now) : \A u \in Moments(s, now) : u <= t
    IN  IF Moments(s, now) = {} \/ (~s.catchUp /\ newest # now) THEN None ELSE newest

\* The plans that are due, and the one the engine follows: the latest.
Due(table, now) == {s \in table : Occurrence(s, now) # None}
Selected(table, now) ==
    IF Due(table, now) = {} THEN None
    ELSE CHOOSE s \in Due(table, now) :
            \A t \in Due(table, now) : Occurrence(t, now) <= Occurrence(s, now)
=============================================================================
