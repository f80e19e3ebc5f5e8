---------------------- MODULE AutomationEngine_proofs ----------------------
(***************************************************************************)
(* Proofs about AutomationEngine, for every set of scripts and plans, any  *)
(* calendar and any number of occurrences remembered.                      *)
(*                                                                         *)
(* The engine is a record and a handler a chain of operators on it.  What  *)
(* each operator does to the engine is a lemma, and a handler's is put     *)
(* together from those of the operators it calls.                          *)
(***************************************************************************)
EXTENDS AutomationEngine, ScheduleTable, TLAPS, WellFoundedInduction, FiniteSetTheorems

-----------------------------------------------------------------------------
(* When a plan was last due.  A set of numbers up to a bound has a newest. *)

LEMMA Newest ==
  ASSUME NEW now \in Nat, NEW S, S # {}, \A t \in S : t \in Nat /\ t <= now
  PROVE  \E t \in S : \A u \in S : u <= t
<1>1. PICK T : T = {now - t : t \in S}
  OBVIOUS
<1>2. T \subseteq Nat /\ T # {}
  BY <1>1
<1>3. PICK x \in T : \A y \in T : ~ (<<y, x>> \in OpToRel(<, Nat))
  BY <1>2, NatLessThanWellFounded, WFMin
<1>4. \A y \in T : x <= y
  <2>1. OpToRel(<, Nat) = {p \in Nat \X Nat : p[1] < p[2]}
    BY DEF OpToRel
  <2>2. TAKE y \in T
  <2>3. <<y, x>> \notin {p \in Nat \X Nat : p[1] < p[2]}
    BY <1>3, <2>1
  <2>4. QED BY <1>2, <2>3
<1>5. PICK t \in S : x = now - t
  BY <1>1
<1>6. \A u \in S : u <= t
  <2>1. TAKE u \in S
  <2>2. now - t <= now - u BY <1>1, <1>4, <1>5
  <2>3. QED BY <2>2
<1>7. QED BY <1>6

LEMMA MomentFacts ==
  ASSUME NEW s \in Schedule, NEW now \in Nat
  PROVE  \A t \in Moments(s, now) : t \in Nat /\ t <= now
<1>1. DayOf(now) \in Nat
  BY CalendarAssumption DEF DayOf
<1>2. s.minute \in Nat
  BY CalendarAssumption DEF Schedule, Minutes
<1>3. TAKE t \in Moments(s, now)
<1>4. t <= now
  BY DEF Moments
<1>5. PICK back \in LookBack : back <= DayOf(now) /\ t = (DayOf(now) - back) * DayLength + s.minute
  BY DEF Moments
<1>6. back \in Nat
  BY CalendarAssumption DEF LookBack
<1>7. PICK d \in Nat : d = DayOf(now) - back
  BY <1>1, <1>5, <1>6
<1>8. d * DayLength \in Nat
  BY CalendarAssumption
<1>9. t \in Nat
  BY <1>2, <1>5, <1>7, <1>8
<1>10. QED BY <1>4, <1>9

\* occurrenceFor finds the newest moment of the plan, if there is one that counts.
LEMMA OccurrenceFacts ==
  ASSUME NEW s \in Schedule, NEW now \in Nat, Occurrence(s, now) # None
  PROVE  /\ Occurrence(s, now) \in Moments(s, now)
         /\ Occurrence(s, now) \in Nat /\ Occurrence(s, now) <= now
         /\ \A u \in Moments(s, now) : u <= Occurrence(s, now)
<1>1. Moments(s, now) # {}
  BY DEF Occurrence
<1>2. \E t \in Moments(s, now) : \A u \in Moments(s, now) : u <= t
  BY <1>1, MomentFacts, Newest
<1>3. PICK newest : newest = CHOOSE t \in Moments(s, now) : \A u \in Moments(s, now) : u <= t
  OBVIOUS
<1>4. newest \in Moments(s, now) /\ \A u \in Moments(s, now) : u <= newest
  BY <1>2, <1>3
<1>5. Occurrence(s, now) = newest
  BY <1>3 DEF Occurrence
<1>6. QED BY <1>4, <1>5, MomentFacts

\* Of the plans that are due there is a latest.
LEMMA SelectedFacts ==
  ASSUME NEW plans, plans \subseteq Schedule, NEW now \in Nat, Selected(plans, now) # None
  PROVE  /\ Selected(plans, now) \in plans /\ Occurrence(Selected(plans, now), now) # None
         /\ \A t \in plans : Occurrence(t, now) # None =>
                Occurrence(t, now) <= Occurrence(Selected(plans, now), now)
<1>1. Due(plans, now) # {}
  BY DEF Selected
<1>2. PICK S : S = {Occurrence(t, now) : t \in Due(plans, now)}
  OBVIOUS
<1>3. S # {} /\ \A u \in S : u \in Nat /\ u <= now
  BY <1>1, <1>2, OccurrenceFacts DEF Due
<1>4. PICK t \in Due(plans, now) : \A u \in S : u <= Occurrence(t, now)
  <2>1. PICK m \in S : \A u \in S : u <= m
    BY <1>3, Newest
  <2>2. QED BY <1>2, <2>1
<1>5. \A u \in Due(plans, now) : Occurrence(u, now) <= Occurrence(t, now)
  BY <1>2, <1>4
<1>6. PICK s : s = CHOOSE x \in Due(plans, now) :
                      \A u \in Due(plans, now) : Occurrence(u, now) <= Occurrence(x, now)
  OBVIOUS
<1>7. s \in Due(plans, now) /\ \A u \in Due(plans, now) : Occurrence(u, now) <= Occurrence(s, now)
  BY <1>5, <1>6
<1>8. Selected(plans, now) = s
  BY <1>1, <1>6 DEF Selected
<1>9. QED BY <1>7, <1>8 DEF Due

-----------------------------------------------------------------------------
(* Two plans of one table. *)

\* No two plans share a minute and a day.
Apart(plans) == \A s, t \in plans : Conflict(s, t) => s = t

(* What airctrl.schedule accepts leaves the plans apart, the two of one    *)
(* range from each other too; a refused call changes nothing               *)
(* (luaSchedule).                                                          *)
THEOREM PlansStayApart ==
  ASSUME NEW plans, Apart(plans), NEW r
  PROVE  Apart(Register(plans, r))
<1>1. CASE ~Accepts(plans, r)
  BY <1>1 DEF Register
<1>2. CASE Accepts(plans, r)
  <2>1. Register(plans, r) = plans \cup Additions(r)
    BY <1>2 DEF Register
  <2>2. ASSUME NEW s \in plans, NEW t \in Additions(r) PROVE ~Conflict(s, t) /\ ~Conflict(t, s)
    <3>1. ~Conflict(s, t)
      BY <1>2 DEF Accepts
    <3>2. QED BY <3>1 DEF Conflict
  <2>3. ASSUME NEW s \in Additions(r), NEW t \in Additions(r), Conflict(s, t) PROVE s = t
    <3>1. CASE r.at # None
      BY <3>1 DEF Additions
    <3>2. CASE r.at = None
      <4>1. r.between[1] # r.between[2]
        BY <1>2, <3>2 DEF Accepts, WellFormed
      <4>2. PICK b, e : /\ Additions(r) = {b, e}
                        /\ b.minute = r.between[1] /\ e.minute = r.between[2]
        <5>1. DEFINE plan(phase, minute, D, values) ==
                        [name |-> r.name, phase |-> phase, minute |-> minute, days |-> D,
                         values |-> values, catchUp |-> CatchUpOf(r)]
                     begin == plan("Beginn", r.between[1], DaysOf(r), r.set)
                     end == plan("Ende", r.between[2],
                                 EndDays(DaysOf(r), r.between[1], r.between[2]), r.outside)
        <5>2. Additions(r) = {begin, end}
          BY <3>2, Zenon DEF Additions
        <5>3. begin.minute = r.between[1] /\ end.minute = r.between[2]
          OBVIOUS
        <5>4. HIDE DEF begin, end
        <5>5. QED BY <5>2, <5>3
      <4>3. QED BY <2>3, <4>1, <4>2 DEF Conflict
    <3>3. QED BY <3>1, <3>2
  <2>4. QED BY <2>1, <2>2, <2>3 DEF Apart
<1>3. QED BY <1>1, <1>2

\* A moment of a plan is in its minute, on one of its days.
LEMMA MinuteOfMoment ==
  ASSUME NEW s \in Schedule, NEW now \in Nat, NEW x \in Moments(s, now)
  PROVE  x \in Nat /\ WeekdayOf(x) \in s.days
         /\ \E d \in Nat : x = d * DayLength + s.minute
<1>1. x \in Nat /\ WeekdayOf(x) \in s.days
  BY MomentFacts DEF Moments
<1>2. PICK back \in LookBack : back <= DayOf(now) /\ x = (DayOf(now) - back) * DayLength + s.minute
  BY DEF Moments
<1>3. DayOf(now) \in Nat /\ back \in Nat
  BY CalendarAssumption DEF DayOf, LookBack
<1>4. DayOf(now) - back \in Nat
  BY <1>2, <1>3
<1>5. QED BY <1>1, <1>2, <1>4

LEMMA OneMinute ==
  ASSUME NEW L \in Nat, NEW d \in Nat, NEW e \in Nat, NEW m \in 0..(L - 1), NEW n \in 0..(L - 1),
         d * L + m = e * L + n
  PROVE  m = n
<1>1. ASSUME NEW i \in Nat, NEW j \in Nat, NEW a \in 0..(L - 1), NEW b \in 0..(L - 1),
             i * L + a = j * L + b, i < j
      PROVE  FALSE
  <2>1. PICK k \in Nat : j = i + 1 + k
    <3>1. j - i - 1 \in Nat /\ j = i + 1 + (j - i - 1)
      BY <1>1
    <3>2. QED BY <3>1
  <2>2. j * L = i * L + L + k * L
    BY <2>1
  <2>3. k * L \in Nat /\ i * L \in Nat
    OBVIOUS
  <2>4. QED BY <1>1, <2>2, <2>3
<1>2. ~(d < e) /\ ~(e < d)
  BY <1>1
<1>3. d = e
  BY <1>2
<1>4. QED BY <1>3

(* No two plans of a script were last due at the same moment: the latest   *)
(* one, which evaluateSchedules follows, is one plan, on every calendar,   *)
(* over midnight and the end of the week too.                              *)
THEOREM LatestPlanIsOne ==
  ASSUME NEW plans, plans \subseteq Schedule, Apart(plans), NEW now \in Nat,
         NEW s \in Due(plans, now), NEW t \in Due(plans, now),
         Occurrence(s, now) = Occurrence(t, now)
  PROVE  s = t
<1>1. s \in plans /\ t \in plans /\ s \in Schedule /\ t \in Schedule
  BY DEF Due
<1>2. PICK x : x = Occurrence(s, now)
  OBVIOUS
<1>3. x \in Moments(s, now) /\ x \in Moments(t, now)
  BY <1>1, <1>2, OccurrenceFacts DEF Due
<1>4. WeekdayOf(x) \in s.days \cap t.days
  BY <1>1, <1>3, MinuteOfMoment
<1>5. s.minute = t.minute
  <2>1. PICK d \in Nat : x = d * DayLength + s.minute
    BY <1>1, <1>3, MinuteOfMoment
  <2>2. PICK e \in Nat : x = e * DayLength + t.minute
    BY <1>1, <1>3, MinuteOfMoment
  <2>3. s.minute \in 0..(DayLength - 1) /\ t.minute \in 0..(DayLength - 1)
    BY <1>1 DEF Schedule, Minutes
  <2>4. QED BY <2>1, <2>2, <2>3, CalendarAssumption, OneMinute
<1>6. QED BY <1>1, <1>4, <1>5 DEF Apart, Conflict

LEMMA ClockFacts == \A now \in 0..MaxClock : now \in Nat
  BY HandledAssumption

LEMMA InForceFacts ==
  ASSUME NEW s \in Scripts, NEW now \in 0..MaxClock, InForce[s][now] # None
  PROVE  InForce[s][now].values \in Values /\ InForce[s][now].key \in Key
<1>1. PICK p : p = Selected(s.plans, now)
  OBVIOUS
<1>2. InForce[s][now] = IF p = None THEN None
                        ELSE [values |-> p.values, key |-> <<p.name, Occurrence(p, now)>>]
  BY <1>1 DEF InForce
<1>3. p # None /\ InForce[s][now] = [values |-> p.values, key |-> <<p.name, Occurrence(p, now)>>]
  BY <1>2
<1>4. s.plans \subseteq Schedule
  BY ScriptsAssumption
<1>5. p \in Schedule /\ Occurrence(p, now) # None
  BY <1>1, <1>3, <1>4, SelectedFacts, ClockFacts
<1>6. Occurrence(p, now) \in 0..MaxClock
  <2>1. Occurrence(p, now) \in Nat /\ Occurrence(p, now) <= now
    BY <1>5, OccurrenceFacts, ClockFacts
  <2>2. QED BY <2>1, HandledAssumption
<1>7. p.values \in Values /\ p.name \in Names
  BY <1>5 DEF Schedule
<1>8. QED BY <1>3, <1>6, <1>7 DEF Key

-----------------------------------------------------------------------------
(* The memory of the occurrences handled: the last of the log. *)

\* actionAccepted on the list.
Remember(h, key) ==
    LET longer == Append(h, key) IN IF Len(longer) > HandledMax THEN Tail(longer) ELSE longer

\* h is the end of the list l, HandledMax long if l is.
IsMemoryOf(h, l) ==
    /\ Len(h) = IF Len(l) <= HandledMax THEN Len(l) ELSE HandledMax
    /\ \A i \in 1..Len(h) : h[i] = l[(Len(l) - Len(h)) + i]

Members(h) == {h[i] : i \in 1..Len(h)}

SeldomTwice(l) == \A i, j \in 1..Len(l) : i < j /\ l[i] = l[j] => j - i > HandledMax

LEMMA RememberFacts ==
  ASSUME NEW h \in Seq(Key), NEW key \in Key
  PROVE  /\ Remember(h, key) \in Seq(Key)
         /\ Len(Remember(h, key)) = IF Len(h) + 1 > HandledMax THEN Len(h) ELSE Len(h) + 1
         /\ Len(Remember(h, key)) > 0
         /\ Remember(h, key)[Len(Remember(h, key))] = key
         /\ \A i \in 1..Len(Remember(h, key)) : i < Len(Remember(h, key)) =>
               Remember(h, key)[i] = IF Len(h) + 1 > HandledMax THEN h[i + 1] ELSE h[i]
<1>1. PICK longer : longer = Append(h, key)
  OBVIOUS
<1>2. /\ longer \in Seq(Key) /\ longer # <<>> /\ Len(h) \in Nat /\ Len(longer) = Len(h) + 1
      /\ longer[Len(h) + 1] = key /\ \A i \in 1..Len(h) : longer[i] = h[i]
  BY <1>1
<1>3. /\ Tail(longer) \in Seq(Key) /\ Len(Tail(longer)) = Len(h)
      /\ \A i \in 1..Len(h) : Tail(longer)[i] = longer[i + 1]
  BY <1>2
<1>4. CASE Len(h) + 1 > HandledMax
  <2>1. Remember(h, key) = Tail(longer) /\ Len(h) > 0
    BY <1>1, <1>2, <1>4, HandledAssumption DEF Remember
  <2>2. Tail(longer)[Len(h)] = key
    BY <1>2, <1>3, <2>1
  <2>3. \A i \in 1..Len(h) : i < Len(h) => Tail(longer)[i] = h[i + 1]
    BY <1>2, <1>3
  <2>4. QED BY <1>2, <1>3, <1>4, <2>1, <2>2, <2>3
<1>5. CASE ~(Len(h) + 1 > HandledMax)
  <2>1. Remember(h, key) = longer
    BY <1>1, <1>2, <1>5 DEF Remember
  <2>2. QED BY <1>2, <1>5, <2>1
<1>6. QED BY <1>4, <1>5

LEMMA RememberMembers ==
  ASSUME NEW h \in Seq(Key), NEW key \in Key, key \notin Members(h)
  PROVE  key \in Members(Remember(h, key)) /\ Remember(h, key) # h
<1>1. /\ Remember(h, key) \in Seq(Key) /\ Len(Remember(h, key)) > 0
      /\ Remember(h, key)[Len(Remember(h, key))] = key
  BY RememberFacts
<1>2. Len(Remember(h, key)) \in 1..Len(Remember(h, key))
  BY <1>1
<1>3. key \in Members(Remember(h, key))
  BY <1>1, <1>2 DEF Members
<1>4. QED BY <1>3

\* An occurrence that the memory does not have is seldom one that was handled.
LEMMA MemoryGrows ==
  ASSUME NEW h \in Seq(Key), NEW l \in Seq(Key), NEW key \in Key, key \notin Members(h),
         IsMemoryOf(h, l), SeldomTwice(l)
  PROVE  IsMemoryOf(Remember(h, key), Append(l, key)) /\ SeldomTwice(Append(l, key))
<1>1. PICK m : m = Remember(h, key) OBVIOUS
<1>2. PICK k : k = Append(l, key) OBVIOUS
<1>3. /\ Len(h) \in Nat /\ Len(l) \in Nat /\ HandledMax \in Nat /\ HandledMax > 0
      /\ k \in Seq(Key) /\ Len(k) = Len(l) + 1
      /\ k[Len(l) + 1] = key /\ \A i \in 1..Len(l) : k[i] = l[i]
  BY <1>2, HandledAssumption
<1>4. /\ Len(m) = IF Len(h) + 1 > HandledMax THEN Len(h) ELSE Len(h) + 1
      /\ Len(m) > 0 /\ m[Len(m)] = key /\ Len(m) \in Nat
      /\ \A i \in 1..Len(m) : i < Len(m) =>
            m[i] = IF Len(h) + 1 > HandledMax THEN h[i + 1] ELSE h[i]
  <2>1. m \in Seq(Key) BY <1>1, RememberFacts
  <2>2. Len(m) \in Nat BY <2>1
  <2>3. QED BY <1>1, <2>2, RememberFacts, Zenon
<1>5. /\ Len(h) = IF Len(l) <= HandledMax THEN Len(l) ELSE HandledMax
      /\ \A i \in 1..Len(h) : h[i] = l[(Len(l) - Len(h)) + i]
  BY DEF IsMemoryOf
<1>6. Len(m) = IF Len(k) <= HandledMax THEN Len(k) ELSE HandledMax
  BY <1>3, <1>4, <1>5
<1>7. ASSUME NEW i \in 1..Len(m) PROVE m[i] = k[(Len(k) - Len(m)) + i]
  <2>1. CASE i = Len(m)
    BY <1>3, <1>4, <2>1
  <2>2. CASE i < Len(m) /\ Len(h) + 1 > HandledMax
    <3>1. i + 1 \in 1..Len(h) /\ Len(m) = Len(h) BY <1>3, <1>4, <2>2
    <3>2. m[i] = l[(Len(l) - Len(h)) + (i + 1)] BY <1>4, <1>5, <2>2, <3>1
    <3>3. (Len(l) - Len(h)) + (i + 1) \in 1..Len(l) /\ (Len(l) - Len(h)) + (i + 1) = (Len(k) - Len(m)) + i
      BY <1>3, <1>5, <3>1
    <3>4. QED BY <1>3, <3>2, <3>3
  <2>3. CASE i < Len(m) /\ ~(Len(h) + 1 > HandledMax)
    <3>1. i \in 1..Len(h) /\ Len(m) = Len(h) + 1 BY <1>3, <1>4, <2>3
    <3>2. m[i] = l[(Len(l) - Len(h)) + i] BY <1>4, <1>5, <2>3, <3>1
    <3>3. (Len(l) - Len(h)) + i \in 1..Len(l) /\ (Len(l) - Len(h)) + i = (Len(k) - Len(m)) + i
      BY <1>3, <1>5, <3>1
    <3>4. QED BY <1>3, <3>2, <3>3
  <2>4. i = Len(m) \/ i < Len(m) BY <1>4, <1>7
  <2>5. QED BY <2>1, <2>2, <2>3, <2>4
<1>8. ASSUME NEW i \in 1..Len(k), NEW j \in 1..Len(k), i < j, k[i] = k[j]
      PROVE  j - i > HandledMax
  <2>1. i \in 1..Len(l) /\ k[i] = l[i] BY <1>3, <1>8
  <2>2. CASE j \in 1..Len(l)
    BY <1>3, <1>8, <2>1, <2>2 DEF SeldomTwice
  <2>3. CASE j = Len(l) + 1
    <3>1. l[i] = key BY <1>3, <1>8, <2>1, <2>3
    <3>2. ASSUME i > Len(l) - Len(h) PROVE FALSE
      <4>0. i - (Len(l) - Len(h)) \in 1..Len(h)
        BY <1>3, <1>5, <2>1, <3>2
      <4>1. PICK n \in 1..Len(h) : i = (Len(l) - Len(h)) + n
        BY <1>3, <2>1, <4>0
      <4>2. h[n] = key BY <1>5, <3>1, <4>1
      <4>3. QED BY <4>2 DEF Members
    <3>3. i <= Len(l) - Len(h) BY <1>3, <3>2
    <3>4. QED BY <1>3, <1>5, <2>1, <2>3, <3>3
  <2>4. QED BY <1>3, <2>2, <2>3
<1>9. QED BY <1>1, <1>2, <1>6, <1>7, <1>8 DEF IsMemoryOf, SeldomTwice

-----------------------------------------------------------------------------
(* What the engine is, and the invariant. *)

Engine ==
    [script : Scripts \cup {None}, dead : BOOLEAN, minute : (0..MaxClock) \cup {None},
     digest : Alerts, told : Alerts, connected : BOOLEAN, status : Values \cup {None},
     queued : Order \cup {None}, flying : BOOLEAN, awaiting : BOOLEAN, failing : 0..MaxFailing,
     enabled : BOOLEAN, override : BOOLEAN, handled : Seq(Key), given : Seq(Key)]

TypesInv ==
    /\ clock \in 0..MaxClock /\ up \in BOOLEAN /\ ready \in BOOLEAN /\ suspended \in BOOLEAN
    /\ engine \in Engine /\ engine.given = <<>> /\ disk.script \in Scripts /\ log \in Seq(Key)

\* What is to survive is on the disk at the end of every handler, and all a
\* stopped server has is what it will find there.
FilesInv ==
    /\ disk = Stored(engine, disk.script)
    /\ ~up => engine = Memory(disk)

\* The override is what the users last asked for.
OverrideInv == engine.override = suspended

\* The engine remembers the end of the log, in which nothing comes back soon.
LogInv == IsMemoryOf(engine.handled, log) /\ SeldomTwice(log)

\* A script that runs knows the alarms the engine takes for announced.
Informed(e) == Alive(e) => e.digest = e.told

EngineInv == TypesInv /\ FilesInv /\ OverrideInv /\ LogInv /\ Informed(engine)

-----------------------------------------------------------------------------
(* The operators on the engine. *)

\* A script that was closed, failed or suspended orders nothing.
Mute(e) == ~Alive(e) \/ e.override

\* No occurrence was taken between e and f; only this one, not remembered before.
SameMemory(e, f) == f.handled = e.handled /\ f.given = e.given
Notes(e, f, key) ==
    /\ key \notin Handled(e)
    /\ f.handled = Remember(e.handled, key) /\ f.given = Append(e.given, key)

\* The only occurrence taken, if any, is that of the plan in force.
Follows(e, f) ==
    \/ SameMemory(e, f)
    \/ /\ e.script \in Scripts /\ InForce[e.script][clock] # None
       /\ Notes(e, f, InForce[e.script][clock].key)

\* What every call of the engine keeps.
Serves(e, f) ==
    /\ f \in Engine /\ f.script = e.script /\ f.enabled = e.enabled /\ f.override = e.override
    /\ e.dead => f.dead
    /\ Follows(e, f)
    /\ Mute(e) => f.queued = e.queued
    /\ Informed(e) => Informed(f)

\* Calls within calls hand over one occurrence at most: the second finds what
\* the first left.
LEMMA ServesTwice ==
  ASSUME clock \in 0..MaxClock, NEW e \in Engine, NEW f, NEW g, Serves(e, f), Serves(f, g)
  PROVE  Serves(e, g)
<1>1. Follows(e, g)
  <2>1. CASE SameMemory(e, f)
    <3>1. Handled(f) = Handled(e) BY <2>1 DEF SameMemory, Handled
    <3>2. f.script = e.script /\ Follows(f, g) BY DEF Serves
    <3>3. QED BY <2>1, <3>1, <3>2 DEF Follows, SameMemory, Notes
  <2>2. CASE ~SameMemory(e, f)
    <3>1. PICK key : key = InForce[e.script][clock].key OBVIOUS
    <3>2. e.script \in Scripts /\ InForce[e.script][clock] # None /\ Notes(e, f, key)
      BY <2>2, <3>1 DEF Serves, Follows
    <3>3. key \in Key BY <3>1, <3>2, InForceFacts
    <3>4. e.handled \in Seq(Key) BY DEF Engine
    <3>5. key \notin Members(e.handled) BY <3>2 DEF Members, Handled, Notes
    <3>6. key \in Members(f.handled) BY <3>2, <3>3, <3>4, <3>5, RememberMembers DEF Notes
    <3>7. key \in Handled(f) BY <3>6 DEF Members, Handled
    <3>8. f.script = e.script /\ Follows(f, g) BY DEF Serves
    <3>9. SameMemory(f, g) BY <3>1, <3>7, <3>8 DEF Follows, Notes
    <3>10. QED BY <3>1, <3>2, <3>9 DEF Follows, SameMemory, Notes
  <2>3. QED BY <2>1, <2>2
<1>2. Mute(e) => Mute(f)
  BY DEF Serves, Mute, Alive
<1>3. QED BY <1>1, <1>2 DEF Serves

\* Fields that no lemma is about may change on the way.
LEMMA ServesAlike ==
  ASSUME NEW e \in Engine, NEW f \in Engine,
         f.script = e.script, f.enabled = e.enabled, f.override = e.override, e.dead => f.dead,
         SameMemory(e, f), f.queued = e.queued,
         ~Alive(e) \/ f.digest = f.told \/ (f.digest = e.digest /\ f.told = e.told)
  PROVE  Serves(e, f)
<1>1. Informed(e) => Informed(f)
  BY DEF Informed, Alive
<1>2. QED BY <1>1 DEF Serves, Follows

LEMMA AcceptFacts ==
  ASSUME NEW e \in Engine, NEW key \in Key \cup {None}
  PROVE  /\ Accept(e, key) = [e EXCEPT !.handled = Accept(e, key).handled]
         /\ Accept(e, key).handled \in Seq(Key) /\ Accept(e, key) \in Engine
         /\ key # None => key \in Handled(Accept(e, key))
         /\ Accept(e, key).handled =
               IF key = None \/ key \in Handled(e) THEN e.handled ELSE Remember(e.handled, key)
<1>1. CASE key = None \/ key \in Handled(e)
  <2>1. Accept(e, key) = e BY <1>1 DEF Accept
  <2>2. e = [e EXCEPT !.handled = e.handled] BY DEF Engine
  <2>3. e.handled \in Seq(Key) BY DEF Engine
  <2>4. QED BY <1>1, <2>1, <2>2, <2>3
<1>2. CASE key # None /\ key \notin Handled(e)
  <2>1. Accept(e, key) = [e EXCEPT !.handled = Remember(e.handled, key)]
    BY <1>2 DEF Accept, Remember
  <2>2. key \in Key /\ e.handled \in Seq(Key) BY <1>2 DEF Engine
  <2>3. Remember(e.handled, key) \in Seq(Key) BY <2>2, RememberFacts
  <2>4. Accept(e, key).handled = Remember(e.handled, key) /\ Accept(e, key) \in Engine
    BY <2>1, <2>3 DEF Engine
  <2>5. key \notin Members(e.handled) BY <1>2 DEF Members, Handled
  <2>6. key \in Members(Accept(e, key).handled) BY <2>2, <2>4, <2>5, RememberMembers
  <2>7. key \in Handled(Accept(e, key)) BY <2>6 DEF Members, Handled
  <2>8. QED BY <1>2, <2>1, <2>3, <2>4, <2>7
<1>3. QED BY <1>1, <1>2

LEMMA CommandFacts ==
  ASSUME NEW e \in Engine
  PROVE  /\ Command(e) \in Engine
         /\ Command(e) = e \/ (Alive(e) /\ Command(e) = [e EXCEPT !.dead = TRUE])
         /\ SameMemory(e, Command(e)) /\ Command(e).queued = e.queued
         /\ Command(e).connected = e.connected /\ Handled(Command(e)) = Handled(e)
         /\ Command(e).digest = e.digest /\ Command(e).told = e.told
         /\ Serves(e, Command(e))
<1>1. Command(e) = e \/ (Alive(e) /\ Command(e) = [e EXCEPT !.dead = TRUE])
  <2>1. CASE Alive(e) /\ ~e.override /\ Raises(e, "command")
    BY <2>1 DEF Command
  <2>2. CASE ~(Alive(e) /\ ~e.override /\ Raises(e, "command"))
    BY <2>2 DEF Command
  <2>3. QED BY <2>1, <2>2
<1>2. /\ Command(e) \in Engine /\ SameMemory(e, Command(e)) /\ Command(e).queued = e.queued
      /\ Command(e).connected = e.connected /\ Command(e).script = e.script
      /\ Command(e).enabled = e.enabled /\ Command(e).override = e.override
      /\ Command(e).digest = e.digest /\ Command(e).told = e.told
      /\ e.dead => Command(e).dead
  BY <1>1 DEF Engine, SameMemory
<1>3. Serves(e, Command(e)) BY <1>2, ServesAlike
<1>4. QED BY <1>1, <1>2, <1>3 DEF Handled, SameMemory

\* Handle remembers the occurrence of an order it takes, and queues the order or
\* nothing.
Takes(e, f, order) ==
    /\ f \in Engine /\ f.script = e.script /\ f.enabled = e.enabled /\ f.override = e.override
    /\ f.connected = e.connected /\ f.digest = e.digest /\ f.told = e.told
    /\ e.dead => f.dead
    /\ f.queued \in {e.queued, order} /\ f.given = e.given
    /\ f.handled = IF TakesOrder(e, order.values) THEN Accept(e, order.key).handled ELSE e.handled

LEMMA HandleFacts ==
  ASSUME NEW e \in Engine, NEW order \in Order
  PROVE  /\ Takes(e, Handle(e, order), order)
         /\ TakesOrder(e, order.values) /\ order.key # None => order.key \in Handled(Handle(e, order))
<1>1. PICK key \in Key \cup {None} : key = order.key
  BY DEF Order
<1>2. PICK a : a = Accept(e, key)
  OBVIOUS
<1>3. /\ a = [e EXCEPT !.handled = a.handled] /\ a.handled \in Seq(Key) /\ a \in Engine
      /\ key # None => key \in Handled(a)
  BY <1>2, AcceptFacts
<1>4. /\ a.script = e.script /\ a.enabled = e.enabled /\ a.override = e.override
      /\ a.digest = e.digest /\ a.told = e.told
      /\ a.connected = e.connected /\ a.dead = e.dead /\ a.queued = e.queued /\ a.given = e.given
  BY <1>3 DEF Engine
<1>5. CASE ~TakesOrder(e, order.values)
  <2>1. Handle(e, order) = Command(e) BY <1>5 DEF Handle
  <2>2. Takes(e, Command(e), order)
    BY <1>5, CommandFacts DEF Takes, Serves, SameMemory
  <2>3. QED BY <1>5, <2>1, <2>2
<1>6. CASE TakesOrder(e, order.values) /\ e.status = order.values
  <2>1. Handle(e, order) = Command(a) BY <1>1, <1>2, <1>6 DEF Handle
  <2>2. PICK f : f = Command(a) OBVIOUS
  <2>3. /\ Serves(a, f) /\ SameMemory(a, f) /\ f.queued = a.queued /\ f.connected = a.connected
        /\ Handled(f) = Handled(a) /\ f.digest = a.digest /\ f.told = a.told
    BY <1>3, <2>2, CommandFacts
  <2>4. Takes(e, f, order)
    BY <1>1, <1>2, <1>4, <1>6, <2>3 DEF Takes, Serves, SameMemory
  <2>5. QED BY <1>1, <1>3, <2>1, <2>2, <2>3, <2>4
<1>7. CASE TakesOrder(e, order.values) /\ e.status # order.values
  <2>1. Handle(e, order) = [a EXCEPT !.queued = order] BY <1>1, <1>2, <1>7 DEF Handle
  <2>2. PICK f : f = [a EXCEPT !.queued = order] OBVIOUS
  <2>3. /\ f \in Engine /\ f.script = a.script /\ f.enabled = a.enabled /\ f.override = a.override
        /\ f.connected = a.connected /\ f.dead = a.dead /\ f.queued = order /\ f.handled = a.handled
        /\ f.digest = a.digest /\ f.told = a.told /\ f.given = a.given
    BY <1>3, <2>2 DEF Engine
  <2>4. Handled(f) = Handled(a) BY <2>3 DEF Handled
  <2>5. Takes(e, f, order) BY <1>1, <1>2, <1>4, <1>7, <2>3 DEF Takes
  <2>6. QED BY <1>1, <1>3, <2>1, <2>2, <2>4, <2>5
<1>8. QED BY <1>5, <1>6, <1>7

\* A call into Lua takes no occurrence; its order says in which event.
RunsIn(e, f, type) ==
    /\ f \in Engine /\ f.script = e.script /\ f.enabled = e.enabled /\ f.override = e.override
    /\ f.connected = e.connected /\ f.digest = e.digest /\ f.told = e.told
    /\ e.dead => f.dead
    /\ SameMemory(e, f)
    /\ f.queued # e.queued => f.queued.source = type
    /\ ~Alive(e) => f = e
    /\ type \notin DOMAIN e.script.orders /\ Alive(f) => f = e

LEMMA RunFacts ==
  ASSUME NEW e \in Engine, NEW type \in Events
  PROVE  RunsIn(e, Run(e, type), type)
<1>1. CASE ~Alive(e)
  BY <1>1 DEF Run, RunsIn, SameMemory
<1>2. CASE Alive(e) /\ Raises(e, type)
  <2>1. PICK f : f = [e EXCEPT !.dead = TRUE] OBVIOUS
  <2>2. Run(e, type) = f BY <1>2, <2>1 DEF Run
  <2>3. /\ f \in Engine /\ f.script = e.script /\ f.enabled = e.enabled /\ f.override = e.override
        /\ f.connected = e.connected /\ f.dead /\ f.queued = e.queued /\ SameMemory(e, f)
        /\ f.digest = e.digest /\ f.told = e.told
    BY <2>1 DEF Engine, SameMemory
  <2>4. ~Alive(f) BY <2>3 DEF Alive
  <2>5. QED BY <1>2, <2>2, <2>3, <2>4 DEF RunsIn
<1>3. CASE Alive(e) /\ ~Raises(e, type) /\ type \notin DOMAIN e.script.orders
  BY <1>3 DEF Run, RunsIn, SameMemory
<1>4. CASE Alive(e) /\ ~Raises(e, type) /\ type \in DOMAIN e.script.orders
  <2>1. PICK order : order = [values |-> e.script.orders[type], source |-> type, key |-> None]
    OBVIOUS
  <2>2. PICK f : f = Handle(e, order) OBVIOUS
  <2>3. Run(e, type) = f BY <1>4, <2>1, <2>2 DEF Run
  <2>4. type \in OrderEvents BY <1>4 DEF Raises
  <2>5. e.script \in Scripts BY <1>4 DEF Engine, Alive
  <2>6. e.script.orders[type] \in Values BY <1>4, <2>5, ScriptsAssumption
  <2>7. order \in Order BY <2>1, <2>4, <2>6 DEF Order
  <2>8. Takes(e, f, order) BY <2>2, <2>7, HandleFacts
  <2>9. Accept(e, order.key) = e BY <2>1 DEF Accept
  <2>10. SameMemory(e, f) BY <2>8, <2>9 DEF Takes, SameMemory
  <2>11. f.queued # e.queued => f.queued.source = type BY <2>1, <2>8 DEF Takes
  <2>12. QED BY <1>4, <2>3, <2>8, <2>10, <2>11 DEF Takes, RunsIn
<1>5. QED BY <1>1, <1>2, <1>3, <1>4

LEMMA CallFacts ==
  ASSUME NEW e \in Engine, NEW type \in Events
  PROVE  /\ Serves(e, CallEvent(e, type)) /\ SameMemory(e, CallEvent(e, type))
         /\ CallEvent(e, type).connected = e.connected /\ CallEvent(e, type).told = e.told
         /\ CallEvent(e, type) \in Engine
<1>1. CASE e.override
  <2>1. CallEvent(e, type) = e BY <1>1 DEF CallEvent
  <2>2. QED BY <2>1, ServesAlike DEF SameMemory
<1>2. CASE ~e.override
  <2>1. PICK f : f = Run(e, type) OBVIOUS
  <2>2. CallEvent(e, type) = f BY <1>2, <2>1 DEF CallEvent
  <2>3. RunsIn(e, f, type) BY <2>1, RunFacts
  <2>4. SameMemory(e, f) /\ f.connected = e.connected /\ f.told = e.told /\ f \in Engine
    BY <2>3 DEF RunsIn
  <2>5. Mute(e) => f.queued = e.queued BY <1>2, <2>3 DEF RunsIn, Mute
  <2>6. Informed(e) => Informed(f) BY <2>3 DEF RunsIn, Informed, Alive
  <2>7. Serves(e, f) BY <2>3, <2>4, <2>5, <2>6 DEF RunsIn, Serves, Follows
  <2>8. QED BY <2>2, <2>4, <2>7
<1>3. QED BY <1>1, <1>2

\* Handing over takes no occurrence or one that was not remembered.
LEMMA HandOverFacts ==
  ASSUME NEW e \in Engine, NEW p, p.values \in Values, p.key \in Key,
         NEW force \in BOOLEAN, force \/ p.key \notin Handled(e), NEW f, f = HandOver(e, p, force)
  PROVE  /\ f \in Engine /\ f.script = e.script /\ f.enabled = e.enabled /\ f.override = e.override
         /\ f.connected = e.connected /\ f.digest = e.digest /\ f.told = e.told
         /\ e.dead => f.dead
         /\ SameMemory(e, f) \/ Notes(e, f, p.key)
         /\ ready /\ ~Busy(e) => p.key \in Handled(f)
<1>1. PICK order : order = [values |-> p.values, source |-> "plan", key |-> p.key] OBVIOUS
<1>2. PICK noted : noted = (TakesOrder(e, p.values) /\ ~(force /\ p.key \in Handled(e))) OBVIOUS
<1>3. PICK g : g = IF noted THEN [e EXCEPT !.given = Append(@, p.key)] ELSE e OBVIOUS
<1>4. f = Handle(g, order) BY <1>1, <1>2, <1>3 DEF HandOver
<1>5. order \in Order /\ order.key = p.key /\ order.values = p.values BY <1>1 DEF Order
<1>6. Append(e.given, p.key) \in Seq(Key) BY DEF Engine
<1>7. /\ g \in Engine /\ g.script = e.script /\ g.enabled = e.enabled /\ g.override = e.override
      /\ g.connected = e.connected /\ g.digest = e.digest /\ g.told = e.told
      /\ g.dead = e.dead /\ g.handled = e.handled /\ g.status = e.status
      /\ g.awaiting = e.awaiting /\ g.queued = e.queued
      /\ g.given = IF noted THEN Append(e.given, p.key) ELSE e.given
  BY <1>3, <1>6 DEF Engine
<1>8. Handled(g) = Handled(e) /\ Busy(g) = Busy(e) BY <1>7 DEF Handled, Busy
<1>9. TakesOrder(g, p.values) = TakesOrder(e, p.values) BY <1>7, <1>8 DEF TakesOrder
<1>10. p.key # None BY NothingAssumption
<1>11. /\ Takes(g, f, order)
       /\ TakesOrder(e, p.values) => p.key \in Handled(f)
  BY <1>4, <1>5, <1>7, <1>9, <1>10, HandleFacts
<1>12. Accept(g, p.key).handled =
         IF p.key \in Handled(e) THEN e.handled ELSE Remember(e.handled, p.key)
  BY <1>7, <1>8, <1>10, AcceptFacts
<1>13. /\ f.given = IF noted THEN Append(e.given, p.key) ELSE e.given
       /\ f.handled = IF TakesOrder(e, p.values) /\ p.key \notin Handled(e)
                      THEN Remember(e.handled, p.key) ELSE e.handled
  BY <1>5, <1>7, <1>9, <1>11, <1>12 DEF Takes
<1>14. SameMemory(e, f) \/ Notes(e, f, p.key)
  BY <1>2, <1>13 DEF SameMemory, Notes
<1>15. ready /\ ~Busy(e) => TakesOrder(e, p.values) BY DEF TakesOrder
<1>16. QED BY <1>7, <1>11, <1>14, <1>15 DEF Takes

\* The plan in force is handed over if it was not; without a connection none is.
LEMMA EvaluateFacts ==
  ASSUME clock \in 0..MaxClock, NEW e \in Engine, NEW force \in BOOLEAN
  PROVE  /\ Serves(e, Evaluate(e, force)) /\ Evaluate(e, force) \in Engine
         /\ Mute(e) \/ ~e.connected => Evaluate(e, force) = e
         /\ Evaluate(e, force).told = e.told
         /\ ready /\ ~Busy(e) /\ ~Mute(e) /\ e.connected /\ InForce[e.script][clock] # None =>
               InForce[e.script][clock].key \in Handled(Evaluate(e, force))
<1>1. PICK p : p = InForce[e.script][clock]
  OBVIOUS
<1>2. CASE Mute(e) \/ ~e.connected
  <2>1. Evaluate(e, force) = e BY <1>2 DEF Evaluate, Mute
  <2>2. QED BY <1>2, <2>1, ServesAlike DEF SameMemory
<1>3. CASE ~Mute(e) /\ e.connected /\ (p = None \/ (~force /\ p.key \in Handled(e)))
  <2>1. Evaluate(e, force) = e BY <1>1, <1>3 DEF Evaluate
  <2>2. p = None \/ p.key \in Handled(e) BY <1>3
  <2>3. QED BY <1>1, <1>3, <2>1, <2>2, ServesAlike DEF SameMemory
<1>4. CASE ~Mute(e) /\ e.connected /\ ~(p = None \/ (~force /\ p.key \in Handled(e)))
  <2>1. PICK f : f = HandOver(e, p, force) OBVIOUS
  <2>2. Evaluate(e, force) = f BY <1>1, <1>4, <2>1 DEF Evaluate, Mute
  <2>3. e.script \in Scripts BY <1>4 DEF Engine, Alive, Mute
  <2>4. p # None /\ p.values \in Values /\ p.key \in Key BY <1>1, <1>4, <2>3, InForceFacts
  <2>5. force \/ p.key \notin Handled(e) BY <1>4
  <2>6. /\ f \in Engine /\ f.script = e.script /\ f.enabled = e.enabled /\ f.override = e.override
        /\ f.digest = e.digest /\ f.told = e.told
        /\ e.dead => f.dead
        /\ SameMemory(e, f) \/ Notes(e, f, p.key)
        /\ ready /\ ~Busy(e) => p.key \in Handled(f)
    BY <2>1, <2>4, <2>5, HandOverFacts
  <2>7. Follows(e, f) BY <1>1, <2>3, <2>4, <2>6 DEF Follows
  <2>8. Informed(e) => Informed(f) BY <2>6 DEF Informed, Alive
  <2>9. Serves(e, f) BY <1>4, <2>6, <2>7, <2>8 DEF Serves
  <2>10. QED BY <1>1, <1>4, <2>2, <2>6, <2>9
<1>5. QED BY <1>2, <1>3, <1>4

-----------------------------------------------------------------------------
(* The handlers. *)

LEMMA ProcessTimeFacts ==
  ASSUME clock \in 0..MaxClock, NEW e \in Engine
  PROVE  /\ Serves(e, ProcessTime(e))
         /\ ~e.connected => SameMemory(e, ProcessTime(e))
<1>1. CASE e.script = None \/ e.override \/ e.minute = clock
  BY <1>1, ServesAlike DEF ProcessTime, SameMemory
<1>2. CASE ~(e.script = None \/ e.override \/ e.minute = clock)
  <2>1. PICK f : f = [e EXCEPT !.minute = clock] OBVIOUS
  <2>2. PICK g : g = CallEvent(f, "time") OBVIOUS
  <2>3. ProcessTime(e) = Evaluate(g, FALSE) BY <1>2, <2>1, <2>2 DEF ProcessTime
  <2>4. /\ f \in Engine /\ f.script = e.script /\ f.enabled = e.enabled /\ f.override = e.override
        /\ f.dead = e.dead /\ SameMemory(e, f) /\ f.queued = e.queued
        /\ f.digest = e.digest /\ f.told = e.told
        /\ f.connected = e.connected
    BY <2>1 DEF Engine, SameMemory
  <2>5. Serves(e, f) BY <2>4, ServesAlike
  <2>6. "time" \in Events BY DEF Events
  <2>7. Serves(f, g) /\ g \in Engine /\ SameMemory(f, g) /\ g.connected = f.connected
    BY <2>2, <2>4, <2>6, CallFacts
  <2>8. Serves(g, Evaluate(g, FALSE)) /\ (~g.connected => Evaluate(g, FALSE) = g)
    BY <2>7, EvaluateFacts
  <2>9. Serves(f, Evaluate(g, FALSE)) BY <2>4, <2>7, <2>8, ServesTwice
  <2>10. Serves(e, Evaluate(g, FALSE)) BY <2>4, <2>5, <2>9, ServesTwice
  <2>11. QED BY <2>3, <2>4, <2>7, <2>8, <2>10 DEF SameMemory
<1>3. QED BY <1>1, <1>2

LEMMA SetConnectedFacts ==
  ASSUME clock \in 0..MaxClock, NEW e \in Engine, NEW connected \in BOOLEAN
  PROVE  Serves(e, SetConnected(e, connected))
<1>1. CASE e.connected = connected
  BY <1>1, ServesAlike DEF SetConnected, SameMemory
<1>2. CASE e.connected # connected
  <2>1. PICK d : d = [e EXCEPT !.connected = connected] OBVIOUS
  <2>2. PICK type : type = IF connected THEN "connected" ELSE "disconnected" OBVIOUS
  <2>3. PICK f : f = CallEvent(d, type) OBVIOUS
  <2>4. SetConnected(e, connected) = IF connected THEN Evaluate(f, FALSE) ELSE f
    BY <1>2, <2>1, <2>2, <2>3 DEF SetConnected
  <2>5. /\ d \in Engine /\ d.script = e.script /\ d.enabled = e.enabled /\ d.override = e.override
        /\ d.dead = e.dead /\ SameMemory(e, d) /\ d.queued = e.queued
        /\ d.digest = e.digest /\ d.told = e.told
    BY <2>1 DEF Engine, SameMemory
  <2>6. Serves(e, d) BY <2>5, ServesAlike
  <2>7. type \in Events BY <2>2 DEF Events
  <2>8. Serves(d, f) /\ f \in Engine BY <2>3, <2>5, <2>7, CallFacts
  <2>9. Serves(e, f) BY <2>5, <2>6, <2>8, ServesTwice
  <2>10. Serves(f, Evaluate(f, FALSE)) BY <2>8, EvaluateFacts
  <2>11. Serves(e, Evaluate(f, FALSE)) BY <2>8, <2>9, <2>10, ServesTwice
  <2>12. QED BY <2>4, <2>9, <2>11
<1>3. QED BY <1>1, <1>2

LEMMA PublishFacts ==
  ASSUME clock \in 0..MaxClock, NEW e \in Engine, NEW alerts \in Alerts, ~e.override
  PROVE  /\ Serves(e, Publish(e, alerts)) /\ Publish(e, alerts) \in Engine
         /\ ~Mute(e) /\ Informed(e) => Publish(e, alerts).told = alerts
<1>1. CASE e.digest = alerts
  BY <1>1, ServesAlike DEF Publish, SameMemory, Informed, Mute
<1>2. CASE e.digest # alerts
  <2>1. PICK f : f = [e EXCEPT !.digest = alerts,
                               !.told = IF Alive(e) /\ ~e.override THEN alerts ELSE e.told]
    OBVIOUS
  <2>2. Publish(e, alerts) = CallEvent(f, "alarm") BY <1>2, <2>1 DEF Publish
  <2>3. /\ f \in Engine /\ f.script = e.script /\ f.enabled = e.enabled /\ f.override = e.override
        /\ f.dead = e.dead /\ SameMemory(e, f) /\ f.queued = e.queued
        /\ f.digest = alerts /\ f.told = IF Alive(e) /\ ~e.override THEN alerts ELSE e.told
    BY <2>1 DEF Engine, SameMemory
  <2>4. "alarm" \in Events BY DEF Events
  <2>5. /\ Serves(f, CallEvent(f, "alarm")) /\ CallEvent(f, "alarm") \in Engine
        /\ CallEvent(f, "alarm").told = f.told
    BY <2>3, <2>4, CallFacts
  <2>6. Serves(e, f) BY <2>3, ServesAlike
  <2>7. QED BY <2>2, <2>3, <2>5, <2>6, ServesTwice DEF Mute
<1>3. QED BY <1>1, <1>2

LEMMA ResolveFacts ==
  ASSUME clock \in 0..MaxClock, NEW e \in Engine
  PROVE  Serves(e, Resolve(e)) /\ Resolve(e) \in Engine
<1>1. CASE ~e.awaiting
  BY <1>1, ServesAlike DEF Resolve, SameMemory
<1>2. CASE e.awaiting
  <2>1. PICK c : c = Command(e) OBVIOUS
  <2>2. Serves(e, c) /\ c \in Engine BY <2>1, CommandFacts
  <2>3. PICK f : f = [c EXCEPT !.awaiting = FALSE] OBVIOUS
  <2>4. /\ f \in Engine /\ f.script = c.script /\ f.enabled = c.enabled /\ f.override = c.override
        /\ f.dead = c.dead /\ SameMemory(c, f) /\ f.queued = c.queued
        /\ f.digest = c.digest /\ f.told = c.told
    BY <2>2, <2>3 DEF Engine, SameMemory
  <2>5. Serves(c, f) BY <2>2, <2>4, ServesAlike
  <2>6. Resolve(e) = f BY <1>2, <2>1, <2>3 DEF Resolve
  <2>7. QED BY <2>2, <2>4, <2>5, <2>6, ServesTwice
<1>3. QED BY <1>1, <1>2

LEMMA StatusEventFacts ==
  ASSUME clock \in 0..MaxClock, NEW e \in Engine, NEW status \in Values, NEW alerts \in Alerts,
         NEW s, s = StatusEvent(e, status, alerts)
  PROVE  /\ Serves(e, s)
         /\ Informed(e) /\ ~Mute(s) => s.told = alerts
<1>1. PICK d : d = [e EXCEPT !.status = status] OBVIOUS
<1>2. PICK r : r = Resolve(d) OBVIOUS
<1>3. PICK f : f = SetConnected(r, TRUE) OBVIOUS
<1>4. /\ d \in Engine /\ d.script = e.script /\ d.enabled = e.enabled /\ d.override = e.override
      /\ d.dead = e.dead /\ SameMemory(e, d) /\ d.queued = e.queued
      /\ d.digest = e.digest /\ d.told = e.told
  BY <1>1 DEF Engine, SameMemory
<1>5. Serves(e, d) BY <1>4, ServesAlike
<1>6. Serves(d, r) /\ r \in Engine BY <1>2, <1>4, ResolveFacts
<1>7. Serves(e, r) BY <1>4, <1>5, <1>6, ServesTwice
<1>8. Serves(r, f) /\ f \in Engine BY <1>3, <1>6, SetConnectedFacts DEF Serves
<1>9. Serves(e, f) BY <1>6, <1>7, <1>8, ServesTwice
<1>10. CASE f.override
  <2>1. s = f BY <1>1, <1>2, <1>3, <1>10 DEF StatusEvent
  <2>2. QED BY <1>9, <1>10, <2>1 DEF Mute
<1>11. CASE ~f.override
  <2>1. PICK g : g = CallEvent(f, "status") OBVIOUS
  <2>2. PICK h : h = Publish(g, alerts) OBVIOUS
  <2>3. s = Evaluate(h, FALSE) BY <1>1, <1>2, <1>3, <1>11, <2>1, <2>2 DEF StatusEvent
  <2>4. "status" \in Events BY DEF Events
  <2>5. Serves(f, g) /\ g \in Engine /\ ~g.override
    BY <1>8, <1>11, <2>1, <2>4, CallFacts DEF Serves
  <2>6. Serves(e, g) BY <1>8, <1>9, <2>5, ServesTwice
  <2>7. /\ Serves(g, h) /\ h \in Engine
        /\ ~Mute(g) /\ Informed(g) => h.told = alerts
    BY <2>2, <2>5, PublishFacts
  <2>8. Serves(e, h) BY <2>5, <2>6, <2>7, ServesTwice
  <2>9. Serves(h, s) /\ s.told = h.told BY <2>3, <2>7, EvaluateFacts
  <2>10. Serves(e, s) BY <2>7, <2>8, <2>9, ServesTwice
  <2>11. ASSUME Informed(e), ~Mute(s) PROVE s.told = alerts
    <3>1. ~Mute(h) BY <2>9, <2>11 DEF Serves, Mute, Alive
    <3>2. ~Mute(g) BY <2>7, <3>1 DEF Serves, Mute, Alive
    <3>3. Informed(g) BY <2>6, <2>11 DEF Serves
    <3>4. QED BY <2>7, <2>9, <3>2, <3>3
  <2>12. QED BY <2>10, <2>11
<1>12. QED BY <1>10, <1>11

LEMMA ReevaluateFacts ==
  ASSUME clock \in 0..MaxClock, NEW e \in Engine
  PROVE  Serves(e, Reevaluate(e)) /\ (Mute(e) => Reevaluate(e) = e)
<1>1. CASE Mute(e)
  <2>1. Reevaluate(e) = e BY <1>1 DEF Reevaluate, Mute
  <2>2. QED BY <2>1, ServesAlike DEF SameMemory
<1>2. CASE ~Mute(e)
  <2>1. PICK d : d = CallEvent(e, "status") OBVIOUS
  <2>2. PICK f : f = [d EXCEPT !.minute = clock] OBVIOUS
  <2>3. PICK g : g = CallEvent(f, "time") OBVIOUS
  <2>4. Reevaluate(e) = Evaluate(g, TRUE) BY <1>2, <2>1, <2>2, <2>3 DEF Reevaluate, Mute
  <2>5. "status" \in Events /\ "time" \in Events BY DEF Events
  <2>6. Serves(e, d) /\ d \in Engine BY <2>1, <2>5, CallFacts
  <2>7. /\ f \in Engine /\ f.script = d.script /\ f.enabled = d.enabled /\ f.override = d.override
        /\ f.dead = d.dead /\ SameMemory(d, f) /\ f.queued = d.queued
        /\ f.digest = d.digest /\ f.told = d.told
    BY <2>2, <2>6 DEF Engine, SameMemory
  <2>8. Serves(d, f) BY <2>6, <2>7, ServesAlike
  <2>9. Serves(e, f) BY <2>6, <2>8, ServesTwice
  <2>10. Serves(f, g) /\ g \in Engine BY <2>3, <2>5, <2>7, CallFacts
  <2>11. Serves(e, g) BY <2>7, <2>9, <2>10, ServesTwice
  <2>12. Serves(g, Evaluate(g, TRUE)) BY <2>10, EvaluateFacts
  <2>13. QED BY <1>2, <2>4, <2>10, <2>11, <2>12, ServesTwice
<1>3. QED BY <1>1, <1>2

\* One occurrence at most, and one that was not remembered.
Grows(e, f) == SameMemory(e, f) \/ \E key \in Key : Notes(e, f, key)

LEMMA ServesGrows ==
  ASSUME clock \in 0..MaxClock, NEW e \in Engine, NEW f, Serves(e, f)
  PROVE  Grows(e, f)
<1>1. CASE SameMemory(e, f)
  BY <1>1 DEF Grows
<1>2. CASE ~SameMemory(e, f)
  <2>1. PICK key : key = InForce[e.script][clock].key OBVIOUS
  <2>2. e.script \in Scripts /\ InForce[e.script][clock] # None /\ Notes(e, f, key)
    BY <1>2, <2>1 DEF Serves, Follows
  <2>3. key \in Key BY <2>1, <2>2, InForceFacts
  <2>4. QED BY <2>2, <2>3 DEF Grows
<1>3. QED BY <1>1, <1>2

LEMMA GrowsAlike ==
  ASSUME NEW e, NEW d, NEW f, SameMemory(e, d), Grows(d, f)
  PROVE  Grows(e, f)
<1>1. Handled(d) = Handled(e) BY DEF SameMemory, Handled
<1>2. QED BY <1>1 DEF Grows, SameMemory, Notes

\* Another script, the same memory.
LEMMA LoadFacts ==
  ASSUME clock \in 0..MaxClock, NEW e \in Engine, NEW script \in Scripts
  PROVE  /\ Load(e, script) \in Engine /\ Load(e, script).script = script
         /\ Load(e, script).enabled = e.enabled /\ Load(e, script).override = e.override
         /\ Grows(e, Load(e, script)) /\ Informed(Load(e, script))
         /\ e.override => Load(e, script).queued = e.queued
         /\ ~e.connected => SameMemory(e, Load(e, script))
<1>1. PICK d : d = [e EXCEPT !.script = script, !.dead = FALSE, !.minute = None,
                             !.digest = NoAlert, !.told = NoAlert]
  OBVIOUS
<1>2. PICK f : f = CallEvent(d, "startup") OBVIOUS
<1>3. PICK g : g = ProcessTime(f) OBVIOUS
<1>4. Load(e, script) = g BY <1>1, <1>2, <1>3 DEF Load
<1>5. /\ d \in Engine /\ d.script = script /\ d.enabled = e.enabled /\ d.override = e.override
      /\ SameMemory(e, d) /\ d.queued = e.queued /\ d.connected = e.connected
      /\ d.digest = d.told
  BY <1>1, NothingAssumption DEF Engine, SameMemory
<1>6. "startup" \in Events BY DEF Events
<1>7. /\ Serves(d, f) /\ f \in Engine /\ SameMemory(d, f) /\ f.connected = d.connected
  BY <1>2, <1>5, <1>6, CallFacts
<1>8. Serves(f, g) /\ (~f.connected => SameMemory(f, g)) BY <1>3, <1>7, ProcessTimeFacts
<1>9. Serves(d, g) BY <1>5, <1>7, <1>8, ServesTwice
<1>10. Grows(d, g) BY <1>5, <1>9, ServesGrows
<1>11. Grows(e, g) BY <1>5, <1>10, GrowsAlike
<1>12. e.override => g.queued = e.queued BY <1>5, <1>9 DEF Serves, Mute
<1>13. Informed(g) BY <1>5, <1>9 DEF Serves, Informed
<1>14. QED BY <1>4, <1>5, <1>7, <1>8, <1>9, <1>11, <1>12, <1>13 DEF Serves, SameMemory

-----------------------------------------------------------------------------
(* The invariant. *)

IsLogOf(e, l) == l \in Seq(Key) /\ IsMemoryOf(e.handled, l) /\ SeldomTwice(l)

LEMMA LogGrows ==
  ASSUME NEW e \in Engine, NEW f \in Engine, Grows(e, f), e.given = <<>>, NEW l, IsLogOf(e, l)
  PROVE  IsLogOf(f, l \o f.given)
<1>1. CASE SameMemory(e, f)
  <2>1. l \o f.given = l BY <1>1 DEF SameMemory, IsLogOf
  <2>2. QED BY <1>1, <2>1 DEF SameMemory, IsLogOf
<1>2. CASE ~SameMemory(e, f)
  <2>1. PICK key \in Key : Notes(e, f, key) BY <1>2 DEF Grows
  <2>2. PICK h \in Seq(Key) : h = e.handled BY DEF Engine
  <2>3. l \in Seq(Key) /\ IsMemoryOf(h, l) /\ SeldomTwice(l) BY <2>2 DEF IsLogOf
  <2>4. f.given = <<key>> BY <2>1 DEF Notes
  <2>5. l \o f.given = Append(l, key) BY <2>3, <2>4
  <2>6. key \notin Members(h) /\ f.handled = Remember(h, key)
    BY <2>1, <2>2 DEF Notes, Members, Handled
  <2>7. IsMemoryOf(Remember(h, key), Append(l, key)) /\ SeldomTwice(Append(l, key))
    BY <2>3, <2>6, MemoryGrows
  <2>8. Append(l, key) \in Seq(Key) BY <2>3
  <2>9. QED BY <2>5, <2>6, <2>7, <2>8 DEF IsLogOf
<1>3. QED BY <1>1, <1>2

\* At the end of a handler only what was given is forgotten.
LEMMA LeavesFacts ==
  ASSUME NEW e \in Engine, NEW script, Leaves(e, script)
  PROVE  /\ engine' \in Engine /\ engine'.given = <<>> /\ engine'.handled = e.handled
         /\ engine'.script = e.script /\ engine'.dead = e.dead /\ engine'.queued = e.queued
         /\ engine'.enabled = e.enabled /\ engine'.override = e.override
         /\ engine'.digest = e.digest /\ engine'.told = e.told
<1>1. <<>> \in Seq(Key) OBVIOUS
<1>2. PICK f : f = [e EXCEPT !.given = <<>>] OBVIOUS
<1>3. /\ f \in Engine /\ f.given = <<>> /\ f.handled = e.handled
      /\ f.script = e.script /\ f.dead = e.dead /\ f.queued = e.queued
      /\ f.enabled = e.enabled /\ f.override = e.override
      /\ f.digest = e.digest /\ f.told = e.told
  BY <1>1, <1>2 DEF Engine
<1>4. engine' = f BY <1>2 DEF Leaves
<1>5. QED BY <1>3, <1>4

LEMMA LeavesKeeps ==
  ASSUME EngineInv, NEW e \in Engine, NEW script \in Scripts, Leaves(e, script),
         Grows(engine, e), Informed(e), e.override = suspended',
         clock' \in 0..MaxClock, ready' \in BOOLEAN, suspended' \in BOOLEAN
  PROVE  EngineInv'
<1>1. /\ engine \in Engine /\ engine.given = <<>> /\ log \in Seq(Key)
      /\ IsMemoryOf(engine.handled, log) /\ SeldomTwice(log)
  BY DEF EngineInv, TypesInv, LogInv
<1>2. /\ engine' \in Engine /\ engine'.given = <<>> /\ engine'.handled = e.handled
      /\ engine'.script = e.script /\ engine'.dead = e.dead
      /\ engine'.enabled = e.enabled /\ engine'.override = e.override
      /\ engine'.digest = e.digest /\ engine'.told = e.told
  BY LeavesFacts
<1>3. up /\ up' = up /\ disk' = Stored(e, script) /\ log' = log \o e.given
  BY DEF Leaves
<1>4. disk'.script = script BY <1>3 DEF Stored
<1>5. IsLogOf(engine, log) BY <1>1 DEF IsLogOf
<1>6. IsLogOf(e, log') BY <1>1, <1>3, <1>5, LogGrows
<1>7. TypesInv' BY <1>2, <1>3, <1>4, <1>6 DEF TypesInv, IsLogOf
<1>8. FilesInv' BY <1>2, <1>3, <1>4 DEF FilesInv, Stored
<1>9. OverrideInv' BY <1>2 DEF OverrideInv
<1>10. LogInv' BY <1>2, <1>6 DEF LogInv, IsLogOf
<1>11. Informed(engine)' BY <1>2 DEF Informed, Alive
<1>12. QED BY <1>7, <1>8, <1>9, <1>10, <1>11 DEF EngineInv

LEMMA BecomesKeeps ==
  ASSUME EngineInv, NEW e \in Engine, Becomes(e), Grows(engine, e), Informed(e),
         e.override = suspended',
         clock' \in 0..MaxClock, ready' \in BOOLEAN, suspended' \in BOOLEAN
  PROVE  EngineInv'
<1>1. disk.script \in Scripts /\ Leaves(e, disk.script) BY DEF EngineInv, TypesInv, Becomes
<1>2. QED BY <1>1, LeavesKeeps

\* The engine changes in fields that are not stored.
LEMMA GrowsNothing ==
  ASSUME NEW e, NEW f, SameMemory(e, f)
  PROVE  Grows(e, f)
BY DEF Grows

LEMMA EngineInit == Init => EngineInv
<1> SUFFICES ASSUME Init PROVE EngineInv
  OBVIOUS
<1>1. /\ disk.script \in Scripts /\ disk.enabled \in BOOLEAN /\ disk.override = FALSE
      /\ disk.handled = <<>> /\ engine = Memory(disk)
      /\ disk \in [script : Scripts, enabled : BOOLEAN, override : {FALSE}, handled : {<<>>}]
  BY DEF Init
<1>2. <<>> \in Seq(Key)
  OBVIOUS
<1>3. 0 \in 0..MaxClock /\ 0 \in 0..MaxFailing
  BY HandledAssumption
<1>4. engine \in Engine
  BY <1>1, <1>2, <1>3, NothingAssumption DEF Memory, Engine
<1>5. /\ engine.handled = <<>> /\ engine.given = <<>>
      /\ engine.override = FALSE /\ engine.enabled = disk.enabled
  BY <1>1 DEF Memory
<1>6. disk = Stored(engine, disk.script)
  BY <1>1, <1>5 DEF Stored
<1>7. IsMemoryOf(<<>>, <<>>) /\ SeldomTwice(<<>>)
  BY HandledAssumption DEF IsMemoryOf, SeldomTwice
<1>8. Informed(engine)
  BY <1>1 DEF Memory, Informed
<1>9. QED
  BY <1>1, <1>2, <1>3, <1>4, <1>5, <1>6, <1>7, <1>8
     DEF Init, EngineInv, TypesInv, FilesInv, OverrideInv, LogInv

LEMMA MemoryFacts ==
  ASSUME EngineInv
  PROVE  /\ Memory(disk) \in Engine /\ SameMemory(engine, Memory(disk))
         /\ Memory(disk).given = <<>>
         /\ Memory(disk).override = engine.override /\ Memory(disk).enabled = engine.enabled
         /\ Memory(disk).queued = None /\ ~Memory(disk).connected
         /\ disk.enabled = engine.enabled
         /\ Stored(Memory(disk), disk.script) = disk /\ Informed(Memory(disk))
<1>1. disk = Stored(engine, disk.script) /\ engine \in Engine /\ engine.given = <<>>
  BY DEF EngineInv, FilesInv, TypesInv
<1>2. /\ disk.enabled = engine.enabled /\ disk.override = engine.override
      /\ disk.handled = engine.handled
  BY <1>1 DEF Stored
<1>3. 0 \in 0..MaxFailing
  BY HandledAssumption
<1>4. Memory(disk) \in Engine
  BY <1>1, <1>2, <1>3, NothingAssumption DEF Memory, Engine
<1>5. /\ SameMemory(engine, Memory(disk)) /\ Memory(disk).handled = engine.handled
      /\ Memory(disk).given = <<>>
      /\ Memory(disk).override = engine.override /\ Memory(disk).enabled = engine.enabled
      /\ Memory(disk).queued = None /\ ~Memory(disk).connected /\ Informed(Memory(disk))
  BY <1>1, <1>2 DEF Memory, Informed, SameMemory
<1>6. QED BY <1>1, <1>2, <1>4, <1>5 DEF Stored

LEMMA EngineStep == EngineInv /\ [Next]_vars => EngineInv'
<1> SUFFICES ASSUME EngineInv, [Next]_vars PROVE EngineInv'
  OBVIOUS
<1>0. /\ clock \in 0..MaxClock /\ up \in BOOLEAN /\ ready \in BOOLEAN /\ suspended \in BOOLEAN
      /\ engine \in Engine /\ disk.script \in Scripts /\ log \in Seq(Key)
      /\ engine.override = suspended /\ Informed(engine)
  BY DEF EngineInv, TypesInv, OverrideInv
<1>1. CASE Boot
  <2>1. PICK m : m = Memory(disk) OBVIOUS
  <2>2. /\ m \in Engine /\ SameMemory(engine, m) /\ m.override = engine.override
        /\ m.enabled = engine.enabled /\ ~m.connected /\ m.given = <<>>
        /\ Stored(m, disk.script) = disk /\ Informed(m)
    BY <2>1, MemoryFacts
  <2>3. PICK f : f = Load(m, disk.script) OBVIOUS
  <2>4. /\ f \in Engine /\ f.enabled = m.enabled /\ f.override = m.override
        /\ SameMemory(m, f) /\ Informed(f)
    BY <1>0, <2>2, <2>3, LoadFacts
  <2>5. engine' = m \/ engine' = f
    BY <1>1, <2>1, <2>3 DEF Boot
  <2>6. /\ engine' \in Engine /\ engine'.handled = engine.handled /\ engine'.given = <<>>
        /\ engine'.override = engine.override /\ engine'.enabled = engine.enabled
        /\ Informed(engine')
    BY <2>2, <2>4, <2>5 DEF SameMemory
  <2>7. disk = Stored(engine, disk.script) BY DEF EngineInv, FilesInv
  <2>8. Stored(engine', disk.script) = disk BY <2>6, <2>7 DEF Stored
  <2>9. up' /\ UNCHANGED <<clock, disk, ready, suspended, log>> BY <1>1 DEF Boot
  <2>10. IsMemoryOf(engine.handled, log) /\ SeldomTwice(log) BY DEF EngineInv, LogInv
  <2>11. TypesInv' BY <1>0, <2>6, <2>9 DEF TypesInv
  <2>12. FilesInv' BY <2>8, <2>9 DEF FilesInv, Stored
  <2>13. OverrideInv' BY <1>0, <2>6, <2>9 DEF OverrideInv
  <2>14. LogInv' BY <2>6, <2>9, <2>10 DEF LogInv
  <2>15. QED BY <2>6, <2>11, <2>12, <2>13, <2>14 DEF EngineInv
<1>2. CASE Crash
  <2>1. PICK m : m = Memory(disk) OBVIOUS
  <2>2. /\ m \in Engine /\ m.handled = engine.handled /\ m.override = engine.override
        /\ m.given = <<>> /\ Stored(m, disk.script) = disk /\ Informed(m)
    BY <2>1, MemoryFacts DEF SameMemory
  <2>3. /\ engine' = m /\ up' = FALSE /\ ready' = FALSE /\ UNCHANGED <<clock, disk, suspended, log>>
    BY <1>2, <2>1 DEF Crash
  <2>4. IsMemoryOf(engine.handled, log) /\ SeldomTwice(log) BY DEF EngineInv, LogInv
  <2>5. TypesInv' BY <1>0, <2>2, <2>3 DEF TypesInv
  <2>6. FilesInv' BY <2>1, <2>2, <2>3 DEF FilesInv, Stored, Memory
  <2>7. OverrideInv' BY <1>0, <2>2, <2>3 DEF OverrideInv
  <2>8. LogInv' BY <2>2, <2>3, <2>4 DEF LogInv
  <2>9. Informed(engine)' BY <2>2, <2>3 DEF Informed, Alive
  <2>10. QED BY <2>5, <2>6, <2>7, <2>8, <2>9 DEF EngineInv
<1>3. CASE Tick
  <2>1. clock' \in 0..MaxClock BY <1>0, <1>3, HandledAssumption DEF Tick
  <2>2. UNCHANGED <<up, engine, disk, ready, suspended, log>> BY <1>3 DEF Tick
  <2>3. QED
    BY <2>1, <2>2 DEF EngineInv, TypesInv, FilesInv, OverrideInv, LogInv, Stored, Memory, Informed, Alive
<1>4. CASE Pulse
  <2>1. PICK f : f = ProcessTime(engine) OBVIOUS
  <2>2. Serves(engine, f) BY <1>0, <2>1, ProcessTimeFacts
  <2>3. Becomes(f) /\ UNCHANGED <<clock, ready, suspended>> BY <1>4, <2>1 DEF Pulse
  <2>4. QED BY <1>0, <2>2, <2>3, ServesGrows, BecomesKeeps DEF Serves
<1>5. CASE Start
  <2>1. PICK f : f = SetConnected(engine, FALSE) OBVIOUS
  <2>2. Serves(engine, f) BY <1>0, <2>1, SetConnectedFacts
  <2>3. Becomes(f) /\ UNCHANGED <<clock, ready, suspended>> BY <1>5, <2>1 DEF Start
  <2>4. QED BY <1>0, <2>2, <2>3, ServesGrows, BecomesKeeps DEF Serves
<1>6. CASE State
  <2>1. PICK e : e = SetConnected(engine, FALSE) OBVIOUS
  <2>2. PICK f : f = Resolve(e) OBVIOUS
  <2>3. Serves(engine, e) /\ e \in Engine BY <1>0, <2>1, SetConnectedFacts DEF Serves
  <2>4. Serves(e, f) BY <1>0, <2>2, <2>3, ResolveFacts
  <2>5. Serves(engine, f) BY <1>0, <2>3, <2>4, ServesTwice
  <2>6. Becomes(f) /\ UNCHANGED <<clock, ready, suspended>> BY <1>6, <2>1, <2>2 DEF State
  <2>7. QED BY <1>0, <2>5, <2>6, ServesGrows, BecomesKeeps DEF Serves
<1>7. CASE Fails
  <2>1. PICK e : e = [engine EXCEPT !.failing = @ - 1] OBVIOUS
  <2>2. PICK f : f = Command(e) OBVIOUS
  <2>3. /\ engine.failing \in 0..MaxFailing /\ engine.failing > 0
        /\ Becomes(f) /\ UNCHANGED <<clock, ready, suspended>>
    BY <1>0, <1>7, <2>1, <2>2 DEF Fails, Engine
  <2>4. engine.failing - 1 \in 0..MaxFailing BY <2>3, HandledAssumption
  <2>5. e \in Engine /\ SameMemory(engine, e) /\ e.override = engine.override /\ Informed(e)
    BY <1>0, <2>1, <2>4 DEF Engine, Informed, Alive, SameMemory
  <2>6. Serves(e, f) /\ SameMemory(e, f) BY <2>2, <2>5, CommandFacts
  <2>7. /\ f \in Engine /\ f.override = engine.override /\ SameMemory(engine, f)
        /\ Informed(f)
    BY <2>5, <2>6 DEF Serves, SameMemory
  <2>8. Grows(engine, f) BY <2>7, GrowsNothing
  <2>9. QED BY <1>0, <2>3, <2>7, <2>8, BecomesKeeps
<1>8. CASE Accepted
  <2>1. PICK f : f = [engine EXCEPT !.flying = FALSE, !.awaiting = TRUE] OBVIOUS
  <2>2. f \in Engine /\ SameMemory(engine, f) /\ f.override = engine.override /\ Informed(f)
    BY <1>0, <2>1 DEF Engine, Informed, Alive, SameMemory
  <2>3. Becomes(f) /\ UNCHANGED <<clock, ready, suspended>> BY <1>8, <2>1 DEF Accepted
  <2>4. Grows(engine, f) BY <2>2, GrowsNothing
  <2>5. QED BY <1>0, <2>2, <2>3, <2>4, BecomesKeeps
<1>9. CASE Take
  <2>1. PICK f : f = [engine EXCEPT !.queued = None, !.flying = TRUE] OBVIOUS
  <2>2. f \in Engine /\ SameMemory(engine, f) /\ f.override = engine.override /\ Informed(f)
    BY <1>0, <2>1 DEF Engine, Informed, Alive, SameMemory
  <2>3. Becomes(f) /\ UNCHANGED <<clock, ready, suspended>> BY <1>9, <2>1 DEF Take
  <2>4. Grows(engine, f) BY <2>2, GrowsNothing
  <2>5. QED BY <1>0, <2>2, <2>3, <2>4, BecomesKeeps
<1>10. CASE Refused
  <2>1. PICK f : f = [engine EXCEPT !.flying = FALSE, !.failing = @ + 1] OBVIOUS
  <2>2. engine.failing + 1 \in 0..MaxFailing BY <1>0, <1>10, HandledAssumption DEF Refused, Engine
  <2>3. f \in Engine /\ SameMemory(engine, f) /\ f.override = engine.override /\ Informed(f)
    BY <1>0, <2>1, <2>2 DEF Engine, Informed, Alive, SameMemory
  <2>4. Becomes(f) /\ UNCHANGED <<clock, ready, suspended>> BY <1>10, <2>1 DEF Refused
  <2>5. Grows(engine, f) BY <2>3, GrowsNothing
  <2>6. QED BY <1>0, <2>3, <2>4, <2>5, BecomesKeeps
<1>11. CASE Ready
  <2>1. ready' = TRUE /\ UNCHANGED <<clock, up, engine, disk, suspended, log>> BY <1>11 DEF Ready
  <2>2. QED BY <2>1 DEF EngineInv, TypesInv, FilesInv, OverrideInv, LogInv, Stored, Memory, Informed, Alive
<1>12. CASE Unready
  <2>1. PICK f : f = IF engine.queued = None THEN engine
                     ELSE [engine EXCEPT !.queued = None, !.failing = @ + 1]
    OBVIOUS
  <2>2. f \in Engine /\ SameMemory(engine, f) /\ f.override = engine.override /\ Informed(f)
    <3>1. CASE engine.queued = None BY <1>0, <2>1, <3>1 DEF SameMemory
    <3>2. CASE engine.queued # None
      <4>1. engine.failing + 1 \in 0..MaxFailing
        BY <1>0, <1>12, <3>2, HandledAssumption DEF Unready, Engine
      <4>2. QED BY <1>0, <2>1, <3>2, <4>1 DEF Engine, Informed, Alive, SameMemory
    <3>3. QED BY <3>1, <3>2
  <2>3. Becomes(f) /\ ready' = FALSE /\ UNCHANGED <<clock, suspended>> BY <1>12, <2>1 DEF Unready
  <2>4. Grows(engine, f) BY <2>2, GrowsNothing
  <2>5. QED BY <1>0, <2>2, <2>3, <2>4, BecomesKeeps
<1>13. CASE Manual
  <2>1. PICK f : f = [engine EXCEPT !.override = TRUE] OBVIOUS
  <2>2. f \in Engine /\ SameMemory(engine, f) /\ f.override = TRUE /\ Informed(f)
    BY <1>0, <2>1 DEF Engine, Informed, Alive, SameMemory
  <2>3. Becomes(f) /\ suspended' = TRUE /\ UNCHANGED <<clock, ready>> BY <1>13, <2>1 DEF Manual
  <2>4. Grows(engine, f) BY <2>2, GrowsNothing
  <2>5. QED BY <1>0, <2>2, <2>3, <2>4, BecomesKeeps
<1>14. CASE Resume
  <2>1. PICK e : e = [engine EXCEPT !.override = FALSE] OBVIOUS
  <2>2. PICK f : f = IF engine.override /\ e.status # None THEN Reevaluate(e) ELSE e OBVIOUS
  <2>3. e \in Engine /\ SameMemory(engine, e) /\ e.override = FALSE /\ Informed(e)
    BY <1>0, <2>1 DEF Engine, Informed, Alive, SameMemory
  <2>4. Becomes(f) /\ suspended' = FALSE /\ UNCHANGED <<clock, ready>>
    BY <1>14, <2>1, <2>2 DEF Resume
  <2>5. Serves(e, f) BY <1>0, <2>2, <2>3, ReevaluateFacts, ServesAlike DEF SameMemory
  <2>6. f \in Engine /\ f.override = FALSE /\ Grows(e, f) /\ Informed(f)
    BY <1>0, <2>3, <2>5, ServesGrows DEF Serves
  <2>7. Grows(engine, f) BY <2>3, <2>6, GrowsAlike
  <2>8. QED BY <1>0, <2>4, <2>6, <2>7, BecomesKeeps
<1>15. CASE LongTimer
  <2>1. PICK f : f = Run(engine, "long_timer") OBVIOUS
  <2>2. "long_timer" \in Events BY DEF Events
  <2>3. RunsIn(engine, f, "long_timer") BY <1>0, <2>1, <2>2, RunFacts
  <2>4. f \in Engine /\ SameMemory(engine, f) /\ f.override = engine.override /\ Informed(f)
    BY <1>0, <2>3 DEF RunsIn, Informed, Alive
  <2>5. Becomes(f) /\ UNCHANGED <<clock, ready, suspended>> BY <1>15, <2>1 DEF LongTimer
  <2>6. Grows(engine, f) BY <2>4, GrowsNothing
  <2>7. QED BY <1>0, <2>4, <2>5, <2>6, BecomesKeeps
<1>16. ASSUME NEW v \in Values, NEW a \in Alerts, Status(v, a) PROVE EngineInv'
  <2>1. PICK f : f = StatusEvent(engine, v, a) OBVIOUS
  <2>2. Serves(engine, f) BY <1>0, <2>1, StatusEventFacts
  <2>3. Becomes(f) /\ UNCHANGED <<clock, ready, suspended>> BY <1>16, <2>1 DEF Status
  <2>4. QED BY <1>0, <2>2, <2>3, ServesGrows, BecomesKeeps DEF Serves
<1>17. ASSUME NEW s \in Scripts, NEW b \in BOOLEAN, Save(s, b) PROVE EngineInv'
  <2>1. PICK e : e = [engine EXCEPT !.enabled = b] OBVIOUS
  <2>2. PICK f : f = IF b THEN Load(e, s) ELSE Close(e) OBVIOUS
  <2>3. Leaves(f, s) /\ UNCHANGED <<clock, ready, suspended>>
    BY <1>17, <2>1, <2>2 DEF Save
  <2>4. e \in Engine /\ SameMemory(engine, e) /\ e.override = engine.override
    BY <1>0, <2>1 DEF Engine, SameMemory
  <2>5. f \in Engine /\ f.override = engine.override /\ Grows(engine, f) /\ Informed(f)
    <3>1. CASE b
      <4>1. f = Load(e, s) BY <2>2, <3>1
      <4>2. f \in Engine /\ f.override = e.override /\ Grows(e, f) /\ Informed(f)
        BY <1>0, <2>4, <4>1, LoadFacts
      <4>3. QED BY <2>4, <4>2, GrowsAlike
    <3>2. CASE ~b
      <4>1. f = Close(e) BY <2>2, <3>2
      <4>2. f \in Engine /\ f.override = e.override /\ SameMemory(e, f) /\ f.script = None
        BY <2>4, <4>1 DEF Close, Engine, SameMemory
      <4>3. QED BY <2>4, <4>2 DEF Grows, SameMemory, Informed, Alive
    <3>3. QED BY <3>1, <3>2
  <2>6. QED BY <1>0, <2>3, <2>5, LeavesKeeps
<1>18. CASE UNCHANGED vars
  BY <1>18 DEF vars, EngineInv, TypesInv, FilesInv, OverrideInv, LogInv, Stored, Memory, Informed,
               Alive
<1>19. QED
  BY <1>1, <1>2, <1>3, <1>4, <1>5, <1>6, <1>7, <1>8, <1>9, <1>10, <1>11, <1>12, <1>13, <1>14,
     <1>15, <1>16, <1>17, <1>18 DEF Next

-----------------------------------------------------------------------------
(* The theorems. *)

LEMMA EngineInvariant == Spec => []EngineInv
BY EngineInit, EngineStep, PTL DEF Spec

(* The engine, the files and the log are of their types, whatever calls    *)
(* into Lua and back a handler is made of (AutomationEngine,               *)
(* handleAutomationAction, processEvents).                                 *)
THEOREM EngineTypesCorrect == Spec => []TypeOK
<1>1. EngineInv => TypeOK
  <2> SUFFICES ASSUME EngineInv PROVE TypeOK
    OBVIOUS
  <2>1. engine \in Engine /\ clock \in 0..MaxClock /\ up \in BOOLEAN /\ ready \in BOOLEAN
        /\ suspended \in BOOLEAN
    BY DEF EngineInv, TypesInv
  <2>2. engine.handled \in Seq(Key) BY <2>1 DEF Engine
  <2>3. Handled(engine) \subseteq Key BY <2>2 DEF Handled
  <2>4. \A b \in {"dead", "connected", "flying", "awaiting", "enabled", "override"} :
          engine[b] \in BOOLEAN
    BY <2>1 DEF Engine
  <2>5. QED BY <2>1, <2>3, <2>4 DEF TypeOK, Engine
<1>2. QED BY <1>1, EngineInvariant, PTL

(* An occurrence of a plan that the server took is not handed over again   *)
(* but by a resume, over crashes, restarts and other scripts, unless more  *)
(* than HandledMax others were taken in between (actionAccepted,           *)
(* evaluateSchedules, savePersistentState).                                *)
THEOREM OccurrencesHandedOverOnce == Spec => []HandedOverOnce
<1>1. EngineInv => HandedOverOnce
  BY DEF EngineInv, LogInv, SeldomTwice, HandedOverOnce
<1>2. QED BY <1>1, EngineInvariant, PTL

(* After every status the running script was told the alarms of this       *)
(* status, whichever script was told before it and whatever came while the *)
(* override or an error kept events away (statusEvent,                     *)
(* publishDeviceAlerts).                                                   *)
THEOREM RunningScriptIsTold == Spec => AlarmsAreTold
<1>1. ASSUME EngineInv, Alive(engine'), ~engine'.override,
             NEW v \in Values, NEW a \in Alerts, Status(v, a)
      PROVE  engine'.told = a
  <2>1. PICK s : s = StatusEvent(engine, v, a) OBVIOUS
  <2>2. clock \in 0..MaxClock /\ engine \in Engine /\ Informed(engine)
    BY <1>1 DEF EngineInv, TypesInv
  <2>3. Serves(engine, s) /\ (~Mute(s) => s.told = a)
    BY <2>1, <2>2, StatusEventFacts
  <2>4. s \in Engine BY <2>3 DEF Serves
  <2>5. Leaves(s, disk.script) BY <1>1, <2>1 DEF Status, Becomes
  <2>6. /\ engine'.script = s.script /\ engine'.dead = s.dead /\ engine'.override = s.override
        /\ engine'.told = s.told
    BY <2>4, <2>5, LeavesFacts
  <2>7. ~Mute(s) BY <1>1, <2>6 DEF Mute, Alive
  <2>8. QED BY <2>3, <2>6, <2>7
<1>2. EngineInv /\ [Next]_vars
      => [Alive(engine') /\ ~engine'.override
            => \A v \in Values, a \in Alerts :
                  engine'.status = v /\ engine'.told # a => ~Status(v, a)]_vars
  BY <1>1
<1>3. QED BY <1>2, EngineInvariant, PTL DEF Spec, AlarmsAreTold

\* What Becomes and the operators say of the order in the queue.
LEMMA QuietWhenServed ==
  ASSUME EngineInv, NEW f, Serves(engine, f), Becomes(f), UNCHANGED suspended, NewOrder
  PROVE  ~engine.dead /\ ~suspended'
<1>0. f \in Engine BY DEF Serves
<1>1. f.queued # engine.queued BY <1>0, LeavesFacts DEF NewOrder, Becomes
<1>2. ~Mute(engine) BY <1>1 DEF Serves
<1>3. QED BY <1>2 DEF Mute, Alive, EngineInv, OverrideInv

LEMMA QuietStep ==
  ASSUME EngineInv, [Next]_vars, NewOrder
  PROVE  /\ engine.dead => \E s \in Scripts : Save(s, TRUE)
         /\ suspended' => engine'.queued.source = "long_timer"
<1>0. clock \in 0..MaxClock /\ engine \in Engine /\ engine.override = suspended /\ disk.script \in Scripts
  BY DEF EngineInv, TypesInv, OverrideInv
<1>00. engine'.queued # None /\ engine'.queued # engine.queued
  BY DEF NewOrder
<1>1. CASE Boot
  <2>1. PICK m : m = Memory(disk) OBVIOUS
  <2>2. m \in Engine /\ m.override = engine.override /\ m.queued = None
    BY <2>1, MemoryFacts
  <2>3. engine' = m \/ engine' = Load(m, disk.script) BY <1>1, <2>1 DEF Boot
  <2>4. ~engine.override
    <3>1. ASSUME engine.override PROVE FALSE
      <4>1. m.override BY <2>2, <3>1
      <4>2. Load(m, disk.script).queued = m.queued BY <1>0, <2>2, <4>1, LoadFacts
      <4>3. QED BY <1>00, <2>2, <2>3, <4>2
    <3>2. QED BY <3>1
  <2>5. ~up /\ suspended' = suspended BY <1>1 DEF Boot
  <2>6. engine = Memory(disk) BY <2>5 DEF EngineInv, FilesInv
  <2>7. ~engine.dead BY <2>6 DEF Memory
  <2>8. QED BY <1>0, <2>4, <2>5, <2>7
<1>2. CASE Crash
  <2>1. engine'.queued = None BY <1>2 DEF Crash, Memory
  <2>2. QED BY <1>00, <2>1
<1>3. CASE Tick \/ Ready \/ UNCHANGED vars
  <2>1. engine' = engine BY <1>3 DEF Tick, Ready, vars
  <2>2. QED BY <1>00, <2>1
<1>4. CASE Pulse
  <2>1. PICK f : f = ProcessTime(engine) OBVIOUS
  <2>2. Serves(engine, f) BY <1>0, <2>1, ProcessTimeFacts
  <2>3. Becomes(f) /\ UNCHANGED suspended BY <1>4, <2>1 DEF Pulse
  <2>4. QED BY <2>2, <2>3, QuietWhenServed
<1>5. CASE Start
  <2>1. PICK f : f = SetConnected(engine, FALSE) OBVIOUS
  <2>2. Serves(engine, f) BY <1>0, <2>1, SetConnectedFacts
  <2>3. Becomes(f) /\ UNCHANGED suspended BY <1>5, <2>1 DEF Start
  <2>4. QED BY <2>2, <2>3, QuietWhenServed
<1>6. CASE State
  <2>1. PICK e : e = SetConnected(engine, FALSE) OBVIOUS
  <2>2. PICK f : f = Resolve(e) OBVIOUS
  <2>3. Serves(engine, e) /\ e \in Engine BY <1>0, <2>1, SetConnectedFacts DEF Serves
  <2>4. Serves(e, f) BY <1>0, <2>2, <2>3, ResolveFacts
  <2>5. Serves(engine, f) BY <1>0, <2>3, <2>4, ServesTwice
  <2>6. Becomes(f) /\ UNCHANGED suspended BY <1>6, <2>1, <2>2 DEF State
  <2>7. QED BY <2>5, <2>6, QuietWhenServed
<1>7. CASE Fails
  <2>1. PICK e : e = [engine EXCEPT !.failing = @ - 1] OBVIOUS
  <2>2. Leaves(Command(e), disk.script) BY <1>7, <2>1 DEF Fails, Becomes
  <2>3. e.queued = engine.queued BY <1>0, <2>1 DEF Engine
  <2>4. engine.failing - 1 \in 0..MaxFailing BY <1>0, <1>7, HandledAssumption DEF Fails, Engine
  <2>5. e \in Engine BY <1>0, <2>1, <2>4 DEF Engine
  <2>6. engine'.queued = engine.queued BY <2>2, <2>3, <2>5, CommandFacts, LeavesFacts
  <2>7. QED BY <1>00, <2>6
<1>8. CASE Accepted \/ Manual
  <2>1. engine'.queued = engine.queued BY <1>0, <1>8 DEF Accepted, Manual, Becomes, Leaves, Engine
  <2>2. QED BY <1>00, <2>1
<1>9. CASE Take \/ Refused \/ Unready
  <2>1. engine'.queued \in {None, engine.queued}
    BY <1>0, <1>9 DEF Take, Refused, Unready, Becomes, Leaves, Engine
  <2>2. QED BY <1>00, <2>1
<1>10. CASE Resume
  <2>1. PICK e : e = [engine EXCEPT !.override = FALSE] OBVIOUS
  <2>2. e \in Engine /\ e.queued = engine.queued /\ e.dead = engine.dead /\ e.script = engine.script
    BY <1>0, <2>1 DEF Engine
  <2>3. Leaves(e, disk.script) \/ Leaves(Reevaluate(e), disk.script)
    BY <1>10, <2>1 DEF Resume, Becomes
  <2>4. ~Mute(e)
    <3>1. Mute(e) => Reevaluate(e) = e BY <1>0, <2>2, ReevaluateFacts
    <3>2. Leaves(e, disk.script) => engine'.queued = e.queued BY <2>2, LeavesFacts
    <3>3. QED BY <1>00, <2>2, <2>3, <3>1, <3>2
  <2>5. ~engine.dead BY <2>2, <2>4 DEF Mute, Alive
  <2>6. ~suspended' BY <1>10 DEF Resume
  <2>7. QED BY <2>5, <2>6
<1>11. CASE LongTimer
  <2>1. PICK f : f = Run(engine, "long_timer") OBVIOUS
  <2>2. "long_timer" \in Events BY DEF Events
  <2>3. RunsIn(engine, f, "long_timer") BY <1>0, <2>1, <2>2, RunFacts
  <2>4. f \in Engine /\ Leaves(f, disk.script) BY <1>11, <2>1, <2>3 DEF LongTimer, Becomes, RunsIn
  <2>40. engine'.queued = f.queued BY <2>4, LeavesFacts
  <2>5. Alive(engine) /\ f.queued.source = "long_timer" BY <1>00, <2>3, <2>40 DEF RunsIn
  <2>6. QED BY <2>40, <2>5 DEF Alive
<1>12. ASSUME NEW v \in Values, NEW a \in Alerts, Status(v, a)
       PROVE  ~engine.dead /\ ~suspended'
  <2>1. PICK f : f = StatusEvent(engine, v, a) OBVIOUS
  <2>2. Serves(engine, f) BY <1>0, <2>1, StatusEventFacts
  <2>3. Becomes(f) /\ UNCHANGED suspended BY <1>12, <2>1 DEF Status
  <2>4. QED BY <2>2, <2>3, QuietWhenServed
<1>13. ASSUME NEW s \in Scripts, NEW b \in BOOLEAN, Save(s, b)
       PROVE  b /\ ~suspended'
  <2>1. PICK e : e = [engine EXCEPT !.enabled = b] OBVIOUS
  <2>2. e \in Engine /\ e.queued = engine.queued /\ e.override = engine.override
    BY <1>0, <2>1 DEF Engine
  <2>3. Leaves(IF b THEN Load(e, s) ELSE Close(e), s) /\ suspended' = suspended
    BY <1>13, <2>1 DEF Save
  <2>4. Close(e).queued = e.queued /\ Close(e) \in Engine BY <2>2 DEF Close, Engine
  <2>40. Load(e, s) \in Engine BY <1>0, <2>2, LoadFacts
  <2>41. engine'.queued = IF b THEN Load(e, s).queued ELSE e.queued
    <3>1. CASE b BY <2>3, <2>40, <3>1, LeavesFacts
    <3>2. CASE ~b BY <2>3, <2>4, <3>2, LeavesFacts
    <3>3. QED BY <3>1, <3>2
  <2>5. b BY <1>00, <2>2, <2>41
  <2>6. engine.override => Load(e, s).queued = e.queued BY <1>0, <2>2, LoadFacts
  <2>7. ~engine.override BY <1>00, <2>2, <2>41, <2>5, <2>6
  <2>8. QED BY <1>0, <2>3, <2>5, <2>7
<1>14. CASE \E v \in Values, a \in Alerts : Status(v, a)
  BY <1>12, <1>14
<1>15. CASE \E s \in Scripts, b \in BOOLEAN : Save(s, b)
  <2>1. PICK s \in Scripts, b \in BOOLEAN : Save(s, b) BY <1>15
  <2>2. b /\ ~suspended' BY <1>13, <2>1
  <2>3. b = TRUE BY <2>2
  <2>4. Save(s, TRUE) BY <2>1, <2>3
  <2>5. QED BY <2>2, <2>4
<1>16. QED
  BY <1>1, <1>2, <1>3, <1>4, <1>5, <1>6, <1>7, <1>8, <1>9, <1>10, <1>11, <1>14, <1>15 DEF Next

(* After a Lua error there is no order until a script is loaded, and none  *)
(* but the long press while the users have suspended the automation: it    *)
(* holds through every nested call of the engine, and because the override *)
(* on the disk is the one in force (callEvent, evaluateSchedules).         *)
THEOREM EngineSilent == Spec => SilentWhenDeadOrSuspended
<1>1. EngineInv /\ [Next]_vars
      => [NewOrder => /\ engine.dead => \E s \in Scripts : Save(s, TRUE)
                      /\ suspended' => engine'.queued.source = "long_timer"]_vars
  BY QuietStep
<1>2. QED BY <1>1, EngineInvariant, PTL DEF Spec, SilentWhenDeadOrSuspended

LEMMA PulseStep ==
  ASSUME EngineInv, engine.minute # clock, engine.connected, ready, ~engine.override,
         ~Busy(engine), Alive(engine), "time" \notin DOMAIN engine.script.orders, Pulse,
         Alive(engine'), InForce[engine.script][clock] # None
  PROVE  InForce[engine.script][clock].key \in Handled(engine')
<1>0. clock \in 0..MaxClock /\ engine \in Engine
  BY DEF EngineInv, TypesInv
<1>1. PICK f : f = [engine EXCEPT !.minute = clock] OBVIOUS
<1>2. PICK g : g = CallEvent(f, "time") OBVIOUS
<1>3. PICK h : h = Evaluate(g, FALSE) OBVIOUS
<1>4. Leaves(h, disk.script) BY <1>1, <1>2, <1>3 DEF Pulse, Becomes, ProcessTime, Alive
<1>5. /\ f \in Engine /\ f.script = engine.script /\ f.override = engine.override
      /\ f.dead = engine.dead /\ f.queued = engine.queued /\ f.awaiting = engine.awaiting
      /\ f.connected = engine.connected
  BY <1>0, <1>1 DEF Engine
<1>6. "time" \in Events BY DEF Events
<1>7. g = Run(f, "time") BY <1>2, <1>5 DEF CallEvent
<1>8. RunsIn(f, g, "time") BY <1>5, <1>6, <1>7, RunFacts
<1>9. g \in Engine BY <1>8 DEF RunsIn
<1>10. Alive(g) /\ Handled(engine') = Handled(h)
  <2>1. Serves(g, h) /\ h \in Engine BY <1>0, <1>3, <1>9, EvaluateFacts
  <2>2. engine'.script = h.script /\ engine'.dead = h.dead /\ engine'.handled = h.handled
    BY <1>4, <2>1, LeavesFacts
  <2>3. QED BY <2>1, <2>2 DEF Serves, Alive, Handled
<1>11. g = f BY <1>5, <1>8, <1>10 DEF RunsIn
<1>12. ~Busy(f) /\ ~Mute(f) BY <1>5 DEF Busy, Mute, Alive
<1>13. InForce[f.script][clock].key \in Handled(Evaluate(f, FALSE))
  BY <1>0, <1>5, <1>12, EvaluateFacts
<1>14. QED BY <1>3, <1>5, <1>10, <1>11, <1>13

(* The first pulse of a minute settles the plan in force, however long it  *)
(* was refused before (processTime, evaluateSchedules,                     *)
(* handleAutomationAction).                                                *)
THEOREM PulseSettles == Spec => PulseSettlesPlan
<1>1. EngineInv /\ [Next]_vars
      => [engine.minute # clock /\ engine.connected /\ ready /\ ~engine.override /\ ~Busy(engine)
            /\ Alive(engine) /\ "time" \notin DOMAIN engine.script.orders /\ Pulse /\ Alive(engine')
            => LET p == InForce[engine.script][clock]
               IN  p # None => p.key \in Handled(engine')]_vars
  BY PulseStep
<1>2. QED BY <1>1, EngineInvariant, PTL DEF Spec, PulseSettlesPlan

-----------------------------------------------------------------------------
(* The table of plans (ScheduleTable). *)

\* A call is in the table as a whole: its name has no other plans.
TableInv ==
    /\ table \subseteq Schedule /\ Apart(table)
    /\ \A s \in table : s.days # {}
    /\ IsFiniteSet({s.name : s \in table}) /\ Cardinality({s.name : s \in table}) <= MaxNames
    /\ \A r \in accepted : r \in Requests /\ WellFormed(r)
    /\ \A r \in accepted : {p \in table : p.name = r.name} = Additions(r)

LEMMA AdditionFacts ==
  ASSUME NEW r \in Requests, WellFormed(r), NEW p \in Additions(r)
  PROVE  p \in Schedule /\ p.days # {} /\ p.name = r.name
<1>1. /\ r.name \in Names /\ (r.at = None) # (r.between = None) /\ r.at # Bad /\ r.between # Bad
      /\ DaysOf(r) # {} /\ DaysOf(r) \subseteq Days /\ r.catchUp # Bad /\ r.set \in Values
      /\ r.between # None => r.outside \in Values
  BY DEF WellFormed
<1>2. CatchUpOf(r) \in BOOLEAN
  BY <1>1, RequestsAssumption DEF CatchUpOf
<1>3. CASE r.at # None
  <2>1. r.at \in Minutes
    BY <1>1, <1>3, RequestsAssumption
  <2>2. p = [name |-> r.name, phase |-> "once", minute |-> r.at, days |-> DaysOf(r),
             values |-> r.set, catchUp |-> CatchUpOf(r)]
    BY <1>3 DEF Additions
  <2> QED BY <1>1, <1>2, <2>1, <2>2 DEF Schedule, Phases
<1>4. CASE r.at = None
  <2>1. r.between \in Minutes \X Minutes /\ r.outside \in Values
    BY <1>1, <1>4, RequestsAssumption
  <2>2. PICK f, t : f = r.between[1] /\ t = r.between[2] /\ f \in Minutes /\ t \in Minutes
    BY <2>1
  <2>3. PICK D : D = DaysOf(r) OBVIOUS
  <2>4. PICK E : E = EndDays(D, f, t) OBVIOUS
  <2>5. E \subseteq Days /\ E # {}
    <3>1. CASE t < f
      <4>1. E = {IF d = WeekDays THEN 1 ELSE d + 1 : d \in D}
        BY <2>4, <3>1 DEF EndDays
      <4>2. ASSUME NEW d \in D PROVE (IF d = WeekDays THEN 1 ELSE d + 1) \in Days
        BY <1>1, <2>3, CalendarAssumption DEF Days
      <4> QED BY <1>1, <2>3, <4>1, <4>2
    <3>2. CASE ~(t < f)
      BY <1>1, <2>3, <2>4, <3>2 DEF EndDays
    <3> QED BY <3>1, <3>2
  <2>6. \/ p = [name |-> r.name, phase |-> "Beginn", minute |-> f, days |-> D,
                values |-> r.set, catchUp |-> CatchUpOf(r)]
        \/ p = [name |-> r.name, phase |-> "Ende", minute |-> t, days |-> E,
                values |-> r.outside, catchUp |-> CatchUpOf(r)]
    BY <1>4, <2>2, <2>3, <2>4, Zenon DEF Additions
  <2> QED BY <1>1, <1>2, <2>1, <2>2, <2>3, <2>5, <2>6 DEF Schedule, Phases
<1> QED BY <1>3, <1>4

LEMMA TableInvInit == TableInit => TableInv
<1> SUFFICES ASSUME TableInit PROVE TableInv
  OBVIOUS
<1>1. {s.name : s \in table} = {}
  BY DEF TableInit
<1> QED BY <1>1, FS_EmptySet, CalendarAssumption DEF TableInit, TableInv, Apart

LEMMA StepLuaSchedule ==
  ASSUME TableInv, NEW r \in Requests, LuaSchedule(r)
  PROVE  TableInv'
<1>1. /\ Accepts(table, r) /\ WellFormed(r) /\ table' = table \cup Additions(r)
      /\ Cardinality({s.name : s \in table}) < MaxNames /\ \A s \in table : s.name # r.name
      /\ accepted' = accepted \cup {r}
  BY DEF LuaSchedule, Accepts, Register
<1>2. \A p \in Additions(r) : p \in Schedule /\ p.days # {} /\ p.name = r.name
  BY <1>1, AdditionFacts
<1>3. Apart(table')
  BY PlansStayApart DEF TableInv, LuaSchedule
<1>4. Additions(r) # {}
  BY Zenon DEF Additions
<1>5. PICK N : N = {s.name : s \in table} OBVIOUS
<1>6. {s.name : s \in table'} = N \cup {r.name}
  BY <1>1, <1>2, <1>4, <1>5
<1>7. IsFiniteSet(N \cup {r.name}) /\ Cardinality(N \cup {r.name}) <= MaxNames
  <2>1. IsFiniteSet(N) /\ Cardinality(N) < MaxNames /\ Cardinality(N) \in Nat
    BY <1>1, <1>5, FS_CardinalityType DEF TableInv
  <2>2. r.name \notin N
    BY <1>1, <1>5
  <2>3. IsFiniteSet(N \cup {r.name}) /\ Cardinality(N \cup {r.name}) = Cardinality(N) + 1
    BY <2>1, <2>2, FS_AddElement
  <2> QED BY <2>1, <2>3, CalendarAssumption
<1>8. ASSUME NEW q \in accepted' PROVE {p \in table' : p.name = q.name} = Additions(q)
  <2>1. CASE q = r
    BY <1>1, <1>2, <2>1
  <2>2. CASE q # r
    <3>1. q \in accepted /\ {p \in table : p.name = q.name} = Additions(q)
      BY <1>1, <2>2 DEF TableInv
    <3>2. Additions(q) # {}
      BY Zenon DEF Additions
    <3>3. q.name # r.name
      BY <1>1, <3>1, <3>2
    <3> QED BY <1>1, <1>2, <3>1, <3>3
  <2> QED BY <2>1, <2>2
<1> QED BY <1>1, <1>2, <1>3, <1>5, <1>6, <1>7, <1>8 DEF TableInv

LEMMA TableInvariant == TableSpec => []TableInv
<1>1. TableInv /\ [TableNext]_tableVars => TableInv'
  <2> SUFFICES ASSUME TableInv, [TableNext]_tableVars PROVE TableInv'
    OBVIOUS
  <2>1. CASE CloseState
    <3>1. {s.name : s \in table'} = {}
      BY <2>1 DEF CloseState
    <3>2. IsFiniteSet({}) /\ Cardinality({}) <= MaxNames
      BY FS_EmptySet, CalendarAssumption
    <3>3. table' = {} /\ accepted' = {}
      BY <2>1 DEF CloseState
    <3>4. Apart(table')
      BY <3>3 DEF Apart
    <3> QED BY <3>1, <3>2, <3>3, <3>4 DEF TableInv
  <2>2. CASE UNCHANGED tableVars
    BY <2>2 DEF tableVars, TableInv
  <2> QED BY <2>1, <2>2, StepLuaSchedule DEF TableNext
<1> QED BY <1>1, TableInvInit, PTL DEF TableSpec

(* Whatever a script registers, and however often it is loaded again, the  *)
(* table holds plans that can be due, of no more than MaxNames names       *)
(* (luaSchedule).                                                          *)
THEOREM TableTypesCorrect == TableSpec => []TableTypeOK
<1>1. TableInv => TableTypeOK
  BY DEF TableInv, TableTypeOK, Schedule, Minutes
<1> QED BY <1>1, TableInvariant, PTL

(* No two plans of the table are due at the same moment (OneAtATime), on   *)
(* every calendar: evaluateSchedules never has to choose between two       *)
(* equally late ones.                                                      *)
THEOREM PlansDueOneAtATime == TableSpec => []OneAtATime
<1>1. ASSUME TableInv, NEW now \in Horizon, NEW s \in table, NEW t \in table,
             now \in Moments(s, now), now \in Moments(t, now)
      PROVE  s = t
  <2>1. now \in Nat /\ s \in Schedule /\ t \in Schedule
    <3>1. WeekDays * DayLength \in Nat
      BY CalendarAssumption
    <3> QED BY <1>1, <3>1 DEF TableInv, Horizon
  <2>2. WeekdayOf(now) \in s.days \cap t.days
    BY <1>1, <2>1, MinuteOfMoment
  <2>3. PICK d \in Nat : now = d * DayLength + s.minute
    BY <1>1, <2>1, MinuteOfMoment
  <2>4. PICK e \in Nat : now = e * DayLength + t.minute
    BY <1>1, <2>1, MinuteOfMoment
  <2>5. s.minute \in 0..(DayLength - 1) /\ t.minute \in 0..(DayLength - 1)
    BY <2>1 DEF Schedule, Minutes
  <2>6. s.minute = t.minute
    BY <2>3, <2>4, <2>5, CalendarAssumption, OneMinute
  <2> QED BY <1>1, <2>2, <2>6 DEF TableInv, Apart, Conflict
<1>2. TableInv => OneAtATime
  BY <1>1, Zenon DEF OneAtATime
<1> QED BY <1>2, TableInvariant, PTL

-----------------------------------------------------------------------------
(* When a plan of the table is due: the calendar. *)

LEMMA DivisionFacts ==
  ASSUME NEW L \in Nat \ {0}, NEW x \in Nat
  PROVE  /\ x \div L \in Nat /\ x % L \in 0..(L - 1)
         /\ x = (x \div L) * L + (x % L)
  OBVIOUS

LEMMA Division ==
  ASSUME NEW L \in Nat \ {0}, NEW k \in Nat, NEW m \in 0..(L - 1)
  PROVE  (k * L + m) \div L = k /\ (k * L + m) % L = m
<1>1. PICK x \in Nat : x = k * L + m
  <2>1. k * L \in Nat OBVIOUS
  <2> QED BY <2>1
<1>2. PICK d \in Nat, n \in 0..(L - 1) : d = x \div L /\ n = x % L /\ x = d * L + n
  BY DivisionFacts
<1>3. m = n
  BY <1>1, <1>2, OneMinute
<1>4. d * L = k * L
  <2>1. d * L \in Nat /\ k * L \in Nat OBVIOUS
  <2> QED BY <1>1, <1>2, <1>3, <2>1
<1>5. d = k
  <2>1. ASSUME NEW i \in Nat, NEW j \in Nat, i < j PROVE i * L # j * L
    <3>1. PICK h \in Nat : j = i + 1 + h
      <4>1. j - i - 1 \in Nat /\ j = i + 1 + (j - i - 1)
        BY <2>1
      <4> QED BY <4>1
    <3>2. j * L = i * L + L + h * L
      BY <3>1
    <3>3. h * L \in Nat /\ i * L \in Nat
      OBVIOUS
    <3> QED BY <3>2, <3>3
  <2> QED BY <1>4, <2>1
<1> QED BY <1>1, <1>2, <1>3, <1>5

\* A later day begins later, whatever the minutes.
LEMMA DayOrder ==
  ASSUME NEW L \in Nat \ {0}, NEW i \in Nat, NEW j \in Nat, NEW m \in 0..(L - 1),
         NEW n \in 0..(L - 1)
  PROVE  /\ i < j => i * L + m < j * L + n
         /\ i * L + m <= j * L + n => i <= j
<1>1. ASSUME NEW a \in Nat, NEW b \in Nat, a < b, NEW p \in 0..(L - 1), NEW q \in 0..(L - 1)
      PROVE  a * L + p < b * L + q
  <2>1. PICK h \in Nat : b = a + 1 + h
    <3>1. b - a - 1 \in Nat /\ b = a + 1 + (b - a - 1)
      BY <1>1
    <3> QED BY <3>1
  <2>2. b * L = a * L + L + h * L
    BY <2>1
  <2>3. h * L \in Nat /\ a * L \in Nat
    OBVIOUS
  <2> QED BY <2>2, <2>3
<1>2. i * L \in Nat /\ j * L \in Nat
  OBVIOUS
<1>3. i < j => i * L + m < j * L + n
  BY <1>1
<1>4. j < i => j * L + n < i * L + m
  BY <1>1
<1> QED BY <1>2, <1>3, <1>4

LEMMA MomentAt ==
  ASSUME NEW s \in Schedule, NEW now \in Nat, NEW k \in Nat, k <= DayOf(now),
         DayOf(now) - k <= WeekDays, k * DayLength + s.minute <= now, 1 + (k % WeekDays) \in s.days
  PROVE  k * DayLength + s.minute \in Moments(s, now)
<1>1. DayOf(now) \in Nat
  BY CalendarAssumption, DivisionFacts DEF DayOf
<1>2. s.minute \in 0..(DayLength - 1)
  BY DEF Schedule, Minutes
<1>3. PICK back \in Nat : back = DayOf(now) - k /\ back <= DayOf(now) /\ k = DayOf(now) - back
  <2>1. DayOf(now) - k \in Nat
    BY <1>1
  <2> QED BY <1>1, <2>1
<1>4. back \in LookBack
  BY <1>3, CalendarAssumption DEF LookBack
<1>5. WeekdayOf(k * DayLength + s.minute) \in s.days
  <2>1. DayOf(k * DayLength + s.minute) = k
    BY <1>2, CalendarAssumption, Division DEF DayOf
  <2> QED BY <2>1 DEF WeekdayOf
<1>6. PICK t : t = k * DayLength + s.minute
  OBVIOUS
<1>7. t = (DayOf(now) - back) * DayLength + s.minute
  BY <1>3, <1>6
<1> QED BY <1>3, <1>4, <1>5, <1>6, <1>7 DEF Moments

LEMMA MomentIsAt ==
  ASSUME NEW s \in Schedule, NEW now \in Nat, NEW x \in Moments(s, now)
  PROVE  \E k \in Nat : /\ k <= DayOf(now) /\ DayOf(now) - k <= WeekDays
                        /\ x = k * DayLength + s.minute /\ 1 + (k % WeekDays) \in s.days
<1>1. DayOf(now) \in Nat
  BY CalendarAssumption, DivisionFacts DEF DayOf
<1>2. s.minute \in 0..(DayLength - 1)
  BY DEF Schedule, Minutes
<1>3. PICK back \in LookBack : back <= DayOf(now) /\ x = (DayOf(now) - back) * DayLength + s.minute
  BY DEF Moments
<1>4. back \in Nat /\ back <= WeekDays
  BY CalendarAssumption DEF LookBack
<1>5. PICK k \in Nat : k = DayOf(now) - back
  BY <1>1, <1>3, <1>4
<1>6. k <= DayOf(now) /\ DayOf(now) - k <= WeekDays
  BY <1>1, <1>4, <1>5, CalendarAssumption
<1>7. DayOf(x) = k
  BY <1>2, <1>3, <1>5, CalendarAssumption, Division DEF DayOf
<1>8. WeekdayOf(x) \in s.days
  BY MinuteOfMoment
<1> QED BY <1>3, <1>5, <1>6, <1>7, <1>8 DEF WeekdayOf

LEMMA HorizonFacts ==
  ASSUME NEW now \in Horizon
  PROVE  /\ now \in Nat /\ DayOf(now) \in WeekDays..(2 * WeekDays - 1)
         /\ \E m \in Minutes : m = now % DayLength /\ now = DayOf(now) * DayLength + m
<1>1. WeekDays * DayLength \in Nat
  BY CalendarAssumption
<1>2. now \in Nat /\ WeekDays * DayLength <= now /\ now < 2 * WeekDays * DayLength
  BY <1>1, CalendarAssumption DEF Horizon
<1>3. PICK m \in 0..(DayLength - 1), D \in Nat : D = DayOf(now) /\ m = now % DayLength
                                                 /\ now = D * DayLength + m
  BY <1>2, CalendarAssumption, DivisionFacts DEF DayOf
<1>4. WeekDays <= D
  <2>1. WeekDays * DayLength + 0 <= D * DayLength + m
    BY <1>1, <1>2, <1>3
  <2> QED BY <2>1, <1>3, CalendarAssumption, DayOrder
<1>5. D < 2 * WeekDays
  <2>1. ~((2 * WeekDays) * DayLength + 0 <= D * DayLength + m)
    <3>1. (2 * WeekDays) * DayLength = 2 * WeekDays * DayLength
      BY CalendarAssumption
    <3>2. (2 * WeekDays) * DayLength \in Nat
      BY CalendarAssumption
    <3> QED BY <1>2, <1>3, <3>1, <3>2
  <2>2. CASE 2 * WeekDays = D
    BY <2>1, <2>2, <1>3, CalendarAssumption
  <2>3. CASE 2 * WeekDays < D
    <3>1. 2 * WeekDays \in Nat /\ 0 \in 0..(DayLength - 1)
      BY CalendarAssumption
    <3>2. PICK E \in Nat : E = 2 * WeekDays
      BY <3>1
    <3>3. E * DayLength + 0 < D * DayLength + m
      BY <2>3, <1>3, <3>1, <3>2, CalendarAssumption, DayOrder
    <3>4. E * DayLength \in Nat /\ D * DayLength \in Nat
      BY CalendarAssumption
    <3> QED BY <2>1, <1>3, <3>2, <3>3, <3>4
  <2> QED BY <2>2, <2>3, <1>3, CalendarAssumption
<1> QED BY <1>2, <1>3, <1>4, <1>5, CalendarAssumption DEF Minutes

\* After a week every plan has been due.
LEMMA WeekHasMoment ==
  ASSUME NEW s \in Schedule, s.days # {}, NEW now \in Horizon
  PROVE  Moments(s, now) # {}
<1>1. PICK d \in s.days : d \in 1..WeekDays
  BY DEF Schedule, Days
<1>2. PICK D \in Nat : D = DayOf(now) /\ WeekDays <= D /\ D < 2 * WeekDays
  BY HorizonFacts, CalendarAssumption
<1>3. s.minute \in 0..(DayLength - 1)
  BY DEF Schedule, Minutes
<1>4. now \in Nat /\ \E m \in 0..(DayLength - 1) : now = D * DayLength + m
  BY <1>2, HorizonFacts DEF Minutes
<1>5. \E k \in Nat : k < D /\ D - k <= WeekDays /\ k % WeekDays = d - 1
  <2>1. d - 1 \in 0..(WeekDays - 1)
    BY <1>1, CalendarAssumption
  <2>2. CASE WeekDays + (d - 1) < D
    <3>1. (1 * WeekDays + (d - 1)) % WeekDays = d - 1
      BY <2>1, CalendarAssumption, Division
    <3>2. PICK k \in Nat : k = WeekDays + (d - 1)
      BY <2>1, CalendarAssumption
    <3>3. k % WeekDays = d - 1
      BY <3>1, <3>2, <2>1, CalendarAssumption
    <3> QED BY <3>2, <3>3, <2>1, <2>2, <1>2, CalendarAssumption
  <2>3. CASE ~(WeekDays + (d - 1) < D)
    <3>1. (0 * WeekDays + (d - 1)) % WeekDays = d - 1
      BY <2>1, CalendarAssumption, Division
    <3>2. PICK k \in Nat : k = d - 1
      BY <2>1, CalendarAssumption
    <3>3. k % WeekDays = d - 1
      BY <3>1, <3>2, <2>1, CalendarAssumption
    <3> QED BY <3>2, <3>3, <2>1, <2>3, <1>2, CalendarAssumption
  <2> QED BY <2>2, <2>3
<1>6. PICK k \in Nat : k < D /\ D - k <= WeekDays /\ k % WeekDays = d - 1
  BY <1>5
<1>7. k * DayLength + s.minute <= now
  <2>1. PICK m \in 0..(DayLength - 1) : now = D * DayLength + m
    BY <1>4
  <2>2. k * DayLength + s.minute < D * DayLength + m
    BY <1>2, <1>3, <1>6, <2>1, CalendarAssumption, DayOrder
  <2>3. k * DayLength \in Nat /\ D * DayLength \in Nat
    BY CalendarAssumption
  <2> QED BY <1>3, <2>1, <2>2, <2>3
<1>8. 1 + (k % WeekDays) \in s.days
  BY <1>1, <1>6, CalendarAssumption
<1> QED BY <1>2, <1>4, <1>6, <1>7, <1>8, MomentAt

\* A plan with catch_up that has moments is due, at the newest of them.
LEMMA CatchUpFacts ==
  ASSUME NEW s \in Schedule, NEW now \in Nat, Moments(s, now) # {}, s.catchUp
  PROVE  Occurrence(s, now) # None
<1>1. \E t \in Moments(s, now) : \A u \in Moments(s, now) : u <= t
  BY MomentFacts, Newest
<1>2. PICK newest : newest = CHOOSE t \in Moments(s, now) : \A u \in Moments(s, now) : u <= t
  OBVIOUS
<1>3. newest \in Moments(s, now)
  BY <1>1, <1>2
<1>4. Occurrence(s, now) = newest
  BY <1>2 DEF Occurrence
<1> QED BY <1>3, <1>4, MomentFacts, NoneAssumption

LEMMA OwnMinute == TableInv => OnlyInItsMinute
<1> SUFFICES ASSUME TableInv, NEW s \in table, ~s.catchUp, NEW now \in Horizon
             PROVE  Occurrence(s, now) # None
                    <=> WeekdayOf(now) \in s.days /\ now % DayLength = s.minute
  BY DEF OnlyInItsMinute
<1>1. now \in Nat /\ s \in Schedule
  BY HorizonFacts DEF TableInv
<1>2. s.minute \in 0..(DayLength - 1)
  BY <1>1 DEF Schedule, Minutes
<1>3. ASSUME Occurrence(s, now) # None PROVE WeekdayOf(now) \in s.days /\ now % DayLength = s.minute
  <2>1. Occurrence(s, now) = now
    BY <1>3 DEF Occurrence
  <2>2. now \in Moments(s, now)
    BY <1>1, <1>3, <2>1, OccurrenceFacts
  <2>3. PICK d \in Nat : now = d * DayLength + s.minute
    BY <1>1, <2>2, MinuteOfMoment
  <2>4. WeekdayOf(now) \in s.days
    BY <1>1, <2>2, MinuteOfMoment
  <2> QED BY <1>2, <2>3, <2>4, CalendarAssumption, Division
<1>4. ASSUME WeekdayOf(now) \in s.days, now % DayLength = s.minute PROVE Occurrence(s, now) # None
  <2>1. PICK D \in Nat : D = DayOf(now)
    BY HorizonFacts, CalendarAssumption
  <2>2. now = D * DayLength + s.minute
    BY <1>4, <2>1, HorizonFacts
  <2>3. now \in Moments(s, now)
    <3>1. D * DayLength + s.minute \in Moments(s, now)
      BY <1>1, <1>4, <2>1, <2>2, MomentAt, CalendarAssumption DEF WeekdayOf
    <3> QED BY <2>2, <3>1
  <2>4. \E t \in Moments(s, now) : \A u \in Moments(s, now) : u <= t
    BY <1>1, <2>3, MomentFacts, Newest
  <2>5. PICK newest : newest = CHOOSE t \in Moments(s, now) : \A u \in Moments(s, now) : u <= t
    OBVIOUS
  <2>6. newest \in Moments(s, now) /\ now <= newest
    BY <2>3, <2>4, <2>5
  <2>7. newest = now
    BY <1>1, <2>6, MomentFacts
  <2>8. Occurrence(s, now) = newest
    BY <2>3, <2>5, <2>7 DEF Occurrence
  <2> QED BY <1>1, <2>7, <2>8, NoneAssumption
<1> QED BY <1>3, <1>4

\* The day after k is a day the range's end is planned on.
LEMMA NextWeekday ==
  ASSUME NEW k \in Nat
  PROVE  1 + ((k + 1) % WeekDays)
         = (IF 1 + (k % WeekDays) = WeekDays THEN 1 ELSE 1 + (k % WeekDays) + 1)
<1>1. PICK d \in Nat, n \in 0..(WeekDays - 1) : n = k % WeekDays /\ k = d * WeekDays + n
  BY CalendarAssumption, DivisionFacts
<1>2. CASE n = WeekDays - 1
  <2>1. k + 1 = (d + 1) * WeekDays + 0
    <3>1. (d + 1) * WeekDays = d * WeekDays + WeekDays
      BY CalendarAssumption
    <3>2. d * WeekDays \in Nat
      BY CalendarAssumption
    <3> QED BY <1>1, <1>2, <3>1, <3>2, CalendarAssumption
  <2>2. ((d + 1) * WeekDays + 0) % WeekDays = 0
    BY CalendarAssumption, Division
  <2> QED BY <1>1, <1>2, <2>1, <2>2, CalendarAssumption
<1>3. CASE n # WeekDays - 1
  <2>1. k + 1 = d * WeekDays + (n + 1)
    <3>1. d * WeekDays \in Nat
      BY CalendarAssumption
    <3> QED BY <1>1, <3>1
  <2>2. n + 1 \in 0..(WeekDays - 1)
    BY <1>3, CalendarAssumption
  <2>3. (d * WeekDays + (n + 1)) % WeekDays = n + 1
    BY <2>2, CalendarAssumption, Division
  <2> QED BY <1>1, <1>3, <2>1, <2>3, CalendarAssumption
<1> QED BY <1>2, <1>3

\* The two plans b and e of a range, and the days on which it is over: k + shift
\* for one that begins on day k.
IsRange(b, e, shift) ==
    /\ b \in Schedule /\ e \in Schedule /\ b.catchUp /\ e.catchUp /\ b.days # {} /\ e.days # {}
    /\ b.minute # e.minute
    /\ shift = (IF e.minute < b.minute THEN 1 ELSE 0)
    /\ \A k \in Nat : 1 + (k % WeekDays) \in b.days => 1 + ((k + shift) % WeekDays) \in e.days

\* The moment lies in a range that began on day k.
Within(b, e, shift, k, now) ==
    /\ 1 + (k % WeekDays) \in b.days
    /\ k * DayLength + b.minute <= now /\ now < (k + shift) * DayLength + e.minute

\* In the range the beginning is the later of the two.
LEMMA BeginIsLater ==
  ASSUME NEW b, NEW e, NEW shift, IsRange(b, e, shift), NEW now \in Horizon,
         NEW k \in 0..DayOf(now), Within(b, e, shift, k, now)
  PROVE  Occurrence(e, now) < Occurrence(b, now)
<1>1. PICK D \in Nat : D = DayOf(now) /\ WeekDays <= D
  BY HorizonFacts, CalendarAssumption
<1>2. PICK p \in 0..(DayLength - 1) : now = D * DayLength + p
  BY <1>1, HorizonFacts DEF Minutes
<1>3. now \in Nat /\ k \in Nat /\ k <= D /\ b \in Schedule /\ e \in Schedule /\ shift \in 0..1
  BY <1>1, HorizonFacts DEF IsRange
<1>4. PICK f \in 0..(DayLength - 1), t \in 0..(DayLength - 1) :
           f = b.minute /\ t = e.minute /\ f # t /\ shift = (IF t < f THEN 1 ELSE 0)
  BY <1>3 DEF IsRange, Schedule, Minutes
<1>5. D <= k + shift
  <2>1. PICK j \in Nat : j = k + shift
    BY <1>3
  <2>2. D * DayLength + p <= j * DayLength + t
    <3>1. D * DayLength \in Nat /\ j * DayLength \in Nat
      BY CalendarAssumption
    <3> QED BY <1>2, <1>4, <2>1, <3>1 DEF Within
  <2> QED BY <2>1, <2>2, <1>2, <1>4, CalendarAssumption, DayOrder
<1>6. k * DayLength + b.minute \in Moments(b, now)
  <2>1. D - k <= WeekDays
    BY <1>1, <1>3, <1>5, CalendarAssumption
  <2> QED BY <1>1, <1>3, <2>1, MomentAt DEF Within
<1>7. Occurrence(b, now) \in Nat /\ k * DayLength + f <= Occurrence(b, now)
  BY <1>3, <1>4, <1>6, CatchUpFacts, OccurrenceFacts DEF IsRange
<1>8. PICK m \in Nat : Occurrence(e, now) = m * DayLength + t /\ Occurrence(e, now) <= now
  <2>1. Occurrence(e, now) # None
    BY <1>3, WeekHasMoment, CatchUpFacts DEF IsRange
  <2> QED BY <1>3, <1>4, <2>1, OccurrenceFacts, MinuteOfMoment
<1>9. m < k + shift
  <2>1. PICK j \in Nat : j = k + shift
    BY <1>3
  <2>2. ~(j * DayLength + t <= m * DayLength + t)
    <3>1. m * DayLength \in Nat /\ j * DayLength \in Nat
      BY CalendarAssumption
    <3> QED BY <1>3, <1>4, <1>8, <2>1, <3>1 DEF Within
  <2>3. j # m
    <3>1. j * DayLength \in Nat BY CalendarAssumption
    <3> QED BY <2>2, <3>1
  <2>4. ~(j < m)
    <3>1. m * DayLength \in Nat /\ j * DayLength \in Nat
      BY CalendarAssumption
    <3> QED BY <2>2, <1>4, <3>1, CalendarAssumption, DayOrder
  <2> QED BY <2>1, <2>3, <2>4
<1>10. m * DayLength + t < k * DayLength + f
  <2>1. CASE m < k
    BY <2>1, <1>3, <1>4, CalendarAssumption, DayOrder
  <2>2. CASE m = k
    <3>1. t < f
      BY <2>2, <1>3, <1>4, <1>9
    <3>2. k * DayLength \in Nat
      BY <1>3, CalendarAssumption
    <3> QED BY <2>2, <3>1, <3>2
  <2> QED BY <2>1, <2>2, <1>3, <1>9
<1> QED
  <2>1. m * DayLength \in Nat /\ k * DayLength \in Nat
    BY <1>3, CalendarAssumption
  <2> QED BY <1>7, <1>8, <1>10, <2>1

\* Outside every range the end is.
LEMMA EndIsLater ==
  ASSUME NEW b, NEW e, NEW shift, IsRange(b, e, shift), NEW now \in Horizon,
         \A k \in 0..DayOf(now) : ~Within(b, e, shift, k, now)
  PROVE  Occurrence(b, now) < Occurrence(e, now)
<1>1. PICK D \in Nat : D = DayOf(now) /\ WeekDays <= D
  BY HorizonFacts, CalendarAssumption
<1>2. PICK p \in 0..(DayLength - 1) : now = D * DayLength + p
  BY <1>1, HorizonFacts DEF Minutes
<1>3. now \in Nat /\ b \in Schedule /\ e \in Schedule /\ shift \in 0..1
  BY HorizonFacts DEF IsRange
<1>4. PICK f \in 0..(DayLength - 1), t \in 0..(DayLength - 1) :
           f = b.minute /\ t = e.minute /\ f # t /\ shift = (IF t < f THEN 1 ELSE 0)
  BY <1>3 DEF IsRange, Schedule, Minutes
<1>5. Occurrence(b, now) # None /\ Occurrence(e, now) # None
  BY <1>3, WeekHasMoment, CatchUpFacts DEF IsRange
<1>6. PICK k \in Nat : /\ k <= D /\ D - k <= WeekDays /\ Occurrence(b, now) = k * DayLength + f
                       /\ 1 + (k % WeekDays) \in b.days
  <2>1. Occurrence(b, now) \in Moments(b, now)
    BY <1>3, <1>5, OccurrenceFacts
  <2> QED BY <1>1, <1>3, <1>4, <2>1, MomentIsAt
<1>7. k * DayLength + f <= now
  BY <1>3, <1>5, <1>6, OccurrenceFacts
<1>8. PICK j \in Nat : j = k + shift
  BY <1>3
<1>9. j * DayLength + t <= now
  <2>1. ~Within(b, e, shift, k, now)
    BY <1>1, <1>6
  <2>2. j * DayLength \in Nat
    BY CalendarAssumption
  <2> QED BY <2>1, <2>2, <1>3, <1>4, <1>6, <1>7, <1>8 DEF Within
<1>10. j <= D
  <2>1. D * DayLength \in Nat /\ j * DayLength \in Nat
    BY CalendarAssumption
  <2> QED BY <1>2, <1>4, <1>9, <2>1, CalendarAssumption, DayOrder
<1>11. j * DayLength + e.minute \in Moments(e, now)
  <2>1. D - j <= WeekDays
    BY <1>1, <1>3, <1>6, <1>8, <1>10, CalendarAssumption
  <2>2. 1 + (j % WeekDays) \in e.days
    BY <1>6, <1>8 DEF IsRange
  <2> QED BY <1>1, <1>3, <1>4, <1>9, <1>10, <2>1, <2>2, MomentAt
<1>12. Occurrence(e, now) \in Nat /\ j * DayLength + t <= Occurrence(e, now)
  BY <1>3, <1>4, <1>5, <1>11, OccurrenceFacts
<1>13. k * DayLength + f < j * DayLength + t
  <2>1. CASE k < j
    BY <2>1, <1>4, CalendarAssumption, DayOrder
  <2>2. CASE k = j
    <3>1. f < t
      BY <2>2, <1>3, <1>4, <1>8
    <3>2. k * DayLength \in Nat
      BY CalendarAssumption
    <3> QED BY <2>2, <3>1, <3>2
  <2> QED BY <2>1, <2>2, <1>3, <1>8
<1> QED
  <2>1. j * DayLength \in Nat /\ k * DayLength \in Nat
    BY CalendarAssumption
  <2> QED BY <1>6, <1>12, <1>13, <1>4, <2>1

\* The plans of an accepted range.
LEMMA RangePlans ==
  ASSUME TableInv, NEW r \in accepted, r.between # None, CatchUpOf(r)
  PROVE  \E b, e : /\ {p \in table : p.name = r.name} = {b, e}
                   /\ b.phase = "Beginn" /\ e.phase = "Ende" /\ b.minute = r.between[1]
                   /\ e.minute = r.between[2] /\ b.days = DaysOf(r)
                   /\ r.between[1] \in Minutes /\ r.between[2] \in Minutes
                   /\ IsRange(b, e, IF r.between[2] < r.between[1] THEN 1 ELSE 0)
<1>1. r \in Requests /\ WellFormed(r) /\ {p \in table : p.name = r.name} = Additions(r)
  BY DEF TableInv
<1>2. r.at = None /\ r.between \in Minutes \X Minutes /\ r.between[1] # r.between[2]
  BY <1>1, RequestsAssumption DEF WellFormed
<1>3. PICK f \in Minutes, t \in Minutes : f = r.between[1] /\ t = r.between[2] /\ f # t
  BY <1>2
<1>4. PICK D : D = DaysOf(r) OBVIOUS
<1>5. PICK E : E = EndDays(D, f, t) OBVIOUS
<1>6. PICK b : b = [name |-> r.name, phase |-> "Beginn", minute |-> f, days |-> D,
                    values |-> r.set, catchUp |-> CatchUpOf(r)]
  OBVIOUS
<1>7. PICK e : e = [name |-> r.name, phase |-> "Ende", minute |-> t, days |-> E,
                    values |-> r.outside, catchUp |-> CatchUpOf(r)]
  OBVIOUS
<1>8. Additions(r) = {b, e}
  BY <1>2, <1>3, <1>4, <1>5, <1>6, <1>7, Zenon DEF Additions
<1>9. b \in Schedule /\ e \in Schedule /\ b.days # {} /\ e.days # {}
  BY <1>1, <1>8, AdditionFacts
<1>10. PICK shift : shift = (IF t < f THEN 1 ELSE 0) OBVIOUS
<1>11. ASSUME NEW k \in Nat, 1 + (k % WeekDays) \in D PROVE 1 + ((k + shift) % WeekDays) \in E
  <2>1. CASE t < f
    <3>1. PICK d : d = 1 + (k % WeekDays) OBVIOUS
    <3>2. 1 + ((k + 1) % WeekDays) = (IF d = WeekDays THEN 1 ELSE d + 1)
      BY <3>1, NextWeekday
    <3>3. E = {IF x = WeekDays THEN 1 ELSE x + 1 : x \in D}
      BY <1>5, <2>1 DEF EndDays
    <3> QED BY <1>10, <1>11, <2>1, <3>1, <3>2, <3>3
  <2>2. CASE ~(t < f)
    <3>1. k + shift = k
      BY <1>10, <2>2
    <3> QED BY <1>5, <1>11, <2>2, <3>1 DEF EndDays
  <2> QED BY <2>1, <2>2
<1>12. /\ b.phase = "Beginn" /\ b.minute = f /\ b.days = D /\ b.catchUp = CatchUpOf(r)
       /\ e.phase = "Ende" /\ e.minute = t /\ e.days = E /\ e.catchUp = CatchUpOf(r)
  BY <1>6, <1>7
<1>13. IsRange(b, e, shift)
  BY <1>3, <1>9, <1>10, <1>11, <1>12 DEF IsRange
<1> QED BY <1>1, <1>3, <1>4, <1>8, <1>10, <1>12, <1>13

LEMMA RangeFollowed == TableInv => RangeIsFollowed
<1> SUFFICES ASSUME TableInv, NEW r \in accepted, r.between # None, CatchUpOf(r),
                    NEW now \in Horizon,
                    NEW s, s = Selected({p \in table : p.name = r.name}, now)
             PROVE  /\ s # None
                    /\ s.phase = "Beginn" <=> \E k \in 0..DayOf(now) : InRangeOf(r, k, now)
  BY DEF RangeIsFollowed
<1>1. PICK b, e : /\ {p \in table : p.name = r.name} = {b, e}
                  /\ b.phase = "Beginn" /\ e.phase = "Ende" /\ b.minute = r.between[1]
                  /\ e.minute = r.between[2] /\ b.days = DaysOf(r)
                  /\ r.between[1] \in Minutes /\ r.between[2] \in Minutes
                  /\ IsRange(b, e, IF r.between[2] < r.between[1] THEN 1 ELSE 0)
  BY RangePlans
<1>2. PICK shift : shift = (IF r.between[2] < r.between[1] THEN 1 ELSE 0) OBVIOUS
<1>3. IsRange(b, e, shift) /\ b \in Schedule /\ e \in Schedule /\ now \in Nat
  BY <1>1, <1>2, HorizonFacts DEF IsRange
<1>4. Occurrence(b, now) # None /\ Occurrence(e, now) # None
  BY <1>3, WeekHasMoment, CatchUpFacts DEF IsRange
<1>5. s = Selected({b, e}, now)
  BY <1>1
<1>6. Due({b, e}, now) = {b, e}
  BY <1>4 DEF Due
<1>7. Occurrence(b, now) \in Nat /\ Occurrence(e, now) \in Nat
  BY <1>3, <1>4, OccurrenceFacts
<1>8. PICK P : P = {b, e} OBVIOUS
<1>9. s \in {b, e} /\ \A u \in {b, e} : Occurrence(u, now) <= Occurrence(s, now)
  <2>1. \E x \in {b, e} : \A u \in {b, e} : Occurrence(u, now) <= Occurrence(x, now)
    BY <1>7
  <2>2. \E x \in Due(P, now) : \A u \in Due(P, now) : Occurrence(u, now) <= Occurrence(x, now)
    BY <1>6, <1>8, <2>1
  <2>3. s = CHOOSE x \in Due(P, now) : \A u \in Due(P, now) : Occurrence(u, now) <= Occurrence(x, now)
    <3>1. s = Selected(P, now) /\ Due(P, now) # {}
      BY <1>5, <1>6, <1>8
    <3> QED BY <3>1 DEF Selected
  <2>4. s \in Due(P, now) /\ \A u \in Due(P, now) : Occurrence(u, now) <= Occurrence(s, now)
    BY <2>2, <2>3
  <2> QED BY <1>6, <1>8, <2>4
<1>10. s # None
  BY <1>3, <1>9, NoneAssumption
<1>11. ASSUME NEW k \in 0..DayOf(now) PROVE InRangeOf(r, k, now) <=> Within(b, e, shift, k, now)
  <2>1. k \in Nat
    BY HorizonFacts
  <2>2. (IF r.between[2] < r.between[1] THEN k + 1 ELSE k) = k + shift
    BY <1>2, <2>1
  <2> QED BY <1>1, <2>2 DEF InRangeOf, Within
<1>12. ASSUME NEW k \in 0..DayOf(now), InRangeOf(r, k, now) PROVE s.phase = "Beginn"
  <2>1. Occurrence(e, now) < Occurrence(b, now)
    BY <1>3, <1>11, <1>12, BeginIsLater
  <2> QED BY <1>1, <1>7, <1>9, <2>1
<1>13. ASSUME \A k \in 0..DayOf(now) : ~InRangeOf(r, k, now) PROVE s.phase # "Beginn"
  <2>1. Occurrence(b, now) < Occurrence(e, now)
    BY <1>3, <1>11, <1>13, EndIsLater
  <2> QED BY <1>1, <1>7, <1>9, <2>1
<1> QED BY <1>10, <1>12, <1>13

(* A plan is due when it says and not otherwise (DueWhenPlanned), for      *)
(* every length of the day and the week and every set of calls: the engine *)
(* follows a range's beginning exactly while the moment lies in the range  *)
(* of one of its days, over midnight and the end of the week too, and a    *)
(* plan without catch_up is due in its own minute only (luaSchedule,       *)
(* occurrenceFor, evaluateSchedules).                                      *)
THEOREM PlansDueWhenPlanned == TableSpec => []DueWhenPlanned
<1>1. TableInv => DueWhenPlanned
  BY OwnMinute, RangeFollowed DEF DueWhenPlanned
<1> QED BY <1>1, TableInvariant, PTL
=============================================================================
