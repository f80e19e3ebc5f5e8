------------------------ MODULE AlertMonitor_proofs ------------------------
(***************************************************************************)
(* Proofs about AlertMonitor and AlarmEvents, for any statuses of the      *)
(* device, any number of failed commands and of dialogs.                   *)
(*                                                                         *)
(* A handler changes what the alarms depend on and has them collected, one *)
(* handler twice.  What a field has to say at the end of a handler it says *)
(* of every alarm by itself; the argument is one about a single alarm, its *)
(* levels in the latch and its history.                                    *)
(***************************************************************************)
EXTENDS AlertMonitor, AlarmEvents, TLAPS

-----------------------------------------------------------------------------
(* The invariant. *)

Ages == {"waiting", "fresh", "aging", "stale"}

Desk ==
    [status : Statuses \cup {NoStatus}, age : Ages, receptionFailed : BOOLEAN,
     commandError : BOOLEAN, failureId : 0..MaxFailures, scriptError : BOOLEAN,
     settings : 0..MaxSettings, running : BOOLEAN,
     notified : [Keys -> Levels], acknowledged : [Keys -> Levels], active : [Keys -> Levels],
     announced : [Keys -> Levels]]

TypesInv ==
    /\ desk \in Desk
    /\ incident \in [Keys -> [told : Levels, acked : Levels]]
    /\ missed \in [told : SUBSET Keys, acked : SUBSET Keys]

\* What the latch takes for notified is what the user was told since the alarm
\* last was away, unless it ended unseen: then the latch still has it.
ToldInv ==
    \A k \in Keys :
        /\ desk.active[k] = None => incident[k].told = None /\ incident[k].acked = None
        /\ desk.active[k] # None => incident[k].told <= desk.notified[k]
        /\ desk.notified[k] <= incident[k].told \/ k \in missed.told
        /\ k \in missed.told => desk.notified[k] # None

\* What it takes for acknowledged the user has seen, unless that ended unseen.
AckedInv == \A k \in Keys : desk.acknowledged[k] <= incident[k].acked \/ k \in missed.acked

\* The alarms shown are those of the fields, also after the settings dialog.
ActiveInv == desk.active = Collected(desk)

AlertInv == TypesInv /\ ToldInv /\ AckedInv /\ ActiveInv

-----------------------------------------------------------------------------
(* The alarms that are collected, one by one. *)

LEMMA KeyKinds ==
  /\ <<"reception", 0>> \in Keys /\ <<"automation", 0>> \in Keys
  /\ \A k \in DeviceKeys : /\ k \in Keys /\ k \notin CommandKeys
                           /\ k[1] \notin {"reception", "automation", "command"}
  /\ \A k \in CommandKeys : k \in Keys /\ k[1] = "command" /\ k[2] \in 1..MaxFailures
  /\ \A k \in Keys : \/ k = <<"reception", 0>> \/ k = <<"automation", 0>>
                     \/ k \in DeviceKeys \/ k \in CommandKeys
<1>1. {FilterIds[f] : f \in DOMAIN FilterIds} = {"filter-hepa", "filter-carbon", "filter-wick"}
  BY DEF FilterIds
<1>2. \A k \in DeviceKeys : k[1] \in {"water", "clean", "filter-hepa", "filter-carbon", "filter-wick"}
  BY <1>1 DEF DeviceKeys
<1>3. \A k \in CommandKeys : k[1] = "command" /\ k[2] \in 1..MaxFailures
  BY DEF CommandKeys
<1>4. \A k \in DeviceKeys : k[1] \notin {"reception", "automation", "command"}
  BY <1>2
<1>5. QED BY <1>3, <1>4 DEF Keys

LEMMA ReceptionFacts ==
  ASSUME NEW d \in Desk
  PROVE  Reception(d) \in Levels
         /\ Reception(d) = IF d.receptionFailed \/ d.age = "stale" THEN Error
                           ELSE IF d.age = "aging" THEN Warning ELSE None
<1>1. d.receptionFailed \in BOOLEAN /\ d.age \in Ages
  BY DEF Desk
<1>2. CASE d.receptionFailed
  BY <1>2 DEF Reception, Levels
<1>3. CASE ~d.receptionFailed
  BY <1>1, <1>3 DEF Reception, Levels, Ages
<1>4. QED BY <1>1, <1>2, <1>3

\* What each of the alarms depends on.
LEMMA CollectedFacts ==
  ASSUME NEW d \in Desk
  PROVE  /\ Collected(d) \in [Keys -> Levels]
         /\ Collected(d)[<<"reception", 0>>] = Reception(d)
         /\ Collected(d)[<<"automation", 0>>] = IF d.scriptError THEN Error ELSE None
         /\ \A k \in CommandKeys :
               Collected(d)[k] = IF d.commandError /\ k[2] = d.failureId THEN Error ELSE None
         /\ \A e \in Desk : e.status = d.status =>
               \A k \in DeviceKeys : Collected(e)[k] = Collected(d)[k]
         /\ d.status = NoStatus => \A k \in DeviceKeys : Collected(d)[k] = None
<1> DEFINE Device(e) == IF e.status = NoStatus THEN {} ELSE DeviceAlerts(e.status)
           OfDevice(e, k) == IF <<k[1], Error>> \in Device(e) THEN Error
                             ELSE IF <<k[1], Warning>> \in Device(e) THEN Warning ELSE None
           Level(e, k) == CASE k[1] = "reception"  -> Reception(e)
                            [] k[1] = "automation" -> IF e.scriptError THEN Error ELSE None
                            [] k[1] = "command"    -> IF e.commandError /\ k[2] = e.failureId
                                                      THEN Error ELSE None
                            [] k \in DeviceKeys    -> OfDevice(e, k)
<1>1. \A e : Collected(e) = [k \in Keys |-> Level(e, k)]
  BY DEF Collected
<1>2. ASSUME NEW e \in Desk
      PROVE  /\ Level(e, <<"reception", 0>>) = Reception(e)
             /\ Level(e, <<"automation", 0>>) = IF e.scriptError THEN Error ELSE None
             /\ \A k \in CommandKeys :
                   Level(e, k) = IF e.commandError /\ k[2] = e.failureId THEN Error ELSE None
             /\ \A k \in DeviceKeys : Level(e, k) = OfDevice(e, k)
  <2> HIDE DEF OfDevice
  <2>1. Level(e, <<"reception", 0>>) = Reception(e)
    <3>1. <<"reception", 0>>[1] = "reception" /\ <<"reception", 0>> \notin DeviceKeys BY KeyKinds
    <3>2. QED BY <3>1
  <2>2. Level(e, <<"automation", 0>>) = IF e.scriptError THEN Error ELSE None
    <3>1. <<"automation", 0>>[1] = "automation" /\ <<"automation", 0>> \notin DeviceKeys BY KeyKinds
    <3>2. QED BY <3>1
  <2>3. ASSUME NEW k \in CommandKeys
        PROVE  Level(e, k) = IF e.commandError /\ k[2] = e.failureId THEN Error ELSE None
    <3>1. k[1] = "command" /\ k \notin DeviceKeys BY KeyKinds
    <3>2. QED BY <3>1
  <2>4. ASSUME NEW k \in DeviceKeys PROVE Level(e, k) = OfDevice(e, k)
    <3>1. k[1] \notin {"reception", "automation", "command"} BY KeyKinds
    <3>2. QED BY <3>1
  <2>5. QED BY <2>1, <2>2, <2>3, <2>4
<1>3. ASSUME NEW k \in Keys PROVE Level(d, k) \in Levels
  <2>1. Reception(d) \in Levels BY ReceptionFacts
  <2>2. OfDevice(d, k) \in Levels BY DEF Levels
  <2>3. Error \in Levels /\ None \in Levels BY DEF Levels
  <2> HIDE DEF OfDevice, Level
  <2>4. CASE k = <<"reception", 0>> BY <1>2, <2>1, <2>4
  <2>5. CASE k = <<"automation", 0>> BY <1>2, <2>3, <2>5
  <2>6. CASE k \in CommandKeys BY <1>2, <2>3, <2>6
  <2>7. CASE k \in DeviceKeys BY <1>2, <2>2, <2>7
  <2>8. QED BY <2>4, <2>5, <2>6, <2>7, KeyKinds
<1>4. ASSUME NEW e \in Desk, e.status = d.status, NEW k \in DeviceKeys
      PROVE  Level(e, k) = Level(d, k)
  <2>1. OfDevice(e, k) = OfDevice(d, k) BY <1>4
  <2> HIDE DEF OfDevice, Level
  <2>2. QED BY <1>2, <2>1
<1>5. ASSUME d.status = NoStatus, NEW k \in DeviceKeys PROVE Level(d, k) = None
  <2>1. OfDevice(d, k) = None BY <1>5
  <2> HIDE DEF OfDevice, Level
  <2>2. QED BY <1>2, <2>1
<1> HIDE DEF Level
<1>6. QED BY <1>1, <1>2, <1>3, <1>4, <1>5, KeyKinds

-----------------------------------------------------------------------------
(* The latch, one alarm at a time. *)

\* The fields that the alarms depend on.
SameCauses(d, e) ==
    /\ e.status = d.status /\ e.age = d.age /\ e.receptionFailed = d.receptionFailed
    /\ e.commandError = d.commandError /\ e.failureId = d.failureId
    /\ e.scriptError = d.scriptError /\ e.settings = d.settings /\ e.running = d.running

LEMMA HigherFacts ==
  \A a, b \in Levels : /\ Higher(a, b) \in Levels /\ Higher(a, b) >= a /\ Higher(a, b) >= b
                       /\ (Higher(a, b) = a \/ Higher(a, b) = b)
BY DEF Higher, Levels, None, Warning, Error

LEMMA MonitorPaused ==
  ASSUME NEW d \in Desk, Paused(d)
  PROVE  /\ Monitor(d) \in Desk /\ SameCauses(d, Monitor(d))
         /\ Monitor(d).active = Collected(d) /\ Collected(Monitor(d)) = Collected(d)
         /\ Monitor(d).notified = d.notified /\ Monitor(d).acknowledged = d.acknowledged
         /\ Monitor(d).announced = d.announced
<1>1. PICK e : e = [d EXCEPT !.active = Collected(d)] OBVIOUS
<1>2. Collected(d) \in [Keys -> Levels] BY CollectedFacts
<1>3. /\ e \in Desk /\ SameCauses(d, e) /\ e.active = Collected(d) /\ e.notified = d.notified
      /\ e.acknowledged = d.acknowledged /\ e.announced = d.announced /\ e.settings = d.settings
  BY <1>1, <1>2 DEF Desk, SameCauses
<1>4. Monitor(d) = e BY <1>1, <1>3 DEF Monitor, Paused
<1>5. Collected(e) = Collected(d) BY <1>3 DEF Collected, SameCauses, Reception
<1>6. QED BY <1>3, <1>4, <1>5

\* One alarm in the latch: from the fields d to e.
Latched(d, e, k) ==
    LET a == Collected(d)[k]
    IN  /\ e.notified[k] = IF a = None THEN None ELSE Higher(a, d.notified[k])
        /\ e.acknowledged[k] = IF a = None /\ d.notified[k] # None THEN None ELSE d.acknowledged[k]
        /\ e.announced[k] = Higher(d.announced[k], IF a > d.notified[k] THEN a ELSE None)

LEMMA MonitorRuns ==
  ASSUME NEW d \in Desk, ~Paused(d)
  PROVE  /\ Monitor(d) \in Desk /\ SameCauses(d, Monitor(d))
         /\ Monitor(d).active = Collected(d) /\ Collected(Monitor(d)) = Collected(d)
         /\ \A k \in Keys : Latched(d, Monitor(d), k)
<1>1. PICK c : c = Collected(d) OBVIOUS
<1>2. c \in [Keys -> Levels] BY <1>1, CollectedFacts
<1>3. PICK e : e = [d EXCEPT !.active = c] OBVIOUS
<1>4. PICK n : n = [k \in Keys |-> IF c[k] = None THEN None ELSE Higher(c[k], d.notified[k])]
  OBVIOUS
<1>5. PICK q : q = [k \in Keys |-> IF c[k] = None /\ d.notified[k] # None THEN None
                                   ELSE d.acknowledged[k]]
  OBVIOUS
<1>6. PICK t : t = [k \in Keys |-> Higher(d.announced[k], IF c[k] > d.notified[k] THEN c[k] ELSE None)]
  OBVIOUS
<1>7. /\ e \in Desk /\ e.active = c /\ e.notified = d.notified
      /\ e.acknowledged = d.acknowledged /\ e.announced = d.announced /\ e.settings = d.settings
  BY <1>2, <1>3 DEF Desk
<1>8. PICK g : g = [e EXCEPT !.notified = n, !.acknowledged = q] OBVIOUS
<1>9. Latch(e) = g
  BY <1>4, <1>5, <1>7, <1>8 DEF Latch
<1>10. g.announced = d.announced BY <1>7, <1>8 DEF Desk
<1>11. \A k \in Keys : (k \in Fresh(e)) = (c[k] > d.notified[k])
  BY <1>7 DEF Fresh
<1>12. Monitor(d) = [g EXCEPT !.announced = t]
  <2>1. t = [k \in Keys |-> Higher(g.announced[k], IF k \in Fresh(e) THEN e.active[k] ELSE None)]
    BY <1>6, <1>7, <1>10, <1>11
  <2>2. "announced" \in DOMAIN g BY <1>7, <1>8 DEF Desk
  <2>3. QED BY <1>1, <1>3, <1>7, <1>9, <2>1, <2>2 DEF Monitor, Paused
<1>13. /\ d.notified \in [Keys -> Levels] /\ d.acknowledged \in [Keys -> Levels]
       /\ d.announced \in [Keys -> Levels] /\ None \in Levels
  BY DEF Desk, Levels
<1>14. n \in [Keys -> Levels] /\ q \in [Keys -> Levels] /\ t \in [Keys -> Levels]
  BY <1>2, <1>4, <1>5, <1>6, <1>13, HigherFacts
<1>15. PICK f : f = [g EXCEPT !.announced = t] OBVIOUS
<1>16. /\ f \in Desk /\ SameCauses(d, f) /\ f.active = c /\ f.notified = n
       /\ f.acknowledged = q /\ f.announced = t
  BY <1>2, <1>3, <1>7, <1>8, <1>14, <1>15 DEF Desk, SameCauses
<1>17. Collected(f) = Collected(d) BY <1>16 DEF Collected, SameCauses, Reception
<1>18. ASSUME NEW k \in Keys PROVE Latched(d, f, k)
  BY <1>1, <1>4, <1>5, <1>6, <1>16 DEF Latched
<1>19. QED BY <1>1, <1>12, <1>15, <1>16, <1>17, <1>18

-----------------------------------------------------------------------------
(* The end of a handler. *)

\* What AnnouncedAsItHappens says of a step.
TellsAll == \A k \in Keys : incident'[k].told >= desk'.active[k] \/ k \in missed'.told
TellsOnce ==
    \A k \in Keys : desk'.announced[k] # None
        => desk'.announced[k] > incident[k].told \/ desk.active[k] = None

\* All that is to be shown of a step.
Tells == TellsOnce /\ (~Paused(desk) /\ ~Paused(desk') => TellsAll)

\* The invariant for one alarm, as the lemmas below use it.
LEMMA InvOf ==
  ASSUME AlertInv, NEW k \in Keys
  PROVE  /\ desk.active[k] \in Levels /\ desk.notified[k] \in Levels
         /\ desk.acknowledged[k] \in Levels
         /\ incident[k].told \in Levels /\ incident[k].acked \in Levels
         /\ desk.active[k] = None => incident[k].told = None /\ incident[k].acked = None
         /\ desk.active[k] # None => incident[k].told <= desk.notified[k]
         /\ desk.notified[k] <= incident[k].told \/ k \in missed.told
         /\ k \in missed.told => desk.notified[k] # None
         /\ desk.acknowledged[k] <= incident[k].acked \/ k \in missed.acked
<1>1. desk \in Desk /\ incident \in [Keys -> [told : Levels, acked : Levels]]
  BY DEF AlertInv, TypesInv
<1>2. /\ desk.active[k] \in Levels /\ desk.notified[k] \in Levels /\ desk.acknowledged[k] \in Levels
      /\ incident[k].told \in Levels /\ incident[k].acked \in Levels
  BY <1>1 DEF Desk
<1>3. QED BY <1>2 DEF AlertInv, ToldInv, AckedInv

\* The history of one alarm.
LEMMA AtTheEnd ==
  ASSUME AlertInv, NEW f \in Desk, NEW w \in [Keys -> Levels], Becomes(f, w), NEW k \in Keys
  PROVE  /\ desk' = f
         /\ incident'[k] \in [told : Levels, acked : Levels]
         /\ f.active[k] # None =>
               /\ incident'[k].told = Higher(incident[k].told, f.announced[k])
               /\ incident'[k].acked = w[k]
               /\ (k \in missed'.told) <=> (k \in missed.told)
               /\ (k \in missed'.acked) <=> (k \in missed.acked)
         /\ f.active[k] = None =>
               /\ incident'[k].told = None /\ incident'[k].acked = None
               /\ (k \in missed'.told) <=> /\ k \in missed.told \/ incident[k].told # None
                                           /\ k \notin Forgotten(f)
               /\ (k \in missed'.acked) <=> /\ k \in missed.acked \/ w[k] # None
                                            /\ k \notin Forgotten(f)
         /\ (k \in Forgotten(f)) <=> /\ ~Paused(desk) /\ ~Paused(f) /\ f.active[k] = None
                                     /\ \/ incident[k].told # None \/ f.announced[k] # None
                                        \/ k \in missed.told
<1>1. incident[k].told \in Levels /\ f.announced[k] \in Levels /\ w[k] \in Levels /\ None \in Levels
  BY InvOf DEF Desk, Levels
<1>2. incident'[k] = IF f.active[k] = None THEN [told |-> None, acked |-> None]
                     ELSE [told |-> Higher(incident[k].told, f.announced[k]), acked |-> w[k]]
  BY DEF Becomes, Away
<1>3. Higher(incident[k].told, f.announced[k]) \in Levels BY <1>1, HigherFacts
<1>4. (k \in Forgotten(f)) <=> /\ ~Paused(desk) /\ ~Paused(f) /\ f.active[k] = None
                               /\ \/ incident[k].told # None \/ f.announced[k] # None
                                  \/ k \in missed.told
  BY DEF Forgotten, Away
<1>5. /\ (k \in missed'.told) <=> /\ k \in missed.told \/ (f.active[k] = None /\ incident[k].told # None)
                                  /\ k \notin Forgotten(f)
      /\ (k \in missed'.acked) <=> /\ k \in missed.acked \/ (f.active[k] = None /\ w[k] # None)
                                   /\ k \notin Forgotten(f)
  BY DEF Becomes, Away
<1>6. desk' = f BY DEF Becomes
<1>7. CASE f.active[k] = None BY <1>1, <1>2, <1>4, <1>5, <1>6, <1>7
<1>8. CASE f.active[k] # None BY <1>1, <1>2, <1>3, <1>4, <1>5, <1>6, <1>8
<1>9. QED BY <1>7, <1>8

\* The invariant of the next state, of one alarm each.
LEMMA EndsWell ==
  ASSUME AlertInv, NEW f \in Desk, f.active = Collected(f), NEW w \in [Keys -> Levels],
         Becomes(f, w),
         \A k \in Keys :
            /\ f.active[k] # None => incident'[k].told <= f.notified[k]
            /\ f.notified[k] <= incident'[k].told \/ k \in missed'.told
            /\ k \in missed'.told => f.notified[k] # None
            /\ f.acknowledged[k] <= incident'[k].acked \/ k \in missed'.acked
  PROVE  AlertInv'
<1>1. desk' = f BY DEF Becomes
<1>2. \A k \in Keys : /\ incident'[k] \in [told : Levels, acked : Levels]
                      /\ f.active[k] = None => incident'[k].told = None /\ incident'[k].acked = None
  <2>1. TAKE k \in Keys
  <2>2. QED BY AtTheEnd
<1>3. incident' \in [Keys -> [told : Levels, acked : Levels]]
  <2>1. incident' = [k \in Keys |-> incident'[k]] BY DEF Becomes
  <2>2. QED BY <1>2, <2>1
<1>4. missed' \in [told : SUBSET Keys, acked : SUBSET Keys]
  <2>1. missed \in [told : SUBSET Keys, acked : SUBSET Keys] BY DEF AlertInv, TypesInv
  <2>2. Away(f) \subseteq Keys BY DEF Away
  <2>3. QED BY <2>1, <2>2 DEF Becomes
<1>5. TypesInv' BY <1>1, <1>3, <1>4 DEF TypesInv
<1>6. ToldInv' BY <1>1, <1>2 DEF ToldInv
<1>7. AckedInv' BY <1>1 DEF AckedInv
<1>8. ActiveInv' BY <1>1 DEF ActiveInv, Collected, Reception
<1>9. QED BY <1>5, <1>6, <1>7, <1>8 DEF AlertInv

\* Of one alarm, before it goes through the latch for the last time.
Ready(d, w, k) ==
    /\ d.notified[k] <= Higher(incident[k].told, d.announced[k]) \/ k \in missed.told
    /\ d.announced[k] # None => d.announced[k] > incident[k].told \/ desk.active[k] = None
    /\ Collected(d)[k] # None =>
          /\ d.announced[k] <= d.notified[k]
          /\ desk.active[k] # None => incident[k].told <= d.notified[k]
    /\ d.acknowledged[k] <= w[k] \/ k \in missed.acked
    /\ d.notified[k] = None /\ (incident[k].told # None \/ d.announced[k] # None \/ k \in missed.told)
          => d.acknowledged[k] = None

LEMMA MonitorEnds ==
  ASSUME AlertInv, NEW d \in Desk, ~Paused(d), ~Paused(desk), NEW w \in [Keys -> Levels],
         \A k \in Keys : Ready(d, w, k), Becomes(Monitor(d), w)
  PROVE  AlertInv' /\ Tells
<1>1. PICK f : f = Monitor(d) OBVIOUS
<1>2. /\ f \in Desk /\ SameCauses(d, f) /\ f.active = Collected(d) /\ Collected(f) = Collected(d)
      /\ \A k \in Keys : Latched(d, f, k)
  BY <1>1, MonitorRuns
<1>3. ~Paused(f) BY <1>2 DEF SameCauses, Paused
<1>4. ASSUME NEW k \in Keys
      PROVE  /\ f.active[k] # None => incident'[k].told <= f.notified[k]
             /\ f.notified[k] <= incident'[k].told \/ k \in missed'.told
             /\ k \in missed'.told => f.notified[k] # None
             /\ f.acknowledged[k] <= incident'[k].acked \/ k \in missed'.acked
             /\ incident'[k].told >= f.active[k] \/ k \in missed'.told
             /\ f.announced[k] # None => f.announced[k] > incident[k].told \/ desk.active[k] = None
  <2>1. PICK a \in Levels, n \in Levels, q \in Levels, s \in Levels, t \in Levels, x \in Levels,
             m \in Levels :
            /\ a = f.active[k] /\ n = d.notified[k] /\ q = d.acknowledged[k] /\ s = d.announced[k]
            /\ t = incident[k].told /\ x = w[k] /\ m = desk.active[k]
    <3>1. f.active[k] \in Levels /\ d.notified[k] \in Levels /\ d.acknowledged[k] \in Levels
          /\ d.announced[k] \in Levels
      BY <1>2 DEF Desk
    <3>2. incident[k].told \in Levels /\ desk.active[k] \in Levels /\ w[k] \in Levels BY InvOf
    <3>3. QED BY <3>1, <3>2
  <2>2. /\ f.notified[k] = IF a = None THEN None ELSE Higher(a, n)
        /\ f.acknowledged[k] = IF a = None /\ n # None THEN None ELSE q
        /\ f.announced[k] = Higher(s, IF a > n THEN a ELSE None)
    BY <1>2, <2>1 DEF Latched
  <2>3. /\ n <= Higher(t, s) \/ k \in missed.told
        /\ s # None => s > t \/ m = None
        /\ a # None => s <= n /\ (m # None => t <= n)
        /\ q <= x \/ k \in missed.acked
        /\ n = None /\ (t # None \/ s # None \/ k \in missed.told) => q = None
        /\ m = None => t = None
    BY <1>2, <2>1, InvOf DEF Ready
  <2>4. CASE a = None
    <3>1. /\ f.notified[k] = None /\ f.announced[k] = s
          /\ incident'[k].told = None /\ incident'[k].acked = None
          /\ (k \in Forgotten(f)) <=> t # None \/ s # None \/ k \in missed.told
          /\ (k \in missed'.told) <=> (k \in missed.told \/ t # None) /\ k \notin Forgotten(f)
          /\ (k \in missed'.acked) <=> (k \in missed.acked \/ x # None) /\ k \notin Forgotten(f)
      <4>1. Higher(s, IF a > n THEN a ELSE None) = s
        BY <2>4 DEF Higher, Levels, None, Warning, Error
      <4>2. f.announced[k] = s BY <2>2, <4>1
      <4>3. QED BY <1>1, <1>2, <1>3, <2>1, <2>2, <2>4, <4>2, AtTheEnd
    <3>2. f.acknowledged[k] <= None \/ k \in missed'.acked
      <4>1. CASE k \in Forgotten(f)
        <5>1. f.acknowledged[k] = None BY <2>2, <2>3, <2>4, <3>1, <4>1
        <5>2. QED BY <5>1 DEF None
      <4>2. CASE k \notin Forgotten(f)
        <5>1. f.acknowledged[k] = None \/ f.acknowledged[k] = q BY <2>2
        <5>2. q <= None \/ k \in missed'.acked
          BY <2>3, <3>1, <4>2 DEF Levels, None, Warning, Error
        <5>3. QED BY <5>1, <5>2 DEF None
      <4>3. QED BY <4>1, <4>2
    <3>3. k \notin missed'.told BY <3>1
    <3>4. None <= None BY DEF None
    <3>5. f.announced[k] # None => f.announced[k] > t \/ m = None BY <2>3, <3>1
    <3>6. QED BY <2>1, <2>4, <3>1, <3>2, <3>3, <3>4, <3>5
  <2>5. CASE a # None
    <3>1. /\ incident'[k].told = Higher(t, f.announced[k]) /\ incident'[k].acked = x
          /\ (k \in missed'.told) <=> (k \in missed.told)
          /\ (k \in missed'.acked) <=> (k \in missed.acked)
      BY <1>1, <1>2, <2>1, <2>5, AtTheEnd
    <3>2. f.notified[k] = Higher(a, n) /\ f.acknowledged[k] = q
          /\ f.announced[k] = Higher(s, IF a > n THEN a ELSE None)
      BY <2>2, <2>5
    <3>3. /\ incident'[k].told <= f.notified[k] /\ f.notified[k] # None
          /\ f.announced[k] # None => f.announced[k] > t \/ m = None
      BY <2>3, <2>5, <3>1, <3>2 DEF Higher, Levels, None, Warning, Error
    <3>4. \/ f.notified[k] <= incident'[k].told /\ incident'[k].told >= a
          \/ k \in missed.told
      BY <2>3, <2>5, <3>1, <3>2 DEF Higher, Levels, None, Warning, Error
    <3>5. QED BY <2>1, <2>3, <2>5, <3>1, <3>2, <3>3, <3>4
  <2>6. QED BY <2>4, <2>5
<1>5. desk' = f BY <1>1 DEF Becomes
<1>6. AlertInv' BY <1>1, <1>2, <1>4, EndsWell
<1>7. Tells BY <1>4, <1>5 DEF Tells, TellsAll, TellsOnce
<1>8. QED BY <1>6, <1>7

\* Below the settings the latch rests, also when they open and when they close.
LEMMA PausedEnds ==
  ASSUME AlertInv, NEW f \in Desk, f.active = Collected(f), Paused(desk) \/ Paused(f),
         f.notified = desk.notified, f.announced = Empty, NEW w \in [Keys -> Levels],
         \A k \in Keys : f.acknowledged[k] <= w[k] \/ k \in missed.acked, Becomes(f, w)
  PROVE  AlertInv' /\ Tells
<1>1. ASSUME NEW k \in Keys
      PROVE  /\ f.active[k] # None => incident'[k].told <= f.notified[k]
             /\ f.notified[k] <= incident'[k].told \/ k \in missed'.told
             /\ k \in missed'.told => f.notified[k] # None
             /\ f.acknowledged[k] <= incident'[k].acked \/ k \in missed'.acked
  <2>1. PICK n \in Levels, q \in Levels, t \in Levels, x \in Levels, m \in Levels :
            /\ n = f.notified[k] /\ q = f.acknowledged[k] /\ t = incident[k].told
            /\ x = w[k] /\ m = desk.active[k]
    <3>1. f.notified[k] \in Levels /\ f.acknowledged[k] \in Levels BY DEF Desk
    <3>2. incident[k].told \in Levels /\ desk.active[k] \in Levels /\ w[k] \in Levels BY InvOf
    <3>3. QED BY <3>1, <3>2
  <2>2. /\ m = None => t = None
        /\ m # None => t <= n
        /\ n <= t \/ k \in missed.told
        /\ k \in missed.told => n # None
        /\ q <= x \/ k \in missed.acked
    BY <2>1, InvOf
  <2>3. t <= n BY <2>2 DEF Levels, None, Warning, Error
  <2>4. f.announced[k] = None /\ k \notin Forgotten(f) BY AtTheEnd DEF Empty
  <2>5. CASE f.active[k] = None
    <3>1. /\ incident'[k].told = None /\ incident'[k].acked = None
          /\ (k \in missed'.told) <=> k \in missed.told \/ t # None
          /\ (k \in missed'.acked) <=> k \in missed.acked \/ x # None
      BY <2>1, <2>4, <2>5, AtTheEnd
    <3>2. /\ n <= None \/ k \in missed.told \/ t # None
          /\ k \in missed.told \/ t # None => n # None
          /\ q <= None \/ k \in missed.acked \/ x # None
      BY <2>2, <2>3 DEF Levels, None, Warning, Error
    <3>3. QED BY <2>1, <2>5, <3>1, <3>2
  <2>6. CASE f.active[k] # None
    <3>1. Higher(t, None) = t BY DEF Higher, Levels, None, Warning, Error
    <3>2. /\ incident'[k].told = t /\ incident'[k].acked = x
          /\ (k \in missed'.told) <=> (k \in missed.told)
          /\ (k \in missed'.acked) <=> (k \in missed.acked)
      BY <2>1, <2>4, <2>6, <3>1, AtTheEnd
    <3>3. QED BY <2>1, <2>2, <2>3, <2>6, <3>2
  <2>7. QED BY <2>5, <2>6
<1>2. AlertInv' BY <1>1, EndsWell
<1>3. desk' = f BY DEF Becomes
<1>4. Tells BY <1>3 DEF Tells, TellsOnce, Empty
<1>5. QED BY <1>2, <1>4

-----------------------------------------------------------------------------
(* The handlers. *)

\* What Quiet leaves alone.
LEMMA QuietIsDesk ==
  ASSUME AlertInv
  PROVE  /\ desk \in Desk /\ Quiet \in Desk /\ Quiet.announced = Empty
         /\ Quiet.status = desk.status /\ Quiet.age = desk.age
         /\ Quiet.receptionFailed = desk.receptionFailed /\ Quiet.commandError = desk.commandError
         /\ Quiet.failureId = desk.failureId /\ Quiet.scriptError = desk.scriptError
         /\ Quiet.settings = desk.settings /\ Quiet.running = desk.running
         /\ Quiet.notified = desk.notified
         /\ Quiet.acknowledged = desk.acknowledged /\ Quiet.active = desk.active
<1>1. Empty \in [Keys -> Levels] BY DEF Empty, Levels
<1>2. desk \in Desk BY DEF AlertInv, TypesInv
<1>3. QED BY <1>1, <1>2 DEF Quiet, Desk

LEMMA AckedIsKept ==
  ASSUME AlertInv
  PROVE  /\ Acked \in [Keys -> Levels]
         /\ \A k \in Keys : desk.acknowledged[k] <= Acked[k] \/ k \in missed.acked
<1>1. \A k \in Keys : incident[k].acked \in Levels BY InvOf
<1>2. QED BY <1>1, InvOf DEF Acked

\* The causes change, or what is acknowledged, and the alarms are collected once.
LEMMA CollectsOnce ==
  ASSUME AlertInv, NEW d \in Desk, d.settings = desk.settings, d.notified = desk.notified,
         d.announced = Empty, NEW w \in [Keys -> Levels],
         \A k \in Keys : d.acknowledged[k] <= w[k] \/ k \in missed.acked, Becomes(Monitor(d), w)
  PROVE  AlertInv' /\ Tells
<1>1. Paused(d) <=> Paused(desk) BY DEF Paused
<1>2. CASE Paused(d)
  <2>1. PICK f : f = Monitor(d) OBVIOUS
  <2>2. /\ f \in Desk /\ SameCauses(d, f) /\ f.active = Collected(f) /\ f.notified = desk.notified
        /\ f.acknowledged = d.acknowledged /\ f.announced = Empty
    BY <1>2, <2>1, MonitorPaused
  <2>3. Paused(desk) BY <1>1, <1>2
  <2>4. QED BY <2>1, <2>2, <2>3, PausedEnds
<1>3. CASE ~Paused(d)
  <2>1. ASSUME NEW k \in Keys PROVE Ready(d, w, k)
    <3>1. d.notified[k] = desk.notified[k] /\ d.announced[k] = None BY DEF Empty
    <3>2. PICK n \in Levels, t \in Levels, m \in Levels :
              n = desk.notified[k] /\ t = incident[k].told /\ m = desk.active[k]
      BY InvOf
    <3>3. /\ m = None => t = None
          /\ m # None => t <= n
          /\ n <= t \/ k \in missed.told
          /\ k \in missed.told => n # None
      BY <3>2, InvOf
    <3>4. /\ n <= Higher(t, None) \/ k \in missed.told
          /\ None <= n
          /\ n = None => t = None /\ k \notin missed.told
      BY <3>3 DEF Higher, Levels, None, Warning, Error
    <3>5. QED BY <3>1, <3>2, <3>3, <3>4 DEF Ready
  <2>2. ~Paused(desk) BY <1>1, <1>3
  <2>3. QED BY <1>3, <2>1, <2>2, MonitorEnds
<1>4. QED BY <1>2, <1>3

\* Nobody acknowledges.
LEMMA ChangeOfQuiet ==
  ASSUME AlertInv, NEW d \in Desk, d.settings = desk.settings, d.notified = desk.notified,
         d.announced = Empty, d.acknowledged = desk.acknowledged, Becomes(Monitor(d), Acked)
  PROVE  AlertInv' /\ Tells
<1>1. Acked \in [Keys -> Levels] /\ \A k \in Keys : d.acknowledged[k] <= Acked[k] \/ k \in missed.acked
  BY AckedIsKept
<1>2. QED BY <1>1, CollectsOnce

\* The first of the two collections of a status: nothing has changed but that
\* something was received.
LEMMA ReceivedReady ==
  ASSUME AlertInv, NEW r \in Desk, ~Paused(r), r.notified = desk.notified, r.announced = Empty,
         r.acknowledged = desk.acknowledged, r.status = desk.status,
         r.scriptError = desk.scriptError, r.commandError = desk.commandError,
         r.failureId = desk.failureId,
         NEW e, e = Monitor(r),
         NEW d \in Desk, d.notified = e.notified, d.announced = e.announced,
         d.acknowledged = e.acknowledged, Reception(d) = None,
         NEW k \in Keys
  PROVE  Ready(d, Acked, k)
<1>0. desk \in Desk BY DEF AlertInv, TypesInv
<1>1. PICK a \in Levels, n \in Levels, q \in Levels, t \in Levels, x \in Levels, m \in Levels :
          /\ a = Collected(r)[k] /\ n = desk.notified[k] /\ q = desk.acknowledged[k]
          /\ t = incident[k].told /\ x = incident[k].acked /\ m = desk.active[k]
  <2>1. Collected(r)[k] \in Levels BY CollectedFacts
  <2>2. QED BY <2>1, InvOf
<1>2. Latched(r, e, k) /\ r.announced[k] = None /\ r.notified[k] = n /\ r.acknowledged[k] = q
  BY <1>1, MonitorRuns DEF Empty
<1>3. /\ d.notified[k] = IF a = None THEN None ELSE Higher(a, n)
      /\ d.acknowledged[k] = IF a = None /\ n # None THEN None ELSE q
      /\ d.announced[k] = Higher(None, IF a > n THEN a ELSE None)
  BY <1>1, <1>2 DEF Latched
<1>4. /\ m = None => t = None
      /\ m # None => t <= n
      /\ n <= t \/ k \in missed.told
      /\ k \in missed.told => n # None
      /\ q <= x \/ k \in missed.acked
      /\ Acked[k] = x
  BY <1>1, InvOf DEF Acked
<1>5. d.notified[k] <= Higher(t, d.announced[k]) \/ k \in missed.told
  BY <1>3, <1>4 DEF Higher, Levels, None, Warning, Error
<1>6. d.announced[k] # None => d.announced[k] > t \/ m = None
  BY <1>3, <1>4 DEF Higher, Levels, None, Warning, Error
<1>7. ASSUME Collected(d)[k] # None
      PROVE  d.announced[k] <= d.notified[k] /\ (m # None => t <= d.notified[k])
  <2>1. m # None => a # None
    <3>1. m = Collected(desk)[k] BY <1>1 DEF AlertInv, ActiveInv
    <3>2. CASE k = <<"reception", 0>>
      <4>1. Collected(d)[k] = None BY <3>2, CollectedFacts
      <4>2. QED BY <1>7, <4>1
    <3>3. CASE k = <<"automation", 0>> BY <1>0, <1>1, <3>1, <3>3, CollectedFacts
    <3>4. CASE k \in DeviceKeys BY <1>0, <1>1, <3>1, <3>4, CollectedFacts
    <3>5. CASE k \in CommandKeys BY <1>0, <1>1, <3>1, <3>5, CollectedFacts
    <3>6. QED BY <3>2, <3>3, <3>4, <3>5, KeyKinds
  <2>2. QED BY <1>3, <1>4, <2>1 DEF Higher, Levels, None, Warning, Error
<1>8. d.acknowledged[k] <= x \/ k \in missed.acked
  BY <1>3, <1>4 DEF Levels, None, Warning, Error
<1>9. ASSUME d.notified[k] = None, t # None \/ d.announced[k] # None \/ k \in missed.told
      PROVE  d.acknowledged[k] = None
  BY <1>3, <1>4, <1>9 DEF Higher, Levels, None, Warning, Error
<1>10. QED BY <1>1, <1>4, <1>5, <1>6, <1>7, <1>8, <1>9 DEF Ready

LEMMA StatusStep ==
  ASSUME AlertInv, NEW s \in Statuses, NEW o \in {"none", "confirmed", "refuted"},
         StatusReceived(s, o)
  PROVE  AlertInv' /\ Tells
<1>0. desk \in Desk BY DEF AlertInv, TypesInv
<1>1. PICK r : r = Receive(Quiet) OBVIOUS
<1>2. /\ r \in Desk /\ r.notified = desk.notified /\ r.announced = Empty
      /\ r.acknowledged = desk.acknowledged /\ r.status = desk.status
      /\ r.scriptError = desk.scriptError /\ r.commandError = desk.commandError
      /\ r.failureId = desk.failureId /\ r.age = "fresh" /\ r.receptionFailed = FALSE
      /\ r.settings = desk.settings
  <2>1. PICK y \in Desk : y = Quiet BY QuietIsDesk
  <2>2. r = [y EXCEPT !.age = "fresh", !.receptionFailed = FALSE] BY <1>1, <2>1 DEF Receive
  <2>3. r \in Desk BY <2>2 DEF Desk, Ages
  <2>4. /\ r.acknowledged = y.acknowledged /\ r.status = y.status /\ r.scriptError = y.scriptError
        /\ r.commandError = y.commandError /\ r.failureId = y.failureId /\ r.age = "fresh"
        /\ r.receptionFailed = FALSE /\ r.settings = y.settings /\ r.notified = y.notified
        /\ r.announced = y.announced
    BY <2>2 DEF Desk
  <2>5. QED BY <2>1, <2>3, <2>4, QuietIsDesk
<1>3. PICK e : e = Monitor(r) OBVIOUS
<1>4. e \in Desk /\ SameCauses(r, e)
  BY <1>2, <1>3, MonitorRuns, MonitorPaused
<1>5. PICK c : c = [e EXCEPT !.status = s] OBVIOUS
<1>6. PICK d : d = CASE o = "none"      -> c
                     [] o = "confirmed" -> [c EXCEPT !.commandError = FALSE]
                     [] o = "refuted"   -> CommandError(c)
  OBVIOUS
<1>7. Becomes(Monitor(d), Acked) BY <1>1, <1>3, <1>5, <1>6 DEF StatusReceived
<1>8. o = "refuted" => desk.failureId < MaxFailures BY DEF StatusReceived
<1>9. /\ c \in Desk /\ c.notified = e.notified /\ c.announced = e.announced
      /\ c.acknowledged = e.acknowledged /\ c.age = "fresh" /\ c.receptionFailed = FALSE
      /\ c.failureId = desk.failureId /\ c.settings = desk.settings
  BY <1>2, <1>4, <1>5 DEF Desk, SameCauses
<1>10. /\ d \in Desk /\ d.notified = e.notified /\ d.announced = e.announced
       /\ d.acknowledged = e.acknowledged /\ d.age = "fresh" /\ d.receptionFailed = FALSE
       /\ d.settings = desk.settings
  <2>1. CASE o = "none"
    <3>1. d = c BY <1>6, <2>1
    <3>2. QED BY <1>9, <3>1
  <2>2. CASE o = "confirmed"
    <3>1. d = [c EXCEPT !.commandError = FALSE] BY <1>6, <2>2
    <3>2. QED BY <1>9, <3>1 DEF Desk
  <2>3. CASE o = "refuted"
    <3>1. d = [c EXCEPT !.commandError = TRUE, !.failureId = @ + 1] BY <1>6, <2>3 DEF CommandError
    <3>2. desk.failureId \in 0..MaxFailures BY <1>0 DEF Desk
    <3>3. desk.failureId + 1 \in 0..MaxFailures BY <1>8, <2>3, <3>2, MonitorAssumption
    <3>4. QED BY <1>9, <3>1, <3>3 DEF Desk
  <2>4. QED BY <2>1, <2>2, <2>3
<1>11. CASE Paused(desk)
  <2>1. Paused(r) BY <1>2, <1>11 DEF Paused
  <2>2. e.notified = r.notified /\ e.acknowledged = r.acknowledged /\ e.announced = r.announced
    BY <1>2, <1>3, <2>1, MonitorPaused
  <2>3. QED BY <1>2, <1>7, <1>10, <2>2, ChangeOfQuiet
<1>12. CASE ~Paused(desk)
  <2>1. ~Paused(r) /\ ~Paused(d) BY <1>2, <1>10, <1>12 DEF Paused
  <2>2. Reception(d) = None BY <1>10, ReceptionFacts
  <2>3. \A k \in Keys : Ready(d, Acked, k)
    BY <1>2, <1>3, <1>10, <2>1, <2>2, ReceivedReady
  <2>4. Acked \in [Keys -> Levels] BY AckedIsKept
  <2>5. QED BY <1>7, <1>10, <1>12, <2>1, <2>3, <2>4, MonitorEnds
<1>13. QED BY <1>11, <1>12

LEMMA PacketStep ==
  ASSUME AlertInv, PacketReceived PROVE AlertInv' /\ Tells
<1>1. PICK y \in Desk : y = Quiet BY QuietIsDesk
<1>2. PICK d : d = [y EXCEPT !.age = "fresh", !.receptionFailed = FALSE] OBVIOUS
<1>3. Becomes(Monitor(d), Acked) BY <1>1, <1>2 DEF PacketReceived, Receive
<1>4. /\ d \in Desk /\ d.notified = y.notified /\ d.announced = y.announced
      /\ d.acknowledged = y.acknowledged /\ d.settings = y.settings
  BY <1>1, <1>2 DEF Desk, Ages
<1>5. QED BY <1>1, <1>3, <1>4, QuietIsDesk, ChangeOfQuiet

LEMMA FailedStep ==
  ASSUME AlertInv, Failed PROVE AlertInv' /\ Tells
<1>1. PICK y \in Desk : y = Quiet BY QuietIsDesk
<1>2. PICK d : d = [y EXCEPT !.receptionFailed = TRUE] OBVIOUS
<1>3. Becomes(Monitor(d), Acked) BY <1>1, <1>2 DEF Failed, Lost
<1>4. /\ d \in Desk /\ d.notified = y.notified /\ d.announced = y.announced
      /\ d.acknowledged = y.acknowledged /\ d.settings = y.settings
  BY <1>1, <1>2 DEF Desk
<1>5. QED BY <1>1, <1>3, <1>4, QuietIsDesk, ChangeOfQuiet

LEMMA CommandFailedStep ==
  ASSUME AlertInv, CommandFailed PROVE AlertInv' /\ Tells
<1>1. PICK y \in Desk : y = Quiet BY QuietIsDesk
<1>2. PICK d : d = [y EXCEPT !.commandError = TRUE, !.failureId = @ + 1] OBVIOUS
<1>3. desk.failureId < MaxFailures /\ Becomes(Monitor(d), Acked)
  BY <1>1, <1>2 DEF CommandFailed, CommandError
<1>4. y.failureId \in 0..MaxFailures /\ y.failureId = desk.failureId
  BY <1>1, QuietIsDesk DEF Desk
<1>5. y.failureId + 1 \in 0..MaxFailures BY <1>3, <1>4, MonitorAssumption
<1>6. /\ d \in Desk /\ d.notified = y.notified /\ d.announced = y.announced
      /\ d.acknowledged = y.acknowledged /\ d.settings = y.settings
  BY <1>1, <1>2, <1>5 DEF Desk
<1>7. QED BY <1>1, <1>3, <1>6, QuietIsDesk, ChangeOfQuiet

LEMMA AutomationStep ==
  ASSUME AlertInv, NEW error \in BOOLEAN, AutomationState(error) PROVE AlertInv' /\ Tells
<1>1. PICK y \in Desk : y = Quiet BY QuietIsDesk
<1>2. PICK d : d = [y EXCEPT !.scriptError = error] OBVIOUS
<1>3. Becomes(Monitor(d), Acked) BY <1>1, <1>2 DEF AutomationState
<1>4. /\ d \in Desk /\ d.notified = y.notified /\ d.announced = y.announced
      /\ d.acknowledged = y.acknowledged /\ d.settings = y.settings
  BY <1>1, <1>2 DEF Desk
<1>5. QED BY <1>1, <1>3, <1>4, QuietIsDesk, ChangeOfQuiet

LEMMA FooterStep ==
  ASSUME AlertInv, UpdateFooter PROVE AlertInv' /\ Tells
<1>1. PICK y \in Desk : y = Quiet BY QuietIsDesk
<1>2. PICK age \in {desk.age} \cup {Freshness[i + 1] : i \in {j \in 1..2 : Freshness[j] = desk.age}} :
          Becomes(Monitor([y EXCEPT !.age = age]), Acked)
  BY <1>1 DEF UpdateFooter
<1>3. PICK d : d = [y EXCEPT !.age = age] OBVIOUS
<1>4. desk.age \in Ages BY QuietIsDesk DEF Desk
<1>5. age \in Ages
  <2>1. CASE age = desk.age BY <1>4, <2>1
  <2>2. CASE age # desk.age
    <3>1. PICK i \in 1..2 : age = Freshness[i + 1] BY <1>2, <2>2
    <3>2. i = 1 \/ i = 2 OBVIOUS
    <3>3. QED BY <3>1, <3>2 DEF Freshness, Ages
  <2>3. QED BY <2>1, <2>2
<1>6. /\ d \in Desk /\ d.notified = y.notified /\ d.announced = y.announced
      /\ d.acknowledged = y.acknowledged /\ d.settings = y.settings
  BY <1>1, <1>3, <1>5 DEF Desk
<1>7. QED BY <1>1, <1>2, <1>3, <1>6, QuietIsDesk, ChangeOfQuiet

\* The levels shown become the levels seen.
LEMMA AcknowledgeStep ==
  ASSUME AlertInv, AcknowledgeAlarms PROVE AlertInv' /\ Tells
<1>1. PICK y \in Desk : y = Quiet BY QuietIsDesk
<1>2. PICK q : q = [k \in Keys |-> IF desk.active[k] # None THEN desk.active[k]
                                   ELSE desk.acknowledged[k]]
  OBVIOUS
<1>3. PICK w : w = [k \in Keys |-> Higher(incident[k].acked, desk.active[k])]
  OBVIOUS
<1>4. q \in [Keys -> Levels]
  <2>1. \A k \in Keys : desk.active[k] \in Levels /\ desk.acknowledged[k] \in Levels BY InvOf
  <2>2. QED BY <1>2, <2>1
<1>5. w \in [Keys -> Levels]
  <2>1. \A k \in Keys : Higher(incident[k].acked, desk.active[k]) \in Levels BY InvOf, HigherFacts
  <2>2. QED BY <1>3, <2>1
<1>6. PICK d : d = [y EXCEPT !.commandError = FALSE, !.acknowledged = q] OBVIOUS
<1>7. /\ d \in Desk /\ d.notified = y.notified /\ d.announced = y.announced /\ d.acknowledged = q
      /\ d.settings = y.settings
  BY <1>1, <1>4, <1>6 DEF Desk
<1>8. Becomes(Monitor(d), w)
  <2>1. y.acknowledged = desk.acknowledged BY <1>1, QuietIsDesk
  <2>2. [y EXCEPT !.commandError = FALSE,
                  !.acknowledged = [k \in Keys |-> IF desk.active[k] # None THEN desk.active[k]
                                                   ELSE @[k]]] = d
    BY <1>2, <1>6, <2>1 DEF Desk
  <2>3. QED BY <1>1, <1>3, <2>2 DEF AcknowledgeAlarms
<1>9. ASSUME NEW k \in Keys PROVE d.acknowledged[k] <= w[k] \/ k \in missed.acked
  <2>1. PICK a \in Levels, c \in Levels, b \in Levels :
            a = desk.active[k] /\ c = desk.acknowledged[k] /\ b = incident[k].acked
    BY InvOf
  <2>2. d.acknowledged[k] = (IF a # None THEN a ELSE c) /\ w[k] = Higher(b, a)
    BY <1>2, <1>3, <1>7, <2>1
  <2>3. c <= b \/ k \in missed.acked BY <2>1, InvOf
  <2>4. QED BY <2>2, <2>3 DEF Higher, Levels, None, Warning, Error
<1>10. QED BY <1>1, <1>5, <1>7, <1>8, <1>9, QuietIsDesk, CollectsOnce

\* The settings open.
LEMMA OpenStep ==
  ASSUME AlertInv, OpenSettings PROVE AlertInv' /\ Tells
<1>1. PICK y \in Desk : y = Quiet BY QuietIsDesk
<1>2. PICK f : f = [y EXCEPT !.settings = @ + 1, !.running = FALSE] OBVIOUS
<1>3. desk.settings < MaxSettings /\ Becomes(f, Acked) BY <1>1, <1>2 DEF OpenSettings
<1>4. y.settings \in 0..MaxSettings /\ y.settings = desk.settings BY <1>1, QuietIsDesk DEF Desk
<1>5. y.settings + 1 \in 0..MaxSettings /\ y.settings + 1 > 0
  BY <1>3, <1>4, MonitorAssumption
<1>6. /\ f \in Desk /\ f.settings = y.settings + 1 /\ f.notified = y.notified
      /\ f.acknowledged = y.acknowledged /\ f.announced = y.announced /\ f.active = y.active
      /\ f.status = y.status /\ f.age = y.age /\ f.receptionFailed = y.receptionFailed
      /\ f.commandError = y.commandError /\ f.failureId = y.failureId
      /\ f.scriptError = y.scriptError
  BY <1>2, <1>5 DEF Desk
<1>7. f.active = Collected(f)
  <2>1. Collected(f) = Collected(desk)
    <3>1. /\ f.status = desk.status /\ f.age = desk.age /\ f.receptionFailed = desk.receptionFailed
          /\ f.commandError = desk.commandError /\ f.failureId = desk.failureId
          /\ f.scriptError = desk.scriptError
      BY <1>1, <1>6, QuietIsDesk
    <3>2. QED BY <3>1 DEF Collected, Reception
  <2>2. QED BY <1>1, <1>6, <2>1, QuietIsDesk DEF AlertInv, ActiveInv
<1>8. Paused(f) BY <1>5, <1>6 DEF Paused
<1>9. QED BY <1>1, <1>3, <1>6, <1>7, <1>8, QuietIsDesk, AckedIsKept, PausedEnds

\* The end of a dialog, with or without a failure, leaves the latch alone.
LEMMA EndsFacts ==
  ASSUME NEW d \in Desk, Paused(d), d.active = Collected(d), NEW failed \in BOOLEAN
  PROVE  /\ Ends(d, failed) \in Desk /\ Ends(d, failed).active = Collected(Ends(d, failed))
         /\ Ends(d, failed).notified = d.notified /\ Ends(d, failed).acknowledged = d.acknowledged
         /\ Ends(d, failed).announced = d.announced
<1>1. PICK e : e = IF failed THEN Lost(d) ELSE d OBVIOUS
<1>2. /\ e \in Desk /\ e.active = Collected(e) /\ e.notified = d.notified
      /\ e.acknowledged = d.acknowledged /\ e.announced = d.announced /\ e.settings = d.settings
  <2>1. CASE ~failed BY <1>1, <2>1
  <2>2. CASE failed
    <3>1. PICK c : c = [d EXCEPT !.receptionFailed = TRUE] OBVIOUS
    <3>2. /\ c \in Desk /\ c.notified = d.notified /\ c.acknowledged = d.acknowledged
          /\ c.announced = d.announced /\ c.settings = d.settings
      BY <3>1 DEF Desk
    <3>3. Paused(c) BY <3>2 DEF Paused
    <3>4. e = Monitor(c) BY <1>1, <2>2, <3>1 DEF Lost
    <3>5. QED BY <3>2, <3>3, <3>4, MonitorPaused DEF SameCauses
  <2>3. QED BY <2>1, <2>2
<1>3. PICK f : f = [e EXCEPT !.settings = @ - 1, !.running = TRUE] OBVIOUS
<1>4. f = Ends(d, failed) BY <1>1, <1>3 DEF Ends
<1>5. e.settings \in 0..MaxSettings /\ e.settings > 0 BY <1>2 DEF Desk, Paused
<1>6. e.settings - 1 \in 0..MaxSettings BY <1>5, MonitorAssumption
<1>7. /\ f \in Desk /\ f.notified = e.notified /\ f.acknowledged = e.acknowledged
      /\ f.announced = e.announced /\ f.active = e.active
      /\ f.status = e.status /\ f.age = e.age /\ f.receptionFailed = e.receptionFailed
      /\ f.commandError = e.commandError /\ f.failureId = e.failureId
      /\ f.scriptError = e.scriptError
  BY <1>2, <1>3, <1>6 DEF Desk
<1>8. Collected(f) = Collected(e) BY <1>7 DEF Collected, Reception
<1>9. QED BY <1>2, <1>4, <1>7, <1>8

LEMMA CloseStep ==
  ASSUME AlertInv, NEW failed \in BOOLEAN, CloseSettings(failed) PROVE AlertInv' /\ Tells
<1>1. PICK y \in Desk : y = Quiet BY QuietIsDesk
<1>2. Paused(desk) /\ Becomes(Ends(y, failed), Acked) BY <1>1 DEF CloseSettings
<1>3. Paused(y) BY <1>1, <1>2, QuietIsDesk DEF Paused
<1>4. y.active = Collected(y)
  <2>1. Collected(y) = Collected(desk)
    <3>1. /\ y.status = desk.status /\ y.age = desk.age /\ y.receptionFailed = desk.receptionFailed
          /\ y.commandError = desk.commandError /\ y.failureId = desk.failureId
          /\ y.scriptError = desk.scriptError
      BY <1>1, QuietIsDesk
    <3>2. QED BY <3>1 DEF Collected, Reception
  <2>2. QED BY <1>1, <2>1, QuietIsDesk DEF AlertInv, ActiveInv
<1>5. PICK f : f = Ends(y, failed) OBVIOUS
<1>6. /\ f \in Desk /\ f.active = Collected(f) /\ f.notified = y.notified
      /\ f.acknowledged = y.acknowledged /\ f.announced = y.announced
  BY <1>3, <1>4, <1>5, EndsFacts
<1>7. QED BY <1>1, <1>2, <1>5, <1>6, QuietIsDesk, AckedIsKept, PausedEnds

\* Another server: every alarm begins anew.
LEMMA ServerStep ==
  ASSUME AlertInv, NEW failed \in BOOLEAN, ChangeServer(failed) PROVE AlertInv' /\ Tells
<1>1. PICK y \in Desk : y = Quiet BY QuietIsDesk
<1>2. Empty \in [Keys -> Levels] BY DEF Empty, Levels
<1>3. PICK r : r = [y EXCEPT !.status = NoStatus, !.age = "waiting", !.receptionFailed = FALSE,
                             !.commandError = FALSE, !.notified = Empty, !.acknowledged = Empty]
  OBVIOUS
<1>4. /\ r \in Desk /\ r.notified = Empty /\ r.acknowledged = Empty /\ r.announced = Empty
      /\ r.settings = desk.settings
  <2>1. y.settings = desk.settings /\ y.announced = Empty BY <1>1, QuietIsDesk
  <2>2. r \in Desk BY <1>2, <1>3 DEF Desk, Ages
  <2>3. /\ r.notified = Empty /\ r.acknowledged = Empty
        /\ r.announced = y.announced /\ r.settings = y.settings
    BY <1>3 DEF Desk
  <2>4. QED BY <2>1, <2>2, <2>3
<1>5. Paused(desk) BY DEF ChangeServer
<1>6. Paused(r) BY <1>4, <1>5 DEF Paused
<1>7. PICK m : m = Monitor(r) OBVIOUS
<1>8. /\ m \in Desk /\ m.active = Collected(m) /\ SameCauses(r, m)
      /\ m.notified = Empty /\ m.acknowledged = Empty /\ m.announced = Empty
  BY <1>4, <1>6, <1>7, MonitorPaused
<1>9. Paused(m) BY <1>6, <1>8 DEF Paused, SameCauses
<1>10. PICK f : f = Ends(m, failed) OBVIOUS
<1>11. /\ f \in Desk /\ f.active = Collected(f) /\ f.notified = Empty
       /\ f.acknowledged = Empty /\ f.announced = Empty
  BY <1>8, <1>9, <1>10, EndsFacts
<1>12. /\ desk' = f /\ incident' = [k \in Keys |-> [told |-> None, acked |-> None]]
       /\ missed' = [told |-> {}, acked |-> {}]
  BY <1>1, <1>3, <1>7, <1>10 DEF ChangeServer
<1>13. AlertInv'
  <2>1. TypesInv'
    <3>1. None \in Levels BY DEF Levels
    <3>2. QED BY <1>11, <1>12, <3>1 DEF TypesInv
  <2>2. ToldInv' /\ AckedInv' BY <1>11, <1>12 DEF ToldInv, AckedInv, Empty, None
  <2>3. ActiveInv' BY <1>11, <1>12 DEF ActiveInv, Collected, Reception
  <2>4. QED BY <2>1, <2>2, <2>3 DEF AlertInv
<1>14. Tells BY <1>5, <1>11, <1>12 DEF Tells, TellsOnce, Empty
<1>15. QED BY <1>13, <1>14

-----------------------------------------------------------------------------
(* The theorems. *)

LEMMA AlertInit == Init => AlertInv
<1> SUFFICES ASSUME Init PROVE AlertInv
  OBVIOUS
<1>1. Empty \in [Keys -> Levels] /\ None \in Levels /\ 0 \in 0..MaxFailures /\ 0 \in 0..MaxSettings
  BY MonitorAssumption DEF Empty, Levels
<1>2. /\ desk \in Desk /\ desk.active = Empty /\ desk.notified = Empty /\ desk.acknowledged = Empty
      /\ desk.status = NoStatus /\ desk.age = "waiting" /\ ~desk.receptionFailed
      /\ ~desk.commandError /\ ~desk.scriptError
  BY <1>1 DEF Init, Desk, Ages
<1>3. /\ incident = [k \in Keys |-> [told |-> None, acked |-> None]]
      /\ missed = [told |-> {}, acked |-> {}]
  BY DEF Init
<1>4. TypesInv BY <1>1, <1>2, <1>3 DEF TypesInv
<1>5. ToldInv /\ AckedInv BY <1>2, <1>3 DEF ToldInv, AckedInv, Empty, None
<1>6. ActiveInv
  <2>1. Reception(desk) = None BY <1>2, ReceptionFacts
  <2>2. \A k \in Keys : Collected(desk)[k] = None
    <3>1. TAKE k \in Keys
    <3>2. CASE k = <<"reception", 0>> BY <1>2, <2>1, <3>2, CollectedFacts
    <3>3. CASE k = <<"automation", 0>> BY <1>2, <3>3, CollectedFacts
    <3>4. CASE k \in DeviceKeys BY <1>2, <3>4, CollectedFacts
    <3>5. CASE k \in CommandKeys BY <1>2, <3>5, CollectedFacts
    <3>6. QED BY <3>2, <3>3, <3>4, <3>5, KeyKinds
  <2>3. Collected(desk) = [k \in Keys |-> Collected(desk)[k]] BY <1>2, CollectedFacts
  <2>4. QED BY <1>2, <2>2, <2>3 DEF ActiveInv, Empty
<1>7. QED BY <1>4, <1>5, <1>6 DEF AlertInv

LEMMA AlertStep == AlertInv /\ [Next]_vars => AlertInv' /\ (Tells \/ UNCHANGED vars)
<1> SUFFICES ASSUME AlertInv, [Next]_vars PROVE AlertInv' /\ (Tells \/ UNCHANGED vars)
  OBVIOUS
<1>1. CASE \E s \in Statuses, o \in {"none", "confirmed", "refuted"} : StatusReceived(s, o)
  BY <1>1, StatusStep
<1>2. CASE \E error \in BOOLEAN : AutomationState(error) BY <1>2, AutomationStep
<1>3. CASE \E failed \in BOOLEAN : CloseSettings(failed) BY <1>3, CloseStep
<1>4. CASE \E failed \in BOOLEAN : ChangeServer(failed) BY <1>4, ServerStep
<1>5. CASE PacketReceived BY <1>5, PacketStep
<1>6. CASE Failed BY <1>6, FailedStep
<1>7. CASE CommandFailed BY <1>7, CommandFailedStep
<1>8. CASE UpdateFooter BY <1>8, FooterStep
<1>9. CASE AcknowledgeAlarms BY <1>9, AcknowledgeStep
<1>10. CASE OpenSettings BY <1>10, OpenStep
<1>11. CASE UNCHANGED vars
  <2>1. desk' = desk /\ incident' = incident /\ missed' = missed BY <1>11 DEF vars
  <2>2. TypesInv' /\ ToldInv' /\ AckedInv'
    BY <2>1 DEF AlertInv, TypesInv, ToldInv, AckedInv
  <2>3. ActiveInv'
    <3>1. PICK d : d = desk OBVIOUS
    <3>2. d.active = Collected(d) BY <3>1 DEF AlertInv, ActiveInv
    <3>3. desk' = d BY <2>1, <3>1
    <3>4. QED BY <3>2, <3>3 DEF ActiveInv, Collected, Reception
  <2>4. QED BY <1>11, <2>2, <2>3 DEF AlertInv
<1>12. QED
  BY <1>1, <1>2, <1>3, <1>4, <1>5, <1>6, <1>7, <1>8, <1>9, <1>10, <1>11 DEF Next

LEMMA AlertInvariant == Spec => []AlertInv
<1>1. AlertInv /\ [Next]_vars => AlertInv' BY AlertStep
<1>2. QED BY <1>1, AlertInit, PTL DEF Spec

(* A Q stands only where the user has seen this level since the alarm last *)
(* was away, whatever runs inside the modal dialogs and however many of    *)
(* the settings lie over one another; the one exception is an alarm that   *)
(* was acknowledged and ended unseen by the latch (AlertLatch,             *)
(* acknowledgeAlarms, alarmsPaused_).                                      *)
THEOREM QuittedNow == Spec => []QuittedInThisIncident
<1>1. AlertInv => QuittedInThisIncident
  <2> SUFFICES ASSUME AlertInv, NEW k \in Keys, k \notin missed.acked,
                      desk.active[k] # None, Acknowledged(desk, k)
               PROVE  incident[k].acked >= desk.active[k]
    BY DEF QuittedInThisIncident, Seen
  <2>1. PICK a \in Levels, q \in Levels, w \in Levels :
            a = desk.active[k] /\ q = desk.acknowledged[k] /\ w = incident[k].acked
    BY InvOf
  <2>2. q >= a /\ q <= w BY <2>1, InvOf DEF Acknowledged
  <2>3. QED BY <2>1, <2>2 DEF Levels, None, Warning, Error
<1>2. QED BY <1>1, AlertInvariant, PTL

(* Outside the settings dialogs every alarm shown was announced at its     *)
(* level, unless it had been announced, ended while the alarms paused and  *)
(* came back; and an alarm is announced again only when it rises or        *)
(* returns, also by the handler that collects the alarms twice             *)
(* (updateMonitoring, AlertLatch::update).                                 *)
THEOREM AnnouncedRight == Spec => AnnouncedAsItHappens
<1>1. AlertInv /\ [Next]_vars
      => [~Paused(desk) /\ ~Paused(desk')
             => \A k \in Keys : incident'[k].told >= desk'.active[k] \/ k \in missed'.told]_vars
  BY AlertStep DEF Tells, TellsAll
<1>2. AlertInv /\ [Next]_vars
      => [\A k \in Keys : desk'.announced[k] # None
             => \/ desk'.announced[k] > incident[k].told
                \/ desk.active[k] = None]_vars
  BY AlertStep DEF Tells, TellsOnce
<1>3. QED
  BY <1>1, <1>2, AlertInvariant, PTL
     DEF Spec, AnnouncedAsItHappens, EveryAlarmIsAnnounced, AnnouncedOnce

-----------------------------------------------------------------------------
(* The two translations of the device's codes. *)

\* What a status reports: a number where one is expected, or none.
ReportedStatus(s) == \A f \in Numbers : s[f] \in Int \cup {Missing}

LEMMA FilterAlertsAgree ==
  ASSUME NEW s, ReportedStatus(s), Missing \notin Int, IsAc2729(s), s.pwr = "1"
  PROVE  ServerFilterAlerts(s) = {<<n.key, IF n.due THEN Error ELSE Warning>> : n \in FilterNotices(s)}
  <1> DEFINE Shown  == {g \in DOMAIN FilterIds : s[g] \in Int /\ ~(s[g] < 0 \/ s[g] > FilterWarningHours)}
             Served == {g \in DOMAIN FilterIds : s[g] \in 0..FilterWarningHours}
             Notice(f) == [key |-> FilterIds[f], due |-> s[f] = 0]
             Alarm(n)  == <<n.key, IF n.due THEN Error ELSE Warning>>
  <1>1. Shown = Served
    BY DEF ReportedStatus, Numbers, FilterIds, FilterWarningHours
  <1>2. FilterNotices(s) = {Notice(f) : f \in Shown}
    BY DEF FilterNotices
  <1>3. ASSUME NEW f \in Shown
        PROVE  Alarm(Notice(f)) = <<FilterIds[f], IF s[f] = 0 THEN Error ELSE Warning>>
    OBVIOUS
  <1>4. ServerFilterAlerts(s) = {Alarm(Notice(f)) : f \in Served}
    <2>1. ServerFilterAlerts(s) = {<<FilterIds[f], IF s[f] = 0 THEN Error ELSE Warning>> : f \in Served}
      BY DEF ServerFilterAlerts
    <2> QED BY <2>1, <1>1, <1>3
  <1>5. {Alarm(n) : n \in {Notice(f) : f \in Shown}} = {Alarm(Notice(f)) : f \in Shown}
    <2> HIDE DEF Alarm, Notice, Shown
    <2> QED OBVIOUS
  <1> QED BY <1>1, <1>2, <1>4, <1>5

(* The script and the desklet translate the codes of every status into the *)
(* same alarms: the server's publishDeviceAlerts (automation.cpp) and the  *)
(* desklet's deviceAlerts with emblems.cpp behind it, written twice.       *)
THEOREM SameAlarms ==
  ASSUME NEW s, ReportedStatus(s), Missing \notin Int
  PROVE  ServerAlerts(s) = DeviceAlerts(s)
  <1>1. CASE ~IsAc2729(s) \/ s.pwr # "1"
    <2>1. WarningEmblems(s) = {}
      <3>1. ASSUME NEW id \in WarningEmblems(s) PROVE FALSE
        BY <1>1, <3>1 DEF WarningEmblems
      <3> QED BY <3>1
    <2>2. FilterNotices(s) = {}
      BY <1>1 DEF FilterNotices
    <2>3. ServerAlerts(s) = {}
      BY <1>1 DEF ServerAlerts
    <2> QED BY <2>1, <2>2, <2>3 DEF DeviceAlerts
  <1>2. CASE IsAc2729(s) /\ s.pwr = "1"
    <2> DEFINE Water == s.func = "PH" /\ (s.wl = 0 \/ s.err = 49408)
               Clean == s.fltsts0 = 0 \/ s.err \in {49153, 49155}
    <2>1. /\ "water" \in WarningEmblems(s) <=> Water
          /\ "clean" \in WarningEmblems(s) <=> Clean
          /\ WarningEmblems(s) \subseteq {"filter", "water", "clean"}
      <3>1. "water" \in WarningEmblems(s) <=> Water
        BY <1>2 DEF WarningEmblems
      <3>2. "clean" \in WarningEmblems(s) <=> Clean
        <4>1. Clean <=> s.fltsts0 = 0 \/ s.err = 49153 \/ s.err = 49155
          OBVIOUS
        <4> QED BY <1>2, <4>1 DEF WarningEmblems
      <3>3. WarningEmblems(s) \subseteq {"filter", "water", "clean"}
        <4>1. ASSUME NEW id \in WarningEmblems(s) PROVE id \in {"filter", "water", "clean"}
          BY <4>1 DEF WarningEmblems
        <4> QED BY <4>1
      <3> QED BY <3>1, <3>2, <3>3
    <2>2. {<<id, Warning>> : id \in WarningEmblems(s) \ {"wifi", "filter"}}
             = (IF Water THEN {<<"water", Warning>>} ELSE {})
                  \cup (IF Clean THEN {<<"clean", Warning>>} ELSE {})
      BY <2>1
    <2>3. ServerAlerts(s) = ServerFilterAlerts(s)
                             \cup (IF Water THEN {<<"water", Warning>>} ELSE {})
                             \cup (IF Clean THEN {<<"clean", Warning>>} ELSE {})
      BY <1>2 DEF ServerAlerts
    <2>4. ServerFilterAlerts(s) = {<<n.key, IF n.due THEN Error ELSE Warning>> : n \in FilterNotices(s)}
      BY <1>2, FilterAlertsAgree
    <2> QED BY <2>2, <2>3, <2>4 DEF DeviceAlerts
  <1> QED BY <1>1, <1>2

-----------------------------------------------------------------------------
(* The alarm event. *)

\* What the script was told last is the digest, and that is of the last status.
DigestInv ==
    /\ status = [f \in DOMAIN Reported |-> status[f]] /\ ReportedStatus(status)
    /\ digest = ServerAlerts(status) /\ event = digest

LEMMA DigestInvInit == AlarmInit => DigestInv
  <1> SUFFICES ASSUME AlarmInit PROVE DigestInv
    OBVIOUS
  <1>1. status = [f \in DOMAIN Reported |-> status[f]] /\ status.pwr = "0"
    BY ReportedAssumption DEF AlarmInit
  <1>2. ASSUME NEW f \in Numbers PROVE status[f] \in Int \cup {Missing}
    <2>1. f \in DOMAIN Reported /\ f # "pwr"
      BY ReportedAssumption DEF Numbers
    <2>2. status[f] = CHOOSE v \in Reported[f] : TRUE
      BY <2>1 DEF AlarmInit
    <2> QED BY <2>2, ReportedAssumption
  <1>3. ServerAlerts(status) = {}
    BY <1>1 DEF ServerAlerts
  <1> QED BY <1>1, <1>2, <1>3 DEF AlarmInit, DigestInv, ReportedStatus

LEMMA DigestInvNext == DigestInv /\ [AlarmNext]_alarmVars => DigestInv'
  <1>1. ASSUME DigestInv, AlarmNext PROVE DigestInv'
    <2>1. PICK f \in DOMAIN Reported : \E v \in Reported[f] :
             PublishDeviceAlerts([status EXCEPT ![f] = v])
      BY <1>1 DEF AlarmNext
    <2>2. PICK v \in Reported[f] : PublishDeviceAlerts([status EXCEPT ![f] = v])
      BY <2>1
    <2>3. status' = [g \in DOMAIN Reported |-> IF g = f THEN v ELSE status[g]]
      BY <1>1, <2>2 DEF DigestInv, PublishDeviceAlerts
    <2>4. status' = [g \in DOMAIN Reported |-> status'[g]]
      BY <2>3
    <2>5. ReportedStatus(status')
      <3> SUFFICES ASSUME NEW g \in Numbers PROVE status'[g] \in Int \cup {Missing}
        BY DEF ReportedStatus
      <3>1. g \in DOMAIN Reported /\ status'[g] = IF g = f THEN v ELSE status[g]
        BY <2>3, ReportedAssumption
      <3> QED BY <1>1, <2>2, <3>1, ReportedAssumption DEF DigestInv, ReportedStatus
    <2>6. digest' = ServerAlerts(status') /\ event' = digest'
      BY <1>1, <2>2 DEF DigestInv, PublishDeviceAlerts
    <2> QED BY <2>4, <2>5, <2>6 DEF DigestInv
  <1>2. ASSUME DigestInv, UNCHANGED alarmVars PROVE DigestInv'
    <2>1. status' = status /\ digest' = digest /\ event' = event
      BY <1>2 DEF alarmVars
    <2> QED BY <1>2, <2>1 DEF DigestInv
  <1> QED BY <1>1, <1>2

(* The running script hears of every change: what it was told last are the *)
(* alarms that the desklet shows (ScriptKnowsWhatIsShown), over every      *)
(* sequence of statuses with any numbers in them.                          *)
THEOREM ScriptKnows == AlarmSpec => []ScriptKnowsWhatIsShown
  <1>1. DigestInv => ScriptKnowsWhatIsShown
    BY SameAlarms, ReportedAssumption DEF DigestInv, ScriptKnowsWhatIsShown
  <1> QED BY <1>1, DigestInvInit, DigestInvNext, PTL DEF AlarmSpec
=============================================================================
