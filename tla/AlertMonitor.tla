---------------------------- MODULE AlertMonitor ----------------------------
(***************************************************************************)
(* The alarms of the desklet (src/src/client/desklet.cpp, updateMonitoring *)
(* and its callers) and the latch that keeps them from being announced     *)
(* twice (AlertLatch, src/src/client/alerts.cpp).                          *)
(*                                                                         *)
(* Everything runs in the GUI thread.  A modal dialog runs an event loop of*)
(* its own: the timer, and the menu of the tray icon, go on while it is    *)
(* open.  So the settings may be opened over the settings; the end of the  *)
(* inner dialog starts the controller below the outer one, where the       *)
(* alarms still pause.                                                     *)
(***************************************************************************)
EXTENDS AlertRules, Sequences

CONSTANTS
    Statuses,       \* the statuses the device sends
    NoStatus,       \* none yet
    MaxFailures,    \* bound: failed commands
    MaxSettings     \* bound: dialogs of the settings over one another

ASSUME MonitorAssumption == MaxFailures \in Nat /\ MaxSettings \in Nat \ {0}

\* dataFreshness: the age of the data, by the limits of the preferences.  Data
\* that blink are stale ones.
Freshness == <<"fresh", "aging", "stale">>

VARIABLES
    desk,       \* the fields of Desklet and of its AlertLatch, the open dialogs of
                \* the settings, does the controller run
    incident,   \* history: per alarm, the level announced and acknowledged
                \* since it last was away
    missed      \* history: alarms announced, and acknowledged, whose end the
                \* latch did not see

vars == <<desk, incident, missed>>

CommandKeys == {<<"command", n>> : n \in 1..MaxFailures}
DeviceKeys  == ({"water", "clean"} \cup {FilterIds[f] : f \in DOMAIN FilterIds}) \X {0}
Keys == {<<"reception", 0>>, <<"automation", 0>>} \cup DeviceKeys \cup CommandKeys

\* A map from alarms to levels; None for those that are not in it.
None   == 0
Levels == {None, Warning, Error}
Empty  == [k \in Keys |-> None]

Higher(a, b) == IF a > b THEN a ELSE b

-----------------------------------------------------------------------------
(* Operators on the fields d: one per function of the program.             *)

\* The alarms that updateMonitoring collects.
Reception(d) ==
    CASE d.receptionFailed \/ d.age = "stale"     -> Error
      [] ~d.receptionFailed /\ d.age = "aging"    -> Warning
      [] OTHER                                    -> None

Collected(d) ==
    LET device == IF d.status = NoStatus THEN {} ELSE DeviceAlerts(d.status)
    IN  [k \in Keys |->
            CASE k[1] = "reception"  -> Reception(d)
              [] k[1] = "automation" -> IF d.scriptError THEN Error ELSE None
              [] k[1] = "command"    -> IF d.commandError /\ k[2] = d.failureId THEN Error ELSE None
              [] k \in DeviceKeys    -> IF <<k[1], Error>> \in device THEN Error
                                        ELSE IF <<k[1], Warning>> \in device THEN Warning ELSE None]

\* AlertLatch::update.
Fresh(d) == {k \in Keys : d.active[k] > d.notified[k]}

\* MUTANTS: what is gone stays notified; what is gone stays acknowledged.
LatchKeeping(d) ==
    [d EXCEPT !.notified = [k \in Keys |-> Higher(d.active[k], d.notified[k])]]

LatchQuitted(d) ==
    [d EXCEPT !.notified     = [k \in Keys |-> IF d.active[k] = None THEN None
                                               ELSE Higher(d.active[k], d.notified[k])]]

Latch(d) ==
    [d EXCEPT !.notified     = [k \in Keys |-> IF d.active[k] = None THEN None
                                               ELSE Higher(d.active[k], d.notified[k])],
              !.acknowledged = [k \in Keys |-> IF d.active[k] = None /\ d.notified[k] # None
                                               THEN None ELSE d.acknowledged[k]]]

\* alarmsPaused_, which every dialog of the settings puts back as it found it.
Paused(d) == d.settings > 0

\* updateMonitoring; announced is what alarmRaised carries.
Monitor(d) ==
    LET e == [d EXCEPT !.active = Collected(d)]
    IN  IF Paused(e) THEN e
        ELSE [Latch(e) EXCEPT !.announced = [k \in Keys |-> Higher(@[k],
                                                IF k \in Fresh(e) THEN e.active[k] ELSE None)]]

Receive(d) == [d EXCEPT !.age = "fresh", !.receptionFailed = FALSE]

CommandError(d) == [d EXCEPT !.commandError = TRUE, !.failureId = @ + 1]

\* Shown with a Q.
Acknowledged(d, k) == d.acknowledged[k] >= d.active[k]

-----------------------------------------------------------------------------
Away(d) == {k \in Keys : d.active[k] = None}

\* Alarms the latch forgets at the end of a handler: it had them, and was asked.
Forgotten(d) ==
    IF Paused(desk) \/ Paused(d) THEN {}
    ELSE {k \in Away(d) : incident[k].told # None \/ d.announced[k] # None \/ k \in missed.told}

\* A handler leaves the fields as d, and acknowledged what acked says.  An alarm
\* that is not among the active ones at its end is over.
Becomes(d, acked) ==
    /\ desk' = d
    /\ incident' = [k \in Keys |->
          IF k \in Away(d) THEN [told |-> None, acked |-> None]
          ELSE [told |-> Higher(incident[k].told, d.announced[k]), acked |-> acked[k]]]
    /\ missed' =
          [told  |-> (missed.told \cup {k \in Away(d) : incident[k].told # None}) \ Forgotten(d),
           acked |-> (missed.acked \cup {k \in Away(d) : acked[k] # None}) \ Forgotten(d)]

Quiet == [desk EXCEPT !.announced = Empty]
Acked == [k \in Keys |-> incident[k].acked]

\* statusPacketReceived, then statusReceived (applyStatus): the status may be
\* the answer to a command, and confirm it or not.
StatusReceived(s, outcome) ==
    LET d == [Monitor(Receive(Quiet)) EXCEPT !.status = s]
    IN  /\ desk.running
        /\ outcome = "refuted" => desk.failureId < MaxFailures
        /\ Becomes(Monitor(CASE outcome = "none"      -> d
                             [] outcome = "confirmed" -> [d EXCEPT !.commandError = FALSE]
                             [] outcome = "refuted"   -> CommandError(d)), Acked)

\* statusPacketReceived alone: the controller waits for another status.
PacketReceived == desk.running /\ Becomes(Monitor(Receive(Quiet)), Acked)

\* setConnectionError.
Lost(d) == Monitor([d EXCEPT !.receptionFailed = TRUE])
Failed == desk.running /\ Becomes(Lost(Quiet), Acked)

CommandFailed ==
    /\ desk.running /\ desk.failureId < MaxFailures
    /\ Becomes(Monitor(CommandError(Quiet)), Acked)

AutomationState(error) ==
    desk.running /\ Becomes(Monitor([Quiet EXCEPT !.scriptError = error]), Acked)

\* The timer: the data are older, or not.
UpdateFooter ==
    \E age \in {desk.age} \cup {Freshness[i + 1] : i \in {j \in 1..2 : Freshness[j] = desk.age}} :
        Becomes(Monitor([Quiet EXCEPT !.age = age]), Acked)

\* In the dialog of the alarms, or in the menu, which the tray icon opens also
\* over another dialog.
AcknowledgeAlarms ==
    Becomes(Monitor([Quiet EXCEPT !.commandError = FALSE,
                       !.acknowledged = [k \in Keys |-> IF desk.active[k] # None THEN desk.active[k]
                                                        ELSE @[k]]]),
            [k \in Keys |-> Higher(incident[k].acked, desk.active[k])])

\* showSettings: the controller stops.
OpenSettings ==
    /\ desk.settings < MaxSettings
    /\ Becomes([Quiet EXCEPT !.settings = @ + 1, !.running = FALSE], Acked)

\* The controller starts, and may fail at once, before the pause ends.
Ends(d, failed) ==
    [(IF failed THEN Lost(d) ELSE d) EXCEPT !.settings = @ - 1, !.running = TRUE]

CloseSettings(failed) == Paused(desk) /\ Becomes(Ends(Quiet, failed), Acked)

\* The footer is redrawn before the pause ends; every alarm begins anew.
ChangeServer(failed) ==
    /\ Paused(desk)
    /\ desk' = Ends(Monitor([Quiet EXCEPT !.status = NoStatus, !.age = "waiting",
                                          !.receptionFailed = FALSE, !.commandError = FALSE,
                                          !.notified = Empty, !.acknowledged = Empty]), failed)
    /\ incident' = [k \in Keys |-> [told |-> None, acked |-> None]]
    /\ missed' = [told |-> {}, acked |-> {}]

Init ==
    /\ desk = [status |-> NoStatus, age |-> "waiting", receptionFailed |-> FALSE,
               commandError |-> FALSE, failureId |-> 0, scriptError |-> FALSE,
               settings |-> 0, running |-> TRUE,
               notified |-> Empty, acknowledged |-> Empty, active |-> Empty, announced |-> Empty]
    /\ incident = [k \in Keys |-> [told |-> None, acked |-> None]]
    /\ missed = [told |-> {}, acked |-> {}]

Next ==
    \/ \E s \in Statuses, o \in {"none", "confirmed", "refuted"} : StatusReceived(s, o)
    \/ \E error \in BOOLEAN : AutomationState(error)
    \/ \E failed \in BOOLEAN : CloseSettings(failed) \/ ChangeServer(failed)
    \/ PacketReceived \/ Failed \/ CommandFailed \/ UpdateFooter \/ AcknowledgeAlarms \/ OpenSettings

Spec == Init /\ [][Next]_vars

-----------------------------------------------------------------------------
(* Outside the settings dialogs no alarm is shown that was not announced   *)
(* at its level: escalation and return are announced, also those that came *)
(* while the dialogs were open.  Only an alarm that had been announced and *)
(* went away while the alarms paused may return unannounced (alerts.hpp:   *)
(* 33-38, desklet.cpp:372).                                                *)
EveryAlarmIsAnnounced ==
    [][~Paused(desk) /\ ~Paused(desk')
          => \A k \in Keys : incident'[k].told >= desk'.active[k] \/ k \in missed'.told]_vars

(* An alarm is announced once: as long as it does not go away nor rise     *)
(* above what was announced, nothing is said of it again.                  *)
AnnouncedOnce ==
    [][\A k \in Keys : desk'.announced[k] # None
          => \/ desk'.announced[k] > incident[k].told
             \/ desk.active[k] = None]_vars

(* The two together: an incident is told, and told once.                   *)
AnnouncedAsItHappens == EveryAlarmIsAnnounced /\ AnnouncedOnce

(* Every return is announced, and so is every escalation                   *)
(* (docs/ARCHITECTURE.md, "Verschaerfung und Wiederauftreten bleiben       *)
(* eigenstaendige Ereignisse").                                            *)
(* The code does not keep this; see README.md.                             *)
ReturnsAreAnnounced ==
    [][~Paused(desk) /\ ~Paused(desk')
          => \A k \in Keys : incident'[k].told >= desk'.active[k]]_vars

\* The user has seen this level since the alarm last was away.
Seen(k) == desk.active[k] # None /\ Acknowledged(desk, k) => incident[k].acked >= desk.active[k]

(* A Q stands only where the user has seen this level since the alarm last *)
(* was away: it covers neither what has become worse nor what returns.     *)
(* Only an alarm that was acknowledged and ended unseen by the latch, while*)
(* the alarms paused or before it was announced, may return with its Q     *)
(* (alerts.cpp:50-67).                                                     *)
QuittedInThisIncident == \A k \in Keys : Seen(k) \/ k \in missed.acked

(* A Q stands only where the user has seen this level in this incident     *)
(* (docs/USER_GUIDE.de.md, "Quittierung markiert andauernde Ursachen", and *)
(* docs/ARCHITECTURE.md of returns).                                       *)
(* The code does not keep this; see README.md.                             *)
QuittedIsSeen == \A k \in Keys : Seen(k)
=============================================================================
