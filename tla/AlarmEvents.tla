---------------------------- MODULE AlarmEvents ----------------------------
(***************************************************************************)
(* The server announces alarms to its script when their digest changes     *)
(* (publishDeviceAlerts, src/src/server/automation.cpp), the desklet shows *)
(* those of the status it was sent.                                        *)
(***************************************************************************)
EXTENDS AlertRules

CONSTANT Reported   \* the values the device reports, for each field

Numbers == {"fltsts0", "fltsts1", "fltsts2", "wicksts", "wl", "err"}

\* A number where one is expected, or none; the device is on or off.
ASSUME ReportedAssumption ==
    /\ Missing \notin Int
    /\ {"pwr", "func", "modelid", "type"} \cup Numbers \subseteq DOMAIN Reported
    /\ Reported.pwr = {"0", "1"} /\ Reported.func = {"P", "PH"}
    /\ \A f \in Numbers : Reported[f] # {} /\ Reported[f] \subseteq Int \cup {Missing}

VARIABLES
    status,     \* the last status, at the server and at the desklet
    digest,     \* lastAlertDigest_
    event       \* what the script was told last

alarmVars == <<status, digest, event>>

PublishDeviceAlerts(s) ==
    /\ status' = s
    /\ digest' = ServerAlerts(s)
    /\ event' = IF ServerAlerts(s) = digest THEN event ELSE ServerAlerts(s)

\* The device reports one change after the other, from when it is off.
AlarmInit ==
    /\ status = [f \in DOMAIN Reported |-> IF f = "pwr" THEN "0" ELSE CHOOSE v \in Reported[f] : TRUE]
    /\ digest = {} /\ event = {}

AlarmNext ==
    \E f \in DOMAIN Reported : \E v \in Reported[f] :
        PublishDeviceAlerts([status EXCEPT ![f] = v])

AlarmSpec == AlarmInit /\ [][AlarmNext]_alarmVars

-----------------------------------------------------------------------------
(* The script and the user hear of the same alarms at the same levels: the *)
(* two translations of the device's codes agree at every boundary, and no  *)
(* change of a level is kept from the script (automation.cpp:806-853,      *)
(* emblems.cpp:103-163, alerts.cpp:23-34).                                 *)
ScriptKnowsWhatIsShown == event = DeviceAlerts(status)
=============================================================================
