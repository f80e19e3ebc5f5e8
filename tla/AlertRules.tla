----------------------------- MODULE AlertRules -----------------------------
(***************************************************************************)
(* What a status of the device warns of, as the server tells its script    *)
(* (publishDeviceAlerts, src/src/server/automation.cpp) and as the desklet *)
(* shows it (src/src/client/emblems.cpp, alerts.cpp).  The two are written *)
(* twice, in two languages of JSON.                                        *)
(***************************************************************************)
EXTENDS Integers

CONSTANT Missing    \* no such field, or nothing that is an integer

Warning == 1
Error   == 2

FilterWarningHours == 120

-----------------------------------------------------------------------------
(* The server.                                                             *)

IsAc2729(s) == IF s.modelid # "" THEN s.modelid = "AC2729" ELSE s.type = "AC2729"

FilterIds == [fltsts1 |-> "filter-hepa", fltsts2 |-> "filter-carbon", wicksts |-> "filter-wick"]

\* MUTANT: the limit itself is left out.
ServerFilterAlertsBelow(s) ==
    {<<FilterIds[f], IF s[f] = 0 THEN Error ELSE Warning>> :
        f \in {g \in DOMAIN FilterIds : s[g] \in 0..(FilterWarningHours - 1)}}

ServerFilterAlerts(s) ==
    {<<FilterIds[f], IF s[f] = 0 THEN Error ELSE Warning>> :
        f \in {g \in DOMAIN FilterIds : s[g] \in 0..FilterWarningHours}}

ServerAlerts(s) ==
    IF ~IsAc2729(s) \/ s.pwr # "1" THEN {}
    ELSE UNION {ServerFilterAlerts(s),
                IF s.func = "PH" /\ (s.wl = 0 \/ s.err = 49408) THEN {<<"water", Warning>>} ELSE {},
                IF s.fltsts0 = 0 \/ s.err \in {49153, 49155} THEN {<<"clean", Warning>>} ELSE {}}

-----------------------------------------------------------------------------
(* The desklet.                                                            *)

FilterNotices(s) ==
    IF ~IsAc2729(s) \/ s.pwr # "1" THEN {}
    ELSE {[key |-> FilterIds[f], due |-> s[f] = 0] :
            f \in {g \in DOMAIN FilterIds : s[g] \in Int /\ ~(s[g] < 0 \/ s[g] > FilterWarningHours)}}

\* The emblems that warn; the others only show what is set.
WarningEmblems(s) ==
    {id \in {"filter", "water", "clean"} :
        /\ s.pwr = "1" /\ IsAc2729(s)
        /\ CASE id = "filter" -> FilterNotices(s) # {}
             [] id = "water"  -> s.func = "PH" /\ (s.wl = 0 \/ s.err = 49408)
             [] id = "clean"  -> s.fltsts0 = 0 \/ s.err = 49153 \/ s.err = 49155}

DeviceAlerts(s) ==
    {<<n.key, IF n.due THEN Error ELSE Warning>> : n \in FilterNotices(s)}
    \cup {<<id, Warning>> : id \in WarningEmblems(s) \ {"wifi", "filter"}}
=============================================================================
