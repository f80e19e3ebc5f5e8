---------------------------- MODULE OrderLedger ----------------------------
(***************************************************************************)
(* What airctrl-server promises about the orders it accepts, of clients    *)
(* and of the Lua automation alike, whatever sessions, refreshes and       *)
(* failures come between: each is sent to the device at most once, in the  *)
(* order of acceptance, and gets at most one outcome; one that has its     *)
(* outcome is not sent any more, and "ok" is the outcome of nothing that   *)
(* was not sent.                                                           *)
(***************************************************************************)
EXTENDS Naturals

CONSTANT MaxCommands    \* bound: orders accepted in a behaviour

Ids == 1..MaxCommands

VARIABLES
    issued,     \* number of orders accepted, the id of the last one
    sent,       \* ids sent to the device
    outcome     \* per id, "none" until there is one

vars == <<issued, sent, outcome>>

Init ==
    /\ issued = 0
    /\ sent = {}
    /\ outcome = [id \in Ids |-> "none"]

Unsettled(id) == id <= issued /\ outcome[id] = "none"

Accept ==
    /\ issued < MaxCommands
    /\ issued' = issued + 1
    /\ UNCHANGED <<sent, outcome>>

Send(id) ==
    /\ Unsettled(id)
    /\ \A earlier \in sent : earlier < id
    /\ sent' = sent \cup {id}
    /\ UNCHANGED <<issued, outcome>>

\* "dropped": accepted by the device, replaced before a status showed its effect.
Settle(id) ==
    /\ Unsettled(id)
    /\ \E result \in {"ok", "failed", "dropped"} :
          /\ result \in {"ok", "dropped"} => id \in sent
          /\ outcome' = [outcome EXCEPT ![id] = result]
    /\ UNCHANGED <<issued, sent>>

Next == Accept \/ \E id \in Ids : Send(id) \/ Settle(id)

Spec == Init /\ [][Next]_vars

=============================================================================
