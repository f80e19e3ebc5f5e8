------------------------------ MODULE MCClient ------------------------------
(***************************************************************************)
(* The parts of the desklet that share nothing, side by side: the commands *)
(* of the window, the connection to the server, the alarms, the mouse and  *)
(* the dialogs.  A behaviour is one of one part, chosen at the beginning;  *)
(* the others stay as they are initially.                                  *)
(***************************************************************************)
EXTENDS AlertMonitor, CommandPanel, ServerLink, DeskletInput

VARIABLE part       \* the part that runs

\* A filter that is well, near its end, at it.
Filter(hours) ==
    [modelid |-> "AC2729", type |-> "AC2729", pwr |-> "1", func |-> "P", fltsts1 |-> hours,
     fltsts2 |-> Missing, wicksts |-> Missing, fltsts0 |-> Missing, wl |-> Missing,
     err |-> Missing]
FilterStatuses == {Filter(200), Filter(120), Filter(0)}

\* The alarms in two halves: of the device and its reception, and of the reception,
\* the commands and the script.
OfTheDevice == desk.failureId = 0 /\ ~desk.scriptError
OfTheRest   == desk.status \in {NoStatus, Filter(200)}

-----------------------------------------------------------------------------
Parts == {"alarms", "causes", "panel", "link", "input"}

ClientInit ==
    /\ part \in Parts
    /\ Init /\ PanelInit /\ LinkInit /\ InputInit
    \* One state where the server does not matter.
    /\ part # "link" => up

\* Every part but the one chosen is left alone.
Only(chosen) ==
    /\ part = chosen /\ UNCHANGED part
    /\ IF chosen \in {"alarms", "causes"} THEN TRUE ELSE UNCHANGED vars
    /\ IF chosen = "panel"  THEN TRUE ELSE UNCHANGED panelVars
    /\ IF chosen = "link"   THEN TRUE ELSE UNCHANGED linkVars
    /\ IF chosen = "input"  THEN TRUE ELSE UNCHANGED inputVars

ClientNext ==
    \/ Only("alarms") /\ Next /\ OfTheDevice'
    \/ Only("causes") /\ Next /\ OfTheRest'
    \/ Only("panel")  /\ PanelNext
    \/ Only("link")   /\ LinkNext
    \/ Only("input")  /\ InputNext

clientVars == <<part, vars, panelVars, linkVars, inputVars>>

ClientSpec == ClientInit /\ [][ClientNext]_clientVars
=============================================================================
