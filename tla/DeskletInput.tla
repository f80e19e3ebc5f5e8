---------------------------- MODULE DeskletInput ----------------------------
(***************************************************************************)
(* Mouse, menus and dialogs of the desklet: the event filter of the window *)
(* (src/src/client/desklet_events.cpp), the long press of the timer button *)
(* and the dialogs (src/src/client/desklet.cpp).                           *)
(*                                                                         *)
(* A menu or a dialog runs an event loop of its own within the handler     *)
(* that opened it: stack holds the open ones, the last runs.  Timers and   *)
(* the icon in the system tray are served by all of them, the mouse in the *)
(* window only while none is open: what is pressed in the window may be    *)
(* released in a menu.                                                     *)
(***************************************************************************)
EXTENDS Naturals, Sequences, SequencesExt

CONSTANTS
    MaxDepth        \* bound: menus and dialogs open at once

ASSUME InputAssumption == MaxDepth \in Nat \ {0}

Buttons == {"timer", "power"}
Widgets == Buttons \cup {"monitor", "values"}
Dialogs == {"settings", "other"}     \* the alarms are one of the others

VARIABLES
    ui,         \* the fields of Desklet
    stack,      \* open menus and dialogs
    mouse,      \* where the left button is held, was it moved far in the window, was
                \* its press seen there, is the button of the device under it down, is
                \* the right one held
    history     \* history: what the press in hand led to

inputVars == <<ui, stack, mouse, history>>

-----------------------------------------------------------------------------
InWindow == stack = <<>>
Movable == ~ui.locked

\* requestMenu, and openMenu in a later turn of the event loop.
RequestMenu == IF ui.menuShot \/ ui.menuOpen THEN ui ELSE [ui EXCEPT !.menuShot = TRUE]

\* MUTANT: openMenu does not look either.
OpenedAnyway == Append(stack, "menu")
Opened == IF ui.menuOpen THEN stack ELSE Append(stack, "menu")

OpenMenu ==
    /\ ui.menuShot /\ Len(stack) < MaxDepth
    /\ ui' = [ui EXCEPT !.menuShot = FALSE, !.menuOpen = TRUE]
    /\ stack' = Opened /\ UNCHANGED <<mouse, history>>

\* Shift+F10 and the menu key of the window.
MenuKey ==
    /\ InWindow /\ stack' = Opened /\ ui' = [ui EXCEPT !.menuOpen = TRUE]
    /\ UNCHANGED <<mouse, history>>

-----------------------------------------------------------------------------
(* eventFilter, and the buttons where it lets an event pass.               *)

\* pressed of the timer button.
Pressed == [ui EXCEPT !.longTimer = TRUE, !.triggered = FALSE]

\* A press elsewhere takes the focus of a button that was left down, see ComesUp.
LeftDown(w) ==
    /\ mouse.on = "nothing"
    /\ mouse' = [mouse EXCEPT !.on = w, !.far = FALSE, !.seen = InWindow,
                              !.down = InWindow /\ w \in Buttons]
    /\ history' = {}
    /\ ui' = IF ~InWindow THEN ui
             ELSE IF w \notin Buttons
             THEN [ui EXCEPT !.leftPressed = TRUE, !.moved = FALSE, !.longTimer = FALSE]
             ELSE IF w = "timer" THEN Pressed
             ELSE [ui EXCEPT !.longTimer = FALSE]
    /\ UNCHANGED stack

Moved(far) == ui.moved \/ far

LeftMove(far) ==
    /\ mouse.on # "nothing"
    /\ mouse' = [mouse EXCEPT !.far = @ \/ (far /\ InWindow)]
    /\ ui' = (IF InWindow /\ ui.leftPressed THEN [ui EXCEPT !.moved = Moved(far)] ELSE ui)
    /\ UNCHANGED <<stack, history>>

\* A button comes up without a click: the pointer leaves it, it is disabled or it
\* loses the focus.  released stops the timer.
ComesUp ==
    /\ mouse.down \/ ui.longTimer
    /\ mouse' = [mouse EXCEPT !.down = FALSE] /\ ui' = [ui EXCEPT !.longTimer = FALSE]
    /\ UNCHANGED <<stack, history>>

\* The pointer, still held, is over its button again: pressed once more.
ComesDown ==
    /\ InWindow /\ ~ui.leftPressed /\ mouse.seen /\ mouse.on \in Buttons /\ ~mouse.down
    /\ mouse' = [mouse EXCEPT !.down = TRUE]
    /\ ui' = IF mouse.on = "timer" THEN Pressed ELSE ui
    /\ history' = history \cup {"again"} /\ UNCHANGED stack

\* The compositor takes the move over.
NativeMove ==
    /\ InWindow /\ ui.leftPressed /\ ui.moved /\ Movable
    /\ ui' = [ui EXCEPT !.leftPressed = FALSE] /\ UNCHANGED <<stack, mouse, history>>

\* clicked of a button: what a long press already did is not done again.
Clicked(w) == ~(w = "timer" /\ ui.triggered)

LeftUp ==
    /\ mouse.on # "nothing"
    /\ mouse' = [mouse EXCEPT !.on = "nothing", !.down = FALSE]
    /\ \/ /\ ~InWindow /\ UNCHANGED <<ui, stack, history>>
       \/ /\ InWindow /\ ui.leftPressed
          /\ ui' = [ui EXCEPT !.leftPressed = FALSE,
                              !.alarmShot = @ \/ (~ui.moved /\ mouse.on = "monitor")]
          /\ history' = history \cup (IF ~ui.moved /\ mouse.on = "monitor" THEN {"alarms"} ELSE {})
          /\ UNCHANGED stack
       \/ /\ InWindow /\ ~ui.leftPressed
          /\ IF mouse.down
             THEN /\ ui' = [ui EXCEPT !.longTimer = FALSE,
                                      !.triggered = IF mouse.on = "timer" THEN FALSE ELSE @]
                  /\ history' = history \cup (IF ~Clicked(mouse.on) THEN {"swallowed"}
                                              ELSE IF mouse.on = "timer" THEN {"short"} ELSE {"action"})
                  /\ stack' = (IF Clicked(mouse.on) /\ mouse.on = "timer"
                               THEN Append(stack, "control") ELSE stack)
             ELSE UNCHANGED <<ui, stack, history>>

RightDown ==
    /\ ~mouse.right /\ mouse' = [mouse EXCEPT !.right = TRUE]
    /\ ui' = (IF InWindow THEN [ui EXCEPT !.rightPressed = TRUE] ELSE ui)
    /\ UNCHANGED <<stack, history>>

RightUp ==
    /\ mouse.right /\ mouse' = [mouse EXCEPT !.right = FALSE]
    /\ ui' = (IF InWindow THEN [RequestMenu EXCEPT !.rightPressed = FALSE] ELSE ui)
    /\ UNCHANGED <<stack, history>>

\* By the right button, at its press or release, or by the keyboard.
ContextMenu ==
    /\ InWindow /\ ui' = (IF ui.rightPressed THEN ui ELSE RequestMenu)
    /\ UNCHANGED <<stack, mouse, history>>

-----------------------------------------------------------------------------
(* Timers, menus and dialogs.                                              *)

\* longTimerPress_.
LongPress ==
    /\ ui.longTimer
    /\ ui' = [ui EXCEPT !.longTimer = FALSE, !.triggered = TRUE]
    /\ history' = history \cup {"long"} /\ UNCHANGED <<stack, mouse>>

\* A dialog takes the focus, and a button that was down comes up without a
\* click; a menu, a popup, does not.
Open(dialog, fields) ==
    /\ Len(stack) < MaxDepth /\ stack' = Append(stack, dialog)
    /\ ui' = [fields EXCEPT !.longTimer = FALSE]
    /\ mouse' = [mouse EXCEPT !.down = FALSE] /\ UNCHANGED history

ShowAlarms == ui.alarmShot /\ Open("other", [ui EXCEPT !.alarmShot = FALSE])

\* showSettings stops the controller; its end starts it again.
Show(dialog) ==
    Open(dialog, IF dialog = "settings" THEN [ui EXCEPT !.active = FALSE, !.paused = TRUE] ELSE ui)

\* The popup ends first, its action runs within exec of the menu.
Choose(dialog) == stack # <<>> /\ Last(stack) = "menu" /\ Show(dialog)

\* The tray is served whatever is open.
Tray(dialog) == Show(dialog)
TrayMenu == ui' = RequestMenu /\ UNCHANGED <<stack, mouse, history>>

Lock == ui' = [ui EXCEPT !.locked = ~@] /\ stack # <<>> /\ Last(stack) = "menu"
        /\ UNCHANGED <<stack, mouse, history>>

\* A dialog ends, and with it the menu it was chosen from.
PausedAfter(rest) == \E i \in 1..Len(rest) : rest[i] = "settings"

Close ==
    /\ stack # <<>>
    /\ LET below == Front(stack)
           rest  == IF below # <<>> /\ Last(below) = "menu" THEN Front(below) ELSE below
       IN  /\ stack' = rest
           /\ ui' = [ui EXCEPT !.active = @ \/ Last(stack) = "settings",
                               !.paused = PausedAfter(rest),
                               !.menuOpen = \E i \in 1..Len(rest) : rest[i] = "menu"]
    /\ UNCHANGED <<mouse, history>>

InputInit ==
    /\ ui = [leftPressed |-> FALSE, rightPressed |-> FALSE, moved |-> FALSE, locked |-> FALSE,
             longTimer |-> FALSE, triggered |-> FALSE, menuShot |-> FALSE, alarmShot |-> FALSE,
             menuOpen |-> FALSE, paused |-> FALSE, active |-> TRUE]
    /\ stack = <<>> /\ mouse = [on |-> "nothing", far |-> FALSE, seen |-> FALSE, down |-> FALSE, right |-> FALSE]
    /\ history = {}

InputNext ==
    \/ OpenMenu \/ MenuKey \/ NativeMove \/ LeftUp \/ RightDown \/ RightUp \/ ContextMenu \/ LongPress
    \/ ComesUp \/ ComesDown \/ ShowAlarms \/ TrayMenu \/ Lock \/ Close
    \/ \E w \in Widgets : LeftDown(w)
    \/ \E b \in BOOLEAN : LeftMove(b)
    \/ \E d \in Dialogs : Choose(d) \/ Tray(d)

InputSpec == InputInit /\ [][InputNext]_inputVars

-----------------------------------------------------------------------------
(* A right click opens one menu, whichever of its press, its release and   *)
(* the context event come, and whatever is open by then                    *)
(* (desklet_events.cpp:75-76, "must only open one menu").                  *)
OneMenu == \A i, j \in 1..Len(stack) : stack[i] = "menu" /\ stack[j] = "menu" => i = j

(* One press of the timer button leads to the long function or to the      *)
(* menu; to both only when the pointer left the button held and came back, *)
(* whatever menus and dialogs open and close meanwhile (desklet.cpp:92-111 *)
(* with desklet_events.cpp:83-119).                                        *)
LongOrShort == {"long", "short"} \subseteq history => "again" \in history

(* Who drags the window by the alarm display does not open it              *)
(* (desklet_events.cpp:112-114).                                           *)
DragIsNoClick == "alarms" \in history => ~mouse.far

(* Alarms pause while the settings are open, also below other dialogs.     *)
PausedInSettings == (\E i \in 1..Len(stack) : stack[i] = "settings") => ui.paused

(* One press does one thing, whatever is open, and one menu is open.       *)
OnePressOneThing == OneMenu /\ LongOrShort /\ DragIsNoClick /\ PausedInSettings

(* The long function is called while the button is held                    *)
(* (docs/LUA_AUTOMATION.md:104, "Bleibt die Timer-Taste im Desklet         *)
(* mindestens 800 ms gedrueckt").                                          *)
(* The code does not keep this; see README.md.                             *)
LongWhileHeld == [][LongPress => mouse.on = "timer"]_inputVars

(* After the long function the press opens no menu                         *)
(* (docs/LUA_AUTOMATION.md:106, "Das normale Timermenue wird bei diesem    *)
(* langen Druck nicht geoeffnet").                                         *)
(* The code does not keep this; see README.md.                             *)
LongOpensNoMenu == ~({"long", "short"} \subseteq history)

(* A click on a button of the device is its action, or the one of the long *)
(* press (desklet_events.cpp:86, "Device buttons keep their left-click     *)
(* action").                                                               *)
(* The code does not keep this; see README.md.                             *)
ButtonsKeepTheirClick ==
    [][LeftUp /\ InWindow /\ mouse.down
          => history' \cap {"short", "action", "swallowed"} # {}]_inputVars

(* While the settings are open the controller is stopped (desklet.cpp:596, *)
(* "no old-host reply can arrive during a modal configuration change").    *)
(* The code does not keep this; see README.md.                             *)
StoppedInSettings == (\E i \in 1..Len(stack) : stack[i] = "settings") => ~ui.active
=============================================================================
