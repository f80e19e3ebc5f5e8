------------------------------ MODULE Mailbox ------------------------------
(***************************************************************************)
(* What postEvent and processEvents promise each other: every event that   *)
(* was posted is processed, once, in the order of posting.  Events are     *)
(* named by their numbers.  DeviceBridge takes this for granted.           *)
(***************************************************************************)
EXTENDS Naturals

VARIABLES
    posted,     \* the event posted last
    processed   \* the event processed last

vars == <<posted, processed>>

Init == posted = 0 /\ processed = 0

Post == posted' = posted + 1 /\ UNCHANGED processed

Process ==
    /\ processed < posted
    /\ processed' = processed + 1
    /\ UNCHANGED posted

Next == Post \/ Process

SafeSpec == Init /\ [][Next]_vars
Spec     == SafeSpec /\ WF_vars(Process)

=============================================================================
