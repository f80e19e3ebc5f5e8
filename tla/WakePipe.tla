----------------------------- MODULE WakePipe -----------------------------
(***************************************************************************)
(* How an event reaches the main thread of airctrl-server                  *)
(* (src/src/server/server.cpp, postEvent and processEvents): it is queued  *)
(* under a mutex, and then a byte is written to a pipe that the main       *)
(* thread polls.  The pipe is not blocking; a byte that does not fit is    *)
(* lost, and nothing looks at the queue unless the pipe is readable.       *)
(* Events are posted by the worker and, in handle("refresh"), by the main  *)
(* thread itself.                                                          *)
(***************************************************************************)
EXTENDS Naturals, Sequences

CONSTANTS
    Capacity,   \* bytes that the pipe holds
    Block,      \* bytes that processEvents reads at a time
    MaxPosts    \* bound: events posted in a behaviour

ASSUME SizesAssumption ==
    Capacity \in Nat \ {0} /\ Block \in Nat \ {0} /\ MaxPosts \in Nat

VARIABLES
    events,     \* events_ (eventMutex_); an event is named by its number
    pipe,       \* number of bytes in the pipe
    posted,     \* number of events posted
    mainPc,     \* where the main thread is in run and processEvents
    workerPc,   \* where the worker is in postEvent
    batch,      \* processEvents: the local deque "pending"
    processed   \* the event processed last

vars == <<events, pipe, posted, mainPc, workerPc, batch, processed>>

Init ==
    /\ events = <<>> /\ pipe = 0 /\ posted = 0
    /\ mainPc = "poll" /\ workerPc = "elsewhere"
    /\ batch = <<>> /\ processed = 0

-----------------------------------------------------------------------------
(* postEvent *)

\* Mutant: push_front instead of push_back.
QueueInFront ==
    /\ posted < MaxPosts
    /\ posted' = posted + 1
    /\ events' = <<posted + 1>> \o events

Queue ==
    /\ posted < MaxPosts
    /\ posted' = posted + 1
    /\ events' = Append(events, posted + 1)

Write == pipe' = IF pipe < Capacity THEN pipe + 1 ELSE pipe

WorkerQueues ==
    /\ workerPc = "elsewhere" /\ workerPc' = "write"
    /\ Queue
    /\ UNCHANGED <<pipe, mainPc, batch, processed>>

WorkerWrites ==
    /\ workerPc = "write" /\ workerPc' = "elsewhere"
    /\ Write
    /\ UNCHANGED <<events, posted, mainPc, batch, processed>>

\* The handler of a request, which may post as well.
MainQueues ==
    /\ mainPc = "handle" /\ mainPc' = "write"
    /\ Queue
    /\ UNCHANGED <<pipe, workerPc, batch, processed>>

MainWrites ==
    /\ mainPc = "write" /\ mainPc' = "handle"
    /\ Write
    /\ UNCHANGED <<events, posted, workerPc, batch, processed>>

HandlersDone ==
    /\ mainPc = "handle" /\ mainPc' = "poll"
    /\ UNCHANGED <<events, pipe, posted, workerPc, batch, processed>>

-----------------------------------------------------------------------------
(* run and processEvents *)

\* poll finds the pipe readable, or returns for the sake of the clients alone.
Poll ==
    /\ mainPc = "poll"
    /\ mainPc' = IF pipe > 0 THEN "drain" ELSE "handle"
    /\ UNCHANGED <<events, pipe, posted, workerPc, batch, processed>>

\* One read; the first one that finds nothing ends the loop.
Drain ==
    /\ mainPc = "drain"
    /\ IF pipe = 0
       THEN mainPc' = "swap" /\ UNCHANGED pipe
       ELSE pipe' = (IF pipe < Block THEN 0 ELSE pipe - Block) /\ UNCHANGED mainPc
    /\ UNCHANGED <<events, posted, workerPc, batch, processed>>

\* Mutant: one event for each wake-up.
SwapOne ==
    /\ mainPc = "swap" /\ mainPc' = "process"
    /\ IF events = <<>> THEN UNCHANGED <<batch, events>>
       ELSE batch' = <<Head(events)>> /\ events' = Tail(events)
    /\ UNCHANGED <<pipe, posted, workerPc, processed>>

Swap ==
    /\ mainPc = "swap" /\ mainPc' = "process"
    /\ batch' = events
    /\ events' = <<>>
    /\ UNCHANGED <<pipe, posted, workerPc, processed>>

ProcessEvent ==
    /\ mainPc = "process" /\ batch # <<>>
    /\ processed' = Head(batch)
    /\ batch' = Tail(batch)
    /\ UNCHANGED <<events, pipe, posted, mainPc, workerPc>>

\* Mutant: the pipe is drained after the events.
ProcessedDraining ==
    /\ mainPc = "process" /\ batch = <<>> /\ mainPc' = "handle"
    /\ pipe' = 0
    /\ UNCHANGED <<events, posted, workerPc, batch, processed>>

Processed ==
    /\ mainPc = "process" /\ batch = <<>> /\ mainPc' = "handle"
    /\ UNCHANGED <<events, pipe, posted, workerPc, batch, processed>>

-----------------------------------------------------------------------------

Main == MainWrites \/ HandlersDone \/ Poll \/ Drain \/ Swap \/ ProcessEvent \/ Processed

Next == WorkerQueues \/ WorkerWrites \/ MainQueues \/ Main

Spec == Init /\ [][Next]_vars

\* poll returns every 100 ms at the latest, and a handler ends.  (The loop that ends
\* with the program is not modelled: what is still queued then is dropped with it.)
FairSpec == Spec /\ WF_vars(Main) /\ WF_vars(WorkerWrites)

-----------------------------------------------------------------------------
(* Properties *)

Numbers == 1..MaxPosts

TypeOK ==
    /\ events \in Seq(Numbers) /\ batch \in Seq(Numbers)
    /\ pipe \in 0..Capacity
    /\ posted \in 0..MaxPosts /\ processed \in 0..MaxPosts
    /\ mainPc \in {"poll", "handle", "write", "drain", "swap", "process"}
    /\ workerPc \in {"elsewhere", "write"}

(***************************************************************************)
(* No wake-up is lost: when an event waits in the queue, the pipe is       *)
(* readable, or its poster is about to write, or the main thread is about  *)
(* to take the queue (the byte is written after the event is queued, and   *)
(* the pipe is drained before the queue is taken; a byte that did not fit  *)
(* finds others before it).                                                *)
(***************************************************************************)
WakeUpNotLost ==
    events # <<>> =>
        \/ pipe > 0
        \/ workerPc = "write" \/ mainPc = "write"
        \/ mainPc \in {"drain", "swap"}

(***************************************************************************)
(* What the main thread and the worker rely on: every posted event is      *)
(* processed, once, in the order of posting, whoever posted it.            *)
(***************************************************************************)
Promise == INSTANCE Mailbox

InOrder  == Promise!SafeSpec
Delivers == Promise!Spec

=============================================================================
