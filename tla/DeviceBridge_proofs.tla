------------------------ MODULE DeviceBridge_proofs ------------------------
(***************************************************************************)
(* Proofs about DeviceBridge, for every number of orders and every length  *)
(* of the event queue.                                                     *)
(***************************************************************************)
EXTENDS DeviceBridge, TLAPS

-----------------------------------------------------------------------------
(* Queues and events *)

LEMMA QueueFacts ==
  ASSUME NEW S, NEW q \in Seq(S)
  PROVE  /\ \A e \in S : Append(q, e) \in Seq(S)
         /\ q # <<>> => Head(q) \in S /\ Tail(q) \in Seq(S)
  OBVIOUS

LEMMA EmptyQueue == \A S : <<>> \in Seq(S)
  OBVIOUS

LEMMA EventFacts ==
    /\ \A kind \in {"start", "error", "status", "empty"} : Signal(kind) \in Event
    /\ \A c \in Command : Control(c, TRUE) \in Event /\ Control(c, FALSE) \in Event
    /\ \A e \in Event : e.kind = "control" => e.cmd \in Command
  BY DEF Event, Signal, Control

LEMMA HoldsFacts ==
  ASSUME NEW q \in Seq(Event), NEW e \in Event, NEW kind
  PROVE  /\ Holds(q, kind) => Holds(Append(q, e), kind)
         /\ e.kind = kind => Holds(Append(q, e), kind)
         /\ ~Holds(<<>>, kind)
         /\ q # <<>> /\ Holds(q, kind) /\ Head(q).kind # kind => Holds(Tail(q), kind)
<1>1. Holds(q, kind) => Holds(Append(q, e), kind)
  BY DEF Holds
<1>2. e.kind = kind => Holds(Append(q, e), kind)
  <2>1. Len(q) + 1 \in DOMAIN Append(q, e) /\ Append(q, e)[Len(q) + 1] = e
    OBVIOUS
  <2>2. QED BY <2>1 DEF Holds
<1>3. ~Holds(<<>>, kind)
  BY DEF Holds
<1>4. ASSUME q # <<>>, Holds(q, kind), Head(q).kind # kind PROVE Holds(Tail(q), kind)
  <2>1. PICK i \in DOMAIN q : q[i].kind = kind BY <1>4 DEF Holds
  <2>2. i # 1 BY <1>4, <2>1
  <2>3. i - 1 \in DOMAIN Tail(q) /\ Tail(q)[i - 1] = q[i] BY <1>4, <2>1, <2>2
  <2>4. QED BY <2>1, <2>3 DEF Holds
<1>5. QED BY <1>1, <1>2, <1>3, <1>4

-----------------------------------------------------------------------------
(* What each thread leaves to the other *)

LEMMA WorkerFrame == Worker => UNCHANGED <<mainVars, stopping>>
  BY DEF Worker, From, Top, Begin, PostStart, Connect, Check, Observe, ReceiveStatus, Deliver,
     ReceiveStopped, ReceiveFails, After, Take, SetControl, Judge, Report, Failed, PostError,
     Drain, PostDrained, WaitReconnect, End

LEMMA MainFrame == Requests \/ MainStep => UNCHANGED workerVars
  BY DEF Requests, MainStep, HandleControl, LuaAction, HandleResume, HandleRefresh, Shutdown,
     PushControl, PushAutomated, RefreshSwap, RefreshFail, TakeEvents, EventsDone, Processing,
     ProcessStart, ProcessError, ProcessStatus, ProcessEmpty, ProcessControl,
     ShutdownNotify, Join

-----------------------------------------------------------------------------
(* Type correctness *)

LEMMA EnqueueTypes ==
  ASSUME SharedTypes, issued \in 0..MaxCommands, issued < MaxCommands,
         NEW origin \in Origins, Enqueue(origin)
  PROVE  issued' \in 0..MaxCommands /\ commands' \in Seq(Command)
<1>1. [id |-> issued + 1, origin |-> origin] \in Command
  BY BoundsAssumption DEF Command, Ids
<1>2. QED BY <1>1, BoundsAssumption DEF Enqueue, SharedTypes

LEMMA SettleTypes ==
  ASSUME EventsTypes, NEW c, NEW outcome \in {"ok", "failed", "dropped"}, Settle(c, outcome)
  PROVE  answer' \in [Ids -> {"none", "ok", "failed", "dropped"}]
  BY DEF EventsTypes, Settle

LEMMA ResolveTypes ==
  ASSUME EventsTypes, NEW outcome \in {"ok", "failed"}, ResolveAwaiting(outcome)
  PROVE  /\ answer' \in [Ids -> {"none", "ok", "failed", "dropped"}]
         /\ awaiting' = NoCommand /\ awaitingOld' = FALSE
  BY SettleTypes DEF EventsTypes, ResolveAwaiting

LEMMA ProcessingTypes ==
  ASSUME TypeOK, NEW kind, Processing(kind)
  PROVE  /\ batch' \in Seq(Event) /\ Head(batch) \in Event
         /\ Head(batch).kind = kind
         /\ mainPc' \in {"events", "status"} /\ OrderTypes' /\ failing' = failing
         /\ SharedTypes'
  BY DEF TypeOK, MainTypes, Processing, EventsTypes, OrderTypes, SharedTypes, orderVars, sharedVars

LEMMA SessionStep == TypeOK /\ Worker => SessionTypes'
<1> SUFFICES ASSUME TypeOK, Worker PROVE SessionTypes'
  OBVIOUS
<1> USE DEF TypeOK, SessionTypes, sessionVars, WorkerPcs, From, Goto, Silent, Post
<1>1. CASE Top \/ Begin \/ PostStart \/ Connect \/ Check
  BY <1>1 DEF Top, Begin, PostStart, Connect, Check
<1>2. CASE Observe \/ ReceiveStatus \/ Deliver \/ ReceiveStopped \/ ReceiveFails \/ After
  BY <1>2 DEF Observe, ReceiveStatus, Deliver, ReceiveStopped, ReceiveFails, After
<1>3. CASE Take
  BY <1>3, QueueFacts, ZenonT(30) DEF Take, TakeHead, SharedTypes
<1>4. CASE SetControl
  BY <1>4 DEF SetControl, Command
<1>5. CASE Judge
  BY <1>5 DEF Judge
<1>6. CASE Report
  BY <1>6 DEF Report
<1>7. CASE Failed \/ PostError \/ WaitReconnect \/ End
  BY <1>7 DEF Failed, PostError, WaitReconnect, End
<1>8. CASE Drain
  BY <1>8, QueueFacts DEF Drain, TakeHead, SharedTypes
<1>9. CASE PostDrained
  BY <1>9 DEF PostDrained
<1>10. QED BY <1>1, <1>2, <1>3, <1>4, <1>5, <1>6, <1>7, <1>8, <1>9 DEF Worker

(***************************************************************************)
(* What a step of the worker does to the queues: it posts at most one      *)
(* event, takes at most the first order, and takes the refresh flag down   *)
(* only where it goes on to announce a new session.                        *)
(***************************************************************************)
LEMMA WorkerEffects ==
  ASSUME TypeOK, Worker
  PROVE  /\ \/ events' = events
            \/ \E e \in Event : events' = Append(events, e)
         /\ commands' = commands \/ (commands # <<>> /\ commands' = Tail(commands))
         /\ reconnectRequested' = reconnectRequested
            \/ (reconnectRequested' = FALSE /\ workerPc' = "start")
         /\ workerPc = "start" => events' = Append(events, Signal("start"))
         /\ deviceReady' \in BOOLEAN
<1> USE DEF From, Goto, Silent, Post, sessionVars
<1>1. CASE Top \/ Begin \/ Connect \/ Check \/ Observe \/ ReceiveStatus
  BY <1>1 DEF Top, Begin, Connect, Check, Observe, ReceiveStatus, TypeOK, SharedTypes
<1>2. CASE ReceiveStopped \/ ReceiveFails \/ After \/ Take \/ SetControl \/ Judge
  BY <1>2 DEF ReceiveStopped, ReceiveFails, After, Take, TakeHead, SetControl, Judge, TypeOK,
     SharedTypes
<1>3. CASE Failed \/ Drain \/ WaitReconnect \/ End
  BY <1>3 DEF Failed, Drain, TakeHead, WaitReconnect, End, TypeOK, SharedTypes
<1>4. CASE PostStart \/ Deliver \/ PostError
  BY <1>4, EventFacts DEF PostStart, Deliver, PostError, TypeOK, SharedTypes
<1>5. CASE Report
  <2>1. current \in Command BY <1>5 DEF Report, TypeOK, SessionTypes
  <2>2. Control(current, currentOk) \in Event
    BY <2>1, EventFacts DEF TypeOK, SessionTypes
  <2>3. QED BY <1>5, <2>2 DEF Report, TypeOK, SharedTypes
<1>6. CASE PostDrained
  <2>1. current \in Command BY <1>6 DEF PostDrained, TypeOK, SessionTypes
  <2>2. Control(current, FALSE) \in Event
    BY <2>1, EventFacts
  <2>3. QED BY <1>6, <2>2 DEF PostDrained, TypeOK, SharedTypes
<1>7. QED BY <1>1, <1>2, <1>3, <1>4, <1>5, <1>6 DEF Worker

LEMMA WorkerTypes == TypeOK /\ Worker => TypeOK'
<1> SUFFICES ASSUME TypeOK, Worker PROVE TypeOK'
  OBVIOUS
<1>1. MainTypes'
  BY WorkerFrame DEF TypeOK, MainTypes, OrderTypes, RefreshTypes, EventsTypes, mainVars,
     orderVars, refreshVars, eventVars
<1>2. commands' \in Seq(Command) /\ events' \in Seq(Event)
  BY WorkerEffects, QueueFacts DEF TypeOK, SharedTypes
<1>3. SharedTypes'
  BY <1>2, WorkerEffects, WorkerFrame DEF TypeOK, SharedTypes
<1>4. QED BY <1>1, <1>3, SessionStep DEF TypeOK

LEMMA RequestTypes == TypeOK /\ Requests => MainTypes' /\ SharedTypes'
<1> USE DEF TypeOK, MainTypes, MainPcs, OrderTypes, RefreshTypes, EventsTypes, SharedTypes,
            orderVars, refreshVars, eventVars, sharedVars
<1>1. ASSUME TypeOK, NEW origin \in ClientOrigins, HandleControl(origin)
      PROVE MainTypes' /\ SharedTypes'
  BY <1>1 DEF HandleControl, ClientOrigins
<1>2. ASSUME TypeOK, NEW origin \in LuaOrigins, LuaAction(origin)
      PROVE MainTypes' /\ SharedTypes'
  BY <1>2 DEF LuaAction, LuaOrigins
<1>3. ASSUME TypeOK, HandleResume \/ HandleRefresh \/ Shutdown PROVE MainTypes' /\ SharedTypes'
  BY <1>3, ZenonT(30) DEF HandleResume, HandleRefresh, Shutdown
<1>4. QED BY <1>1, <1>2, <1>3 DEF Requests

LEMMA PushTypes == TypeOK /\ (PushControl \/ PushAutomated) => MainTypes' /\ SharedTypes'
<1> SUFFICES ASSUME TypeOK, PushControl \/ PushAutomated PROVE MainTypes' /\ SharedTypes'
  OBVIOUS
<1>1. hand \in Origins /\ issued < MaxCommands /\ SharedTypes /\ issued \in 0..MaxCommands
  BY OriginsAssumption DEF PushControl, PushAutomated, ClientOrigins, LuaOrigins, TypeOK, MainTypes,
     OrderTypes
<1>2. issued' \in 0..MaxCommands /\ commands' \in Seq(Command)
  BY <1>1, EnqueueTypes DEF PushControl, PushAutomated, SharedTypes
<1>3. SharedTypes'
  BY <1>2 DEF PushControl, PushAutomated, TypeOK, SharedTypes
<1>4. OrderTypes'
  BY <1>2 DEF PushControl, PushAutomated, TypeOK, MainTypes, OrderTypes
<1>5. QED
  BY <1>3, <1>4 DEF PushControl, PushAutomated, TypeOK, MainTypes, RefreshTypes, EventsTypes,
     refreshVars, eventVars

LEMMA RefreshStepTypes == TypeOK /\ (RefreshSwap \/ RefreshFail) => MainTypes' /\ SharedTypes'
<1> SUFFICES ASSUME TypeOK, RefreshSwap \/ RefreshFail PROVE MainTypes' /\ SharedTypes'
  OBVIOUS
<1>1. OrderTypes' /\ EventsTypes' /\ mainPc' \in MainPcs
  BY DEF RefreshSwap, RefreshFail, TypeOK, MainTypes, MainPcs, OrderTypes, EventsTypes, orderVars,
     eventVars
<1>2. CASE RefreshFail /\ failing # <<>>
  <2>1. Head(failing) \in Command /\ failing' \in Seq(Command)
    BY <1>2, QueueFacts DEF RefreshFail, TypeOK, MainTypes, RefreshTypes
  <2>2. events' \in Seq(Event)
    BY <1>2, <2>1, EventFacts, QueueFacts DEF RefreshFail, TypeOK, SharedTypes
  <2>3. QED
    BY <1>1, <1>2, <2>1, <2>2 DEF RefreshFail, TypeOK, MainTypes, RefreshTypes, SharedTypes
<1>3. CASE RefreshFail /\ failing = <<>>
  BY <1>1, <1>3 DEF RefreshFail, TypeOK, MainTypes, RefreshTypes, SharedTypes
<1>4. CASE RefreshSwap
  BY <1>1, <1>4 DEF RefreshSwap, TypeOK, MainTypes, RefreshTypes, SharedTypes
<1>5. QED BY <1>2, <1>3, <1>4

LEMMA ProcessTypes ==
  TypeOK /\ (ProcessStart \/ ProcessError \/ ProcessStatus \/ ProcessEmpty \/ ProcessControl)
    => MainTypes' /\ SharedTypes'
<1> SUFFICES ASSUME TypeOK, NEW kind, Processing(kind),
                    ProcessStart \/ ProcessError \/ ProcessStatus \/ ProcessEmpty
                    \/ (ProcessControl /\ kind = "control")
             PROVE  MainTypes' /\ SharedTypes'
  BY DEF ProcessStart, ProcessError, ProcessStatus, ProcessEmpty, ProcessControl
<1>1. /\ batch' \in Seq(Event) /\ Head(batch) \in Event /\ Head(batch).kind = kind
      /\ mainPc' \in MainPcs /\ OrderTypes' /\ failing' = failing /\ SharedTypes'
  BY ProcessingTypes DEF MainPcs
<1>2. RefreshTypes'
  BY <1>1 DEF ProcessStart, ProcessError, ProcessStatus, ProcessEmpty, ProcessControl, TypeOK,
     MainTypes, RefreshTypes
<1>3. EventsTypes
  BY DEF TypeOK, MainTypes
<1>4. CASE ProcessStart \/ ProcessEmpty
  <2>1. Automated(awaiting) \in BOOLEAN BY SMT DEF Automated
  <2>2. EventsTypes' BY <1>1, <1>3, <1>4, <2>1 DEF ProcessStart, ProcessEmpty, EventsTypes
  <2>3. QED BY <1>1, <1>2, <2>2 DEF MainTypes
<1>5. CASE ProcessError \/ ProcessStatus
  <2>1. PICK outcome \in {"ok", "failed"} : ResolveAwaiting(outcome)
    BY <1>5 DEF ProcessError, ProcessStatus
  <2>2. EventsTypes'
    BY <1>1, <1>3, <1>5, <2>1, ResolveTypes DEF ProcessError, ProcessStatus, EventsTypes
  <2>3. QED BY <1>1, <1>2, <2>2 DEF MainTypes
<1>6. CASE ProcessControl /\ kind = "control"
  <2>1. Head(batch).cmd \in Command BY <1>1, <1>6, EventFacts
  <2>2. answer' \in [Ids -> {"none", "ok", "failed", "dropped"}]
    <3>1. \/ \E outcome \in {"ok", "failed", "dropped"} : \E c : Settle(c, outcome)
          \/ answer' = answer
      BY <1>6 DEF ProcessControl
    <3>2. QED BY <1>3, <3>1, SettleTypes DEF EventsTypes
  <2>3. EventsTypes'
    BY <1>1, <1>3, <1>6, <2>1, <2>2 DEF ProcessControl, EventsTypes
  <2>4. QED BY <1>1, <1>2, <2>3 DEF MainTypes
<1>7. QED BY <1>4, <1>5, <1>6

LEMMA MainStepTypes == TypeOK /\ (Requests \/ MainStep) => TypeOK'
<1> SUFFICES ASSUME TypeOK, Requests \/ MainStep PROVE MainTypes' /\ SharedTypes'
  BY MainFrame DEF TypeOK, SessionTypes, workerVars, sessionVars
<1>1. CASE TakeEvents
  BY <1>1 DEF TakeEvents, TypeOK, MainTypes, MainPcs, OrderTypes, RefreshTypes, EventsTypes,
     SharedTypes, orderVars, refreshVars
<1>2. CASE EventsDone \/ ShutdownNotify \/ Join
  <2>1. SharedTypes'
    BY <1>2 DEF EventsDone, ShutdownNotify, Join, TypeOK, SharedTypes, sharedVars
  <2>2. UNCHANGED <<hand, issued, manualOverride, refreshScheduled, failing, batch, state, awaiting,
                    awaitingOld, answer>> /\ mainPc' \in MainPcs
    BY <1>2 DEF EventsDone, ShutdownNotify, Join, MainPcs, orderVars, refreshVars, eventVars
  <2>3. QED BY <2>1, <2>2 DEF TypeOK, MainTypes, OrderTypes, RefreshTypes, EventsTypes
<1>3. QED BY <1>1, <1>2, RequestTypes, PushTypes, RefreshStepTypes, ProcessTypes DEF MainStep

LEMMA InitTypes == Init => TypeOK
<1> SUFFICES ASSUME Init PROVE TypeOK
  OBVIOUS
<1>1. mainPc \in MainPcs /\ OrderTypes
  BY BoundsAssumption DEF Init, OrderTypes, MainPcs
<1>2. RefreshTypes
  BY EmptyQueue DEF Init, RefreshTypes
<1>3. EventsTypes
  BY EmptyQueue DEF Init, EventsTypes
<1>4. SessionTypes
  BY DEF Init, SessionTypes, WorkerPcs
<1>5. SharedTypes
  BY EmptyQueue DEF Init, SharedTypes
<1>6. QED BY <1>1, <1>2, <1>3, <1>4, <1>5 DEF TypeOK, MainTypes

LEMMA StutterTypes == TypeOK /\ UNCHANGED vars => TypeOK'
  BY DEF TypeOK, MainTypes, OrderTypes, RefreshTypes, EventsTypes, SessionTypes, SharedTypes,
     vars, mainVars, workerVars, sharedVars, orderVars, refreshVars, eventVars, sessionVars

\* The types of all variables hold in every state.
THEOREM TypeCorrect == Spec => []TypeOK
<1>1. TypeOK /\ [Next]_vars => TypeOK'
  BY WorkerTypes, MainStepTypes, StutterTypes DEF Next, Terminated
<1>2. QED BY InitTypes, <1>1, PTL DEF Spec

-----------------------------------------------------------------------------
(* A refresh is not forgotten *)

\* The local queue of processEvents is empty outside of it.
BatchInv == mainPc \notin {"events", "status"} => batch = <<>>

RefreshInv == BatchInv /\ RefreshNotLost

LEMMA RefreshInvWorker == TypeOK /\ RefreshInv /\ Worker => RefreshInv'
<1> SUFFICES ASSUME TypeOK, RefreshInv, Worker PROVE RefreshInv'
  OBVIOUS
<1>1. UNCHANGED <<mainPc, batch, refreshScheduled>>
  BY WorkerFrame DEF mainVars, eventVars, refreshVars
<1>2. BatchInv' /\ (Holds(batch, "start") => Holds(batch, "start")')
  BY <1>1 DEF RefreshInv, BatchInv, Holds
<1>3. Holds(events, "start") => Holds(events, "start")'
  <2>1. events \in Seq(Event) BY DEF TypeOK, SharedTypes
  <2>2. CASE events' = events BY <2>2 DEF Holds
  <2>3. CASE \E e \in Event : events' = Append(events, e)
    <3>1. PICK e \in Event : events' = Append(events, e) BY <2>3
    <3>2. Holds(events, "start") => Holds(Append(events, e), "start") BY <2>1, HoldsFacts
    <3>3. QED BY <3>1, <3>2 DEF Holds
  <2>4. QED BY <2>2, <2>3, WorkerEffects
<1>4. workerPc = "start" => Holds(events, "start")'
  <2>1. events \in Seq(Event) /\ Signal("start") \in Event /\ Signal("start").kind = "start"
    BY EventFacts DEF TypeOK, SharedTypes, Signal
  <2>2. Holds(Append(events, Signal("start")), "start") BY <2>1, HoldsFacts
  <2>3. QED BY <2>2, WorkerEffects DEF Holds
<1>5. reconnectRequested => reconnectRequested' \/ workerPc' = "start"
  BY WorkerEffects
<1>6. QED
  BY <1>1, <1>2, <1>3, <1>4, <1>5 DEF RefreshInv, RefreshNotLost

LEMMA RefreshInvMain == TypeOK /\ RefreshInv /\ (Requests \/ MainStep) => RefreshInv'
<1> SUFFICES ASSUME TypeOK, RefreshInv, Requests \/ MainStep PROVE RefreshInv'
  OBVIOUS
<1>0. events \in Seq(Event) /\ batch \in Seq(Event) /\ workerPc' = workerPc
  BY MainFrame DEF TypeOK, MainTypes, EventsTypes, SharedTypes, workerVars
<1> USE DEF RefreshInv, BatchInv, RefreshNotLost, orderVars, refreshVars, eventVars, sharedVars
<1>1. ASSUME NEW origin \in Origins, HandleControl(origin) \/ LuaAction(origin) PROVE RefreshInv'
  BY <1>0, <1>1 DEF HandleControl, LuaAction, Free, Holds
<1>2. CASE HandleResume \/ HandleRefresh \/ Shutdown
  BY <1>0, <1>2 DEF HandleResume, HandleRefresh, Shutdown, Free, Holds
<1>3. CASE PushControl \/ PushAutomated
  BY <1>0, <1>3 DEF PushControl, PushAutomated, Holds
<1>4. CASE RefreshSwap \/ ShutdownNotify \/ Join \/ EventsDone
  BY <1>0, <1>4 DEF RefreshSwap, ShutdownNotify, Join, EventsDone, Holds
<1>5. CASE RefreshFail
  <2>1. CASE failing = <<>> BY <1>0, <1>5, <2>1 DEF RefreshFail, Holds
  <2>2. CASE failing # <<>>
    <3>1. Control(Head(failing), FALSE) \in Event
      BY <2>2, QueueFacts, EventFacts DEF TypeOK, MainTypes, RefreshTypes
    <3>2. Holds(events, "start") => Holds(Append(events, Control(Head(failing), FALSE)), "start")
      BY <1>0, <3>1, HoldsFacts
    <3>3. Holds(events, "start") => Holds(events, "start")'
      BY <1>5, <2>2, <3>2 DEF RefreshFail, Holds
    <3>4. Holds(batch, "start") => Holds(batch, "start")'
      BY <1>5 DEF RefreshFail, Holds
    <3>5. QED BY <1>0, <1>5, <2>2, <3>3, <3>4 DEF RefreshFail
  <2>3. QED BY <2>1, <2>2
<1>6. CASE TakeEvents
  <2>1. ~Holds(batch, "start")
    BY <1>6 DEF TakeEvents, Free, Holds
  <2>2. Holds(events, "start") => Holds(batch, "start")'
    BY <1>6 DEF TakeEvents, Holds
  <2>3. QED BY <1>0, <1>6, <2>1, <2>2 DEF TakeEvents, Free
<1>7. CASE ProcessStart
  BY <1>7 DEF ProcessStart, Processing
<1>8. CASE ProcessError \/ ProcessStatus \/ ProcessEmpty \/ ProcessControl
  <2>1. PICK kind \in {"error", "status", "empty", "control"} : Processing(kind)
    BY <1>8 DEF ProcessError, ProcessStatus, ProcessEmpty, ProcessControl
  <2>2. Holds(batch, "start") => Holds(Tail(batch), "start")
    BY <1>0, <2>1, HoldsFacts, QueueFacts DEF Processing
  <2>3. Holds(batch, "start") => Holds(batch, "start")'
    BY <2>1, <2>2 DEF Processing, Holds
  <2>4. Holds(events, "start") => Holds(events, "start")'
    BY <2>1 DEF Processing, Holds
  <2>5. refreshScheduled' = refreshScheduled
    BY <1>8 DEF ProcessError, ProcessStatus, ProcessEmpty, ProcessControl
  <2>6. QED BY <1>0, <2>1, <2>3, <2>4, <2>5 DEF Processing
<1>9. QED
  BY <1>1, <1>2, <1>3, <1>4, <1>5, <1>6, <1>7, <1>8
  DEF Requests, MainStep, ClientOrigins, LuaOrigins

LEMMA RefreshInvSafe == Spec => []RefreshInv
<1>1. Init => RefreshInv
  BY DEF Init, RefreshInv, BatchInv, RefreshNotLost
<1>2. RefreshInv /\ UNCHANGED vars => RefreshInv'
  BY DEF RefreshInv, BatchInv, RefreshNotLost, Holds, vars, mainVars, workerVars, sharedVars,
     refreshVars, eventVars
<1>3. TypeOK /\ RefreshInv /\ [Next]_vars => RefreshInv'
  BY <1>2, RefreshInvWorker, RefreshInvMain DEF Next, Terminated
<1>4. QED BY <1>1, <1>3, TypeCorrect, PTL DEF Spec

(***************************************************************************)
(* A refresh once scheduled is on its way until the next session has been  *)
(* announced to the main thread (RefreshNotLost).                          *)
(***************************************************************************)
THEOREM RefreshSafe == Spec => []RefreshNotLost
<1>1. RefreshInv => RefreshNotLost
  BY DEF RefreshInv
<1>2. QED BY <1>1, RefreshInvSafe, PTL

-----------------------------------------------------------------------------
(* A session: readiness, and a status between two orders *)

\* deviceReady_ is up only in a session (ReadyInSession).
THEOREM ReadySafe == Spec => []ReadyInSession
<1>1. Init => ReadyInSession
  BY DEF Init, ReadyInSession
<1>2. ReadyInSession /\ UNCHANGED vars => ReadyInSession'
  BY DEF ReadyInSession, vars, workerVars, sharedVars
<1>3. TypeOK /\ ReadyInSession /\ Worker => ReadyInSession'
  BY DEF ReadyInSession, Sessions, Worker, From, Goto, Silent, Post, Top, Begin, PostStart, Connect,
     Check, Observe, ReceiveStatus, Deliver, ReceiveStopped, ReceiveFails, After, Take, SetControl,
     Judge, Report, Failed, PostError, Drain, PostDrained, WaitReconnect, End
<1>4. ReadyInSession /\ (Requests \/ MainStep) => ReadyInSession'
  <2>1. Requests \/ MainStep => workerPc' = workerPc
    BY MainFrame DEF workerVars
  <2>2. Requests \/ MainStep => deviceReady' = deviceReady \/ deviceReady' = FALSE
    BY DEF Requests, MainStep, HandleControl, LuaAction, HandleResume, HandleRefresh, Shutdown,
       PushControl, PushAutomated, RefreshSwap, RefreshFail, TakeEvents, EventsDone, Processing,
       ProcessStart, ProcessError, ProcessStatus, ProcessEmpty, ProcessControl,
       ShutdownNotify, Join, sharedVars
  <2>3. QED BY <2>1, <2>2 DEF ReadyInSession
<1>5. QED BY <1>1, <1>2, <1>3, <1>4, TypeCorrect, PTL DEF Spec, Next, Terminated

(***************************************************************************)
(* Why StatusBetweenAttempts holds: from the moment an order is taken      *)
(* until a status arrives, statusRequired is up, and while it is up only a *)
(* refresh or a shutdown ends the observation; after either the worker     *)
(* does not take another order, since neither is withdrawn in a session.   *)
(***************************************************************************)
SessionInv ==
    /\ workerPc \in {"check", "observe", "receive", "deliver", "deliverEmpty", "after",
                     "take", "judge", "report"}
         /\ lastContact = "attempt" => statusRequired
    /\ workerPc \in {"control", "judge", "report"} => statusRequired
    /\ workerPc = "after" => ~statusRequired \/ stopping \/ reconnectRequested
    /\ workerPc = "take" => ~statusRequired

LEMMA SessionInvWorker == TypeOK /\ SessionInv /\ Worker => SessionInv'
<1> USE DEF SessionInv, From, Goto, Silent, Post, sessionVars
<1>1. ASSUME SessionInv, Top \/ Begin \/ PostStart \/ Connect \/ Check PROVE SessionInv'
  BY <1>1 DEF Top, Begin, PostStart, Connect, Check
<1>2. ASSUME SessionInv, Observe \/ ReceiveStopped PROVE SessionInv'
  <2>1. CASE Interrupted
    BY <1>2, <2>1 DEF Observe, ReceiveStopped, Interrupted
  <2>2. CASE ~Interrupted
    BY <1>2, <2>2 DEF Observe, ReceiveStopped
  <2>3. QED BY <2>1, <2>2
<1>3. ASSUME SessionInv, After \/ Take \/ SetControl \/ Judge \/ Report PROVE SessionInv'
  BY <1>3 DEF After, Take, SetControl, Judge, Report
<1>4. ASSUME SessionInv, Failed \/ PostError \/ Drain \/ PostDrained \/ WaitReconnect \/ End
      PROVE  SessionInv'
  BY <1>4 DEF Failed, PostError, Drain, PostDrained, WaitReconnect, End
<1>5. ASSUME SessionInv, ReceiveStatus \/ Deliver \/ ReceiveFails PROVE SessionInv'
  BY <1>5 DEF ReceiveStatus, Deliver, ReceiveFails
<1>6. QED BY <1>1, <1>2, <1>3, <1>4, <1>5 DEF Worker

\* The main thread withdraws neither a refresh nor a shutdown.
LEMMA MainKeepsRequests ==
  TypeOK /\ (Requests \/ MainStep)
    => (reconnectRequested => reconnectRequested') /\ (stopping => stopping')
  BY DEF TypeOK, SharedTypes, Requests, MainStep, HandleControl, LuaAction, HandleResume,
     HandleRefresh, Shutdown, PushControl, PushAutomated, RefreshSwap, RefreshFail, TakeEvents,
     EventsDone, Processing, ProcessStart, ProcessError, ProcessStatus, ProcessEmpty,
     ProcessControl, ShutdownNotify, Join, sharedVars

LEMMA SessionInvSafe == Spec => []SessionInv
<1>1. Init => SessionInv
  BY DEF Init, SessionInv
<1>2. SessionInv /\ UNCHANGED vars => SessionInv'
  BY DEF SessionInv, vars, workerVars, sessionVars, sharedVars
<1>3. TypeOK /\ SessionInv /\ (Requests \/ MainStep) => SessionInv'
  BY MainFrame, MainKeepsRequests DEF SessionInv, workerVars, sessionVars
<1>4. TypeOK /\ SessionInv /\ [Next]_vars => SessionInv'
  BY <1>2, <1>3, SessionInvWorker DEF Next, Terminated
<1>5. QED BY <1>1, <1>4, TypeCorrect, PTL DEF Spec

(***************************************************************************)
(* Within a session a status lies between two orders sent to the device    *)
(* (StatusBetweenAttempts).                                                *)
(***************************************************************************)
THEOREM StatusBetween == Spec => StatusBetweenAttempts
<1>1. SessionInv => (workerPc = "take" => lastContact # "attempt")
  BY DEF SessionInv
<1>2. QED BY <1>1, SessionInvSafe, PTL DEF StatusBetweenAttempts

-----------------------------------------------------------------------------
(* A manual order prevails *)

\* A script order on its way to the queue was decided upon before any suspension.
ManualInv ==
    /\ hand = "script" => ~manualOverride
    /\ ManualPrevails

LEMMA ManualInvPush ==
  TypeOK /\ ManualInv /\ (PushControl \/ PushAutomated) => ManualInv'
<1> SUFFICES ASSUME TypeOK, ManualInv, PushControl \/ PushAutomated PROVE ManualInv'
  OBVIOUS
<1>1. hand' = "none" /\ manualOverride' = manualOverride
  BY DEF PushControl, PushAutomated
<1>2. CASE commands' = commands
  <2>1. hand # "manual"
    <3>1. hand = "manual" => PushControl
      BY OriginsAssumption DEF PushControl, PushAutomated, LuaOrigins, ClientOrigins
    <3>2. PushControl => commands' # commands
      BY DEF PushControl, Enqueue, TypeOK, SharedTypes
    <3>3. QED BY <1>2, <3>1, <3>2
  <2>2. QED BY <1>1, <1>2, <2>1 DEF ManualInv, ManualPrevails
<1>3. CASE Enqueue(hand)
  <2>1. SUFFICES ASSUME manualOverride, NEW i \in DOMAIN commands', commands'[i].origin = "script"
                 PROVE  \E j \in DOMAIN commands' : j > i /\ commands'[j].origin = "manual"
    BY <1>1 DEF ManualInv, ManualPrevails
  <2>2. /\ commands \in Seq(Command)
        /\ commands' = Append(commands, [id |-> issued + 1, origin |-> hand])
    BY <1>3 DEF Enqueue, TypeOK, SharedTypes
  <2>3. /\ Len(commands) \in Nat /\ DOMAIN commands = 1..Len(commands)
        /\ DOMAIN commands' = 1..(Len(commands) + 1)
        /\ commands'[Len(commands) + 1].origin = hand
        /\ \A j \in DOMAIN commands : commands'[j] = commands[j]
    BY <2>2
  <2>4. hand # "script"
    BY <2>1 DEF ManualInv
  <2>5. i \in DOMAIN commands /\ i < Len(commands) + 1
    BY <2>1, <2>3, <2>4
  <2>6. \/ hand = "manual"
        \/ \E j \in DOMAIN commands : j > i /\ commands[j].origin = "manual"
    BY <2>1, <2>3, <2>5 DEF ManualInv, ManualPrevails
  <2>7. QED BY <2>3, <2>5, <2>6
<1>4. QED BY <1>2, <1>3 DEF PushControl, PushAutomated

LEMMA ManualInvMain == TypeOK /\ ManualInv /\ (Requests \/ MainStep) => ManualInv'
<1> SUFFICES ASSUME TypeOK, ManualInv, Requests \/ MainStep PROVE ManualInv'
  OBVIOUS
<1> USE DEF ManualInv, ManualPrevails, orderVars, sharedVars
<1>1. ASSUME NEW origin \in ClientOrigins, HandleControl(origin) PROVE ManualInv'
  BY <1>1, OriginsAssumption DEF HandleControl, Free, ClientOrigins
<1>2. ASSUME NEW origin \in LuaOrigins, LuaAction(origin) PROVE ManualInv'
  BY <1>2 DEF LuaAction
<1>3. CASE HandleResume \/ HandleRefresh \/ Shutdown
  BY <1>3 DEF HandleResume, HandleRefresh, Shutdown
<1>4. CASE RefreshSwap
  BY <1>4 DEF RefreshSwap
<1>5. CASE RefreshFail \/ TakeEvents \/ EventsDone \/ ShutdownNotify \/ Join
  <2>1. UNCHANGED <<hand, manualOverride, commands>>
    BY <1>5 DEF RefreshFail, TakeEvents, EventsDone, ShutdownNotify, Join
  <2>2. QED BY <2>1
<1>6. CASE ProcessStart \/ ProcessError \/ ProcessStatus \/ ProcessEmpty \/ ProcessControl
  BY <1>6 DEF ProcessStart, ProcessError, ProcessStatus, ProcessEmpty, ProcessControl, Processing
<1>7. QED BY <1>1, <1>2, <1>3, <1>4, <1>5, <1>6, ManualInvPush DEF Requests, MainStep

LEMMA ManualInvWorker == TypeOK /\ ManualInv /\ Worker => ManualInv'
<1> SUFFICES ASSUME TypeOK, ManualInv, Worker PROVE ManualInv'
  OBVIOUS
<1>1. hand' = hand /\ manualOverride' = manualOverride
  BY WorkerFrame DEF mainVars, orderVars
<1>2. CASE commands' = commands
  BY <1>1, <1>2 DEF ManualInv, ManualPrevails
<1>3. CASE commands # <<>> /\ commands' = Tail(commands)
  <2>1. commands \in Seq(Command) BY DEF TypeOK, SharedTypes
  <2>2. /\ \A i \in DOMAIN commands' : i + 1 \in DOMAIN commands /\ commands'[i] = commands[i + 1]
        /\ \A j \in DOMAIN commands : j > 1 => j - 1 \in DOMAIN commands'
        /\ DOMAIN commands \subseteq Nat /\ DOMAIN commands' \subseteq Nat \ {0}
    BY <1>3, <2>1
  <2>3. ASSUME manualOverride, hand # "manual", NEW i \in DOMAIN commands',
               commands'[i].origin = "script"
        PROVE  \E j \in DOMAIN commands' : j > i /\ commands'[j].origin = "manual"
    <3>1. PICK j \in DOMAIN commands : j > i + 1 /\ commands[j].origin = "manual"
      BY <2>2, <2>3 DEF ManualInv, ManualPrevails
    <3>2. j - 1 \in DOMAIN commands' /\ j - 1 > i /\ commands'[j - 1] = commands[j]
      BY <2>2, <3>1
    <3>3. QED BY <3>1, <3>2
  <2>4. QED BY <1>1, <2>3 DEF ManualInv, ManualPrevails
<1>4. QED BY <1>2, <1>3, WorkerEffects

(***************************************************************************)
(* While the automation is suspended, every script order still queued has  *)
(* a suspending order of a client behind it (ManualPrevails).              *)
(***************************************************************************)
THEOREM ManualSafe == Spec => []ManualPrevails
<1>1. Init => ManualInv
  BY DEF Init, ManualInv, ManualPrevails
<1>2. ManualInv /\ UNCHANGED vars => ManualInv'
  BY DEF ManualInv, ManualPrevails, vars, mainVars, orderVars, sharedVars
<1>3. TypeOK /\ ManualInv /\ [Next]_vars => ManualInv'
  BY <1>2, ManualInvMain, ManualInvWorker DEF Next, Terminated
<1>4. ManualInv => ManualPrevails
  BY DEF ManualInv
<1>5. QED BY <1>1, <1>3, <1>4, TypeCorrect, PTL DEF Spec

-----------------------------------------------------------------------------
(* Orders are sent once, and in the order in which they were accepted *)

(***************************************************************************)
(* The ids already sent, the one about to be sent and the queued ones      *)
(* increase in this order, and none is beyond the last one issued.         *)
(***************************************************************************)
QueueInv ==
    /\ \A i, j \in DOMAIN commands : i < j => commands[i].id < commands[j].id
    /\ \A i \in DOMAIN commands : commands[i].id <= issued
AttemptedInv ==
    \A a \in attempted : a <= issued /\ \A i \in DOMAIN commands : a < commands[i].id
ControlInv ==
    workerPc = "control" =>
        /\ current.id <= issued
        /\ \A i \in DOMAIN commands : current.id < commands[i].id
        /\ \A a \in attempted : a < current.id

OrderInv == QueueInv /\ AttemptedInv /\ ControlInv

LEMMA CommandId == \A c \in Command : c.id \in Ids /\ c.id \in Nat
  BY BoundsAssumption DEF Command, Ids

LEMMA OrderInvSame ==
  OrderInv /\ UNCHANGED <<commands, issued, attempted, current>>
    /\ (workerPc' = "control" => workerPc = "control") => OrderInv'
  BY DEF OrderInv, QueueInv, AttemptedInv, ControlInv

LEMMA OrderInvEnqueue ==
  ASSUME TypeOK, OrderInv, NEW origin \in Origins, Enqueue(origin),
         UNCHANGED <<attempted, current, workerPc>>
  PROVE  OrderInv'
<1>1. /\ commands \in Seq(Command) /\ issued \in Nat /\ attempted \subseteq Nat
      /\ \A i \in DOMAIN commands : commands[i].id \in Nat
  BY CommandId, BoundsAssumption DEF TypeOK, MainTypes, OrderTypes, SessionTypes, SharedTypes, Ids
<1>2. commands' = Append(commands, [id |-> issued + 1, origin |-> origin]) /\ issued' = issued + 1
  BY DEF Enqueue
<1>3. /\ Len(commands) \in Nat /\ DOMAIN commands = 1..Len(commands)
      /\ DOMAIN commands' = 1..(Len(commands) + 1)
      /\ commands'[Len(commands) + 1].id = issued + 1
      /\ \A i \in DOMAIN commands : commands'[i] = commands[i]
  BY <1>1, <1>2
<1>4. QueueInv'
  BY <1>1, <1>2, <1>3 DEF OrderInv, QueueInv
<1>5. AttemptedInv'
  BY <1>1, <1>2, <1>3 DEF OrderInv, AttemptedInv
<1>6. ControlInv'
  <2>1. workerPc = "control" => current.id \in Nat
    BY CommandId DEF TypeOK, SessionTypes
  <2>2. QED BY <1>1, <1>2, <1>3, <2>1 DEF OrderInv, ControlInv
<1>7. QED BY <1>4, <1>5, <1>6 DEF OrderInv

LEMMA OrderInvMain == TypeOK /\ OrderInv /\ (Requests \/ MainStep) => OrderInv'
<1> SUFFICES ASSUME TypeOK, OrderInv, Requests \/ MainStep PROVE OrderInv'
  OBVIOUS
<1>0. UNCHANGED <<attempted, current, workerPc>>
  BY MainFrame DEF workerVars, sessionVars
<1>1. CASE UNCHANGED <<commands, issued>>
  BY <1>0, <1>1, OrderInvSame
<1>2. CASE RefreshSwap
  BY <1>0, <1>2 DEF RefreshSwap, orderVars, OrderInv, QueueInv, AttemptedInv, ControlInv
<1>3. CASE PushControl \/ PushAutomated
  <2>1. hand \in Origins BY <1>3 DEF PushControl, PushAutomated, ClientOrigins, LuaOrigins
  <2>2. Enqueue(hand) \/ UNCHANGED <<commands, issued>>
    BY <1>3 DEF PushControl, PushAutomated
  <2>3. QED BY <1>0, <1>1, <2>1, <2>2, OrderInvEnqueue
<1>4. CASE Requests \/ RefreshFail \/ TakeEvents \/ EventsDone \/ ShutdownNotify \/ Join
  <2>1. UNCHANGED <<commands, issued>>
    BY <1>4 DEF Requests, HandleControl, LuaAction, HandleResume, HandleRefresh, Shutdown,
       RefreshFail, TakeEvents, EventsDone, ShutdownNotify, Join, orderVars, sharedVars
  <2>2. QED BY <1>1, <2>1
<1>5. CASE ProcessStart \/ ProcessError \/ ProcessStatus \/ ProcessEmpty \/ ProcessControl
  <2>1. UNCHANGED <<commands, issued>>
    BY <1>5 DEF ProcessStart, ProcessError, ProcessStatus, ProcessEmpty, ProcessControl, Processing,
       orderVars, sharedVars
  <2>2. QED BY <1>1, <2>1
<1>6. QED BY <1>2, <1>3, <1>4, <1>5 DEF MainStep

LEMMA OrderInvTakeHead ==
  ASSUME TypeOK, OrderInv, commands # <<>>, TakeHead, UNCHANGED <<issued, attempted>>
  PROVE  OrderInv'
<1>1. /\ commands \in Seq(Command) /\ issued \in Nat /\ attempted \subseteq Nat
      /\ \A i \in DOMAIN commands : commands[i].id \in Nat
  BY CommandId, BoundsAssumption DEF TypeOK, MainTypes, OrderTypes, SessionTypes, SharedTypes, Ids
<1>2. current' = commands[1] /\ 1 \in DOMAIN commands
  BY <1>1 DEF TakeHead
<1>3. \A i \in DOMAIN commands' : /\ i \in Nat /\ i > 0
                                  /\ i + 1 \in DOMAIN commands /\ commands'[i] = commands[i + 1]
  BY <1>1 DEF TakeHead
<1>4. QueueInv'
  BY <1>1, <1>3 DEF OrderInv, QueueInv
<1>5. AttemptedInv'
  BY <1>1, <1>3 DEF OrderInv, AttemptedInv
<1>6. ControlInv'
  BY <1>1, <1>2, <1>3 DEF OrderInv, QueueInv, AttemptedInv, ControlInv
<1>7. QED BY <1>4, <1>5, <1>6 DEF OrderInv

LEMMA OrderInvWorker == TypeOK /\ OrderInv /\ Worker => OrderInv'
<1> SUFFICES ASSUME TypeOK, OrderInv, Worker PROVE OrderInv'
  OBVIOUS
<1>0. issued' = issued
  BY WorkerFrame DEF mainVars, orderVars
<1>1. CASE Take \/ Drain
  <2>1. CASE commands # <<>>
    BY <1>0, <1>1, <2>1, OrderInvTakeHead DEF Take, Drain
  <2>2. CASE commands = <<>>
    <3>1. UNCHANGED <<commands, current, attempted>> /\ workerPc' # "control"
      BY <1>1, <2>2 DEF Take, Drain, Goto
    <3>2. QED BY <1>0, <3>1, OrderInvSame
  <2>3. QED BY <2>1, <2>2
<1>2. CASE SetControl
  <2>1. /\ current \in Command /\ workerPc = "control" /\ workerPc' # "control"
        /\ attempted' = attempted \cup {current.id} /\ commands' = commands
    BY <1>2 DEF SetControl, From, Goto, TypeOK, SessionTypes
  <2>2. QED BY <1>0, <2>1 DEF OrderInv, QueueInv, AttemptedInv, ControlInv
<1>3. CASE Report \/ PostDrained
  <2>1. UNCHANGED <<commands, attempted>> /\ workerPc' # "control"
    BY <1>3 DEF Report, PostDrained, Goto, Post
  <2>2. QED BY <1>0, <2>1 DEF OrderInv, QueueInv, AttemptedInv, ControlInv
<1>4. CASE ~(Take \/ Drain \/ SetControl \/ Report \/ PostDrained)
  <2>1. UNCHANGED <<commands, attempted, current>> /\ workerPc' # "control"
    BY <1>4 DEF Worker, From, Goto, Silent, Post, sessionVars, Top, Begin, PostStart, Connect, Check,
       Observe, ReceiveStatus, Deliver, ReceiveStopped, ReceiveFails, After, Judge, Failed,
       PostError, WaitReconnect, End
  <2>2. QED BY <1>0, <2>1, OrderInvSame
<1>5. QED BY <1>1, <1>2, <1>3, <1>4

LEMMA OrderInvSafe == Spec => []OrderInv
<1>1. Init => OrderInv
  BY DEF Init, OrderInv, QueueInv, AttemptedInv, ControlInv
<1>2. OrderInv /\ UNCHANGED vars => OrderInv'
  BY OrderInvSame DEF vars, mainVars, orderVars, workerVars, sessionVars, sharedVars
<1>3. TypeOK /\ OrderInv /\ [Next]_vars => OrderInv'
  BY <1>2, OrderInvMain, OrderInvWorker DEF Next, Terminated
<1>4. QED BY <1>1, <1>3, TypeCorrect, PTL DEF Spec

\* Only SetControl sends.
LEMMA SendingStep == [Next]_vars /\ attempted' # attempted => workerPc = "control"
<1>1. Worker /\ attempted' # attempted => workerPc = "control"
  BY DEF Worker, From, Silent, Post, sessionVars, Top, Begin, PostStart, Connect, Check,
     Observe, ReceiveStatus, Deliver, ReceiveStopped, ReceiveFails, After, Take, SetControl, Judge,
     Report, Failed, PostError, Drain, PostDrained, WaitReconnect, End
<1>2. (Requests \/ MainStep) => attempted' = attempted
  BY MainFrame DEF workerVars, sessionVars
<1>3. UNCHANGED vars => attempted' = attempted
  BY DEF vars, workerVars, sessionVars
<1>4. QED BY <1>1, <1>2, <1>3 DEF Next, Terminated

\* No order is sent to the device twice (AttemptedOnce).
THEOREM SentOnce == Spec => AttemptedOnce
<1> DEFINE Once == \A id \in Ids : workerPc = "control" /\ workerPc' # "control" /\ current.id = id
                       => id \notin attempted
<1>1. TypeOK /\ OrderInv => Once
  BY CommandId DEF TypeOK, SessionTypes, OrderInv, ControlInv
<1>2. QED BY <1>1, OrderInvSafe, TypeCorrect, PTL DEF AttemptedOnce

\* Orders are sent in the order in which they were accepted (AttemptedInOrder).
THEOREM SentInOrder == Spec => AttemptedInOrder
<1> DEFINE InOrder == \A id \in Ids : attempted' # attempted /\ id \in attempted => id <= current.id
<1>1. TypeOK /\ OrderInv /\ [Next]_vars => InOrder
  <2>1. SUFFICES ASSUME TypeOK, OrderInv, workerPc = "control" PROVE InOrder
    BY SendingStep
  <2>2. current.id \in Nat /\ attempted \subseteq Nat
    BY <2>1, CommandId, BoundsAssumption DEF TypeOK, SessionTypes, Ids
  <2>3. \A a \in attempted : a \in Nat /\ a < current.id
    BY <2>1, <2>2 DEF OrderInv, ControlInv
  <2>4. \A a \in attempted : a <= current.id
    BY <2>2, <2>3
  <2>5. QED BY <2>4
<1>2. QED BY <1>1, OrderInvSafe, TypeCorrect, PTL DEF Spec, AttemptedInOrder

-----------------------------------------------------------------------------
(* The state told to clients is behind only by events on their way *)

Ends == {"start", "error"}

HoldsEnd(queue) == \E kind \in Ends : Holds(queue, kind)

\* Whatever status the queue holds, a later event takes it back.
TakenBack(queue) ==
    \A i \in DOMAIN queue : queue[i].kind = "status" =>
        \E j \in DOMAIN queue : j > i /\ queue[j].kind \in Ends

(***************************************************************************)
(* Where the session has been replaced or its failure announced, the       *)
(* announcement follows every status of that session through the queue,    *)
(* the batch and into state.                                               *)
(***************************************************************************)
Replaced == {"connect", "drain", "drained", "wait"}

LagInv ==
    workerPc \in Replaced =>
        /\ TakenBack(events)
        /\ HoldsEnd(events) \/ TakenBack(batch)
        /\ state = "connected" => HoldsEnd(events) \/ HoldsEnd(batch)

LEMMA AppendLag ==
  ASSUME NEW q \in Seq(Event), NEW e \in Event
  PROVE  /\ HoldsEnd(q) => HoldsEnd(Append(q, e))
         /\ e.kind \in Ends => HoldsEnd(Append(q, e)) /\ TakenBack(Append(q, e))
         /\ e.kind # "status" /\ TakenBack(q) => TakenBack(Append(q, e))
<1>1. /\ Len(q) \in Nat /\ DOMAIN q = 1..Len(q) /\ DOMAIN Append(q, e) = 1..(Len(q) + 1)
      /\ Append(q, e)[Len(q) + 1] = e
      /\ \A i \in DOMAIN q : Append(q, e)[i] = q[i]
  OBVIOUS
<1>2. HoldsEnd(q) => HoldsEnd(Append(q, e))
  BY HoldsFacts DEF HoldsEnd
<1>3. e.kind \in Ends => HoldsEnd(Append(q, e))
  BY HoldsFacts DEF HoldsEnd
<1>4. ASSUME e.kind \in Ends PROVE TakenBack(Append(q, e))
  <2>1. SUFFICES ASSUME NEW i \in DOMAIN Append(q, e), Append(q, e)[i].kind = "status"
                 PROVE  Len(q) + 1 > i
    BY <1>1, <1>4 DEF TakenBack
  <2>2. i # Len(q) + 1 BY <1>1, <1>4, <2>1 DEF Ends
  <2>3. QED BY <1>1, <2>1, <2>2
<1>5. ASSUME e.kind # "status", TakenBack(q) PROVE TakenBack(Append(q, e))
  <2>1. SUFFICES ASSUME NEW i \in DOMAIN Append(q, e), Append(q, e)[i].kind = "status"
                 PROVE  \E j \in DOMAIN Append(q, e) : j > i /\ Append(q, e)[j].kind \in Ends
    BY DEF TakenBack
  <2>2. i \in DOMAIN q /\ q[i].kind = "status" BY <1>1, <1>5, <2>1
  <2>3. PICK j \in DOMAIN q : j > i /\ q[j].kind \in Ends BY <1>5, <2>2 DEF TakenBack
  <2>4. QED BY <1>1, <2>3
<1>6. QED BY <1>2, <1>3, <1>4, <1>5

LEMMA TailLag ==
  ASSUME NEW q \in Seq(Event), q # <<>>
  PROVE  /\ TakenBack(q) => TakenBack(Tail(q))
         /\ TakenBack(q) /\ Head(q).kind = "status" => HoldsEnd(Tail(q))
         /\ HoldsEnd(q) /\ Head(q).kind \notin Ends => HoldsEnd(Tail(q))
<1>1. /\ \A i \in DOMAIN Tail(q) : i \in Nat /\ i > 0 /\ i + 1 \in DOMAIN q /\ Tail(q)[i] = q[i + 1]
      /\ \A j \in DOMAIN q : j \in Nat /\ (j > 1 => j - 1 \in DOMAIN Tail(q)
                                                    /\ Tail(q)[j - 1] = q[j])
      /\ 1 \in DOMAIN q /\ Head(q) = q[1]
  OBVIOUS
<1>2. ASSUME TakenBack(q) PROVE TakenBack(Tail(q))
  <2>1. SUFFICES ASSUME NEW i \in DOMAIN Tail(q), Tail(q)[i].kind = "status"
                 PROVE  \E j \in DOMAIN Tail(q) : j > i /\ Tail(q)[j].kind \in Ends
    BY DEF TakenBack
  <2>2. i \in Nat /\ i + 1 \in DOMAIN q /\ q[i + 1].kind = "status" BY <1>1, <2>1
  <2>3. PICK j \in DOMAIN q : j > i + 1 /\ q[j].kind \in Ends BY <1>2, <2>2 DEF TakenBack
  <2>4. j > 1 /\ j - 1 > i BY <1>1, <2>2, <2>3
  <2>5. QED BY <1>1, <2>3, <2>4
<1>3. ASSUME TakenBack(q), Head(q).kind = "status" PROVE HoldsEnd(Tail(q))
  <2>1. PICK j \in DOMAIN q : j > 1 /\ q[j].kind \in Ends BY <1>1, <1>3 DEF TakenBack
  <2>2. j - 1 \in DOMAIN Tail(q) /\ Tail(q)[j - 1].kind \in Ends BY <1>1, <2>1
  <2>3. QED BY <2>2 DEF HoldsEnd, Holds
<1>4. HoldsEnd(q) /\ Head(q).kind \notin Ends => HoldsEnd(Tail(q))
  <2>1. SUFFICES ASSUME NEW kind \in Ends, Holds(q, kind), Head(q).kind \notin Ends
                 PROVE  Holds(Tail(q), kind)
    BY DEF HoldsEnd
  <2>2. Head(q) \in Event BY QueueFacts
  <2>3. QED BY <2>1, <2>2, HoldsFacts
<1>5. QED BY <1>2, <1>3, <1>4

LEMMA LagInvWorker == TypeOK /\ LagInv /\ Worker => LagInv'
<1> SUFFICES ASSUME TypeOK, LagInv, Worker, workerPc' \in Replaced PROVE LagInv'
  BY DEF LagInv
<1>1. state' = state /\ batch' = batch /\ events \in Seq(Event)
  BY WorkerFrame DEF mainVars, eventVars, TypeOK, SharedTypes
<1>2. CASE \E e \in Event : events' = Append(events, e) /\ e.kind \in Ends
  BY <1>1, <1>2, AppendLag DEF LagInv
<1>3. CASE events' = events /\ workerPc \in Replaced
  BY <1>1, <1>3 DEF LagInv
<1>4. CASE workerPc \in Replaced /\ \E e \in Event : events' = Append(events, e) /\ e.kind # "status"
  BY <1>1, <1>4, AppendLag DEF LagInv
<1>5. CASE PostStart \/ PostError
  BY <1>2, <1>5, EventFacts DEF PostStart, PostError, Post, Signal, Ends
<1>6. CASE PostDrained
  <2>1. Control(current, FALSE) \in Event /\ Control(current, FALSE).kind # "status"
    BY <1>6, EventFacts DEF PostDrained, From, TypeOK, SessionTypes, Control
  <2>2. QED BY <1>4, <1>6, <2>1 DEF PostDrained, From, Post, Replaced
<1>7. CASE Drain
  BY <1>3, <1>7 DEF Drain, From, Replaced
<1>8. QED
  BY <1>5, <1>6, <1>7 DEF Worker, Replaced, From, Goto, Top, Begin, Connect, Check,
     Observe, ReceiveStatus, Deliver, ReceiveStopped, ReceiveFails, After, Take, SetControl, Judge,
     Report, Failed, WaitReconnect, End

LEMMA LagInvMain == TypeOK /\ BatchInv /\ LagInv /\ (Requests \/ MainStep) => LagInv'
<1> SUFFICES ASSUME TypeOK, BatchInv, LagInv, Requests \/ MainStep, workerPc \in Replaced PROVE LagInv'
  BY MainFrame DEF LagInv, workerVars
<1>0. events \in Seq(Event) /\ batch \in Seq(Event)
  BY DEF TypeOK, MainTypes, EventsTypes, SharedTypes
<1>1. CASE UNCHANGED <<events, batch, state>>
  BY <1>1 DEF LagInv
<1>2. CASE RefreshFail
  <2>1. CASE failing # <<>>
    <3>1. Control(Head(failing), FALSE) \in Event /\ Control(Head(failing), FALSE).kind # "status"
      BY <2>1, QueueFacts, EventFacts DEF TypeOK, MainTypes, RefreshTypes, Control
    <3>2. events' = Append(events, Control(Head(failing), FALSE)) /\ batch' = batch /\ state' = state
      BY <1>2, <2>1 DEF RefreshFail, eventVars
    <3>3. QED BY <1>0, <3>1, <3>2, AppendLag DEF LagInv
  <2>2. CASE failing = <<>>
    BY <1>1, <1>2, <2>2 DEF RefreshFail, eventVars
  <2>3. QED BY <2>1, <2>2
<1>3. CASE TakeEvents
  <2>1. batch = <<>> /\ batch' = events /\ events' = <<>> /\ state' = state
    BY <1>3 DEF TakeEvents, Free, BatchInv
  <2>2. TakenBack(<<>>) /\ ~HoldsEnd(<<>>)
    BY DEF TakenBack, HoldsEnd, Holds
  <2>3. QED BY <2>1, <2>2 DEF LagInv
<1>4. CASE ProcessStart \/ ProcessError \/ ProcessStatus \/ ProcessEmpty \/ ProcessControl
  <2>1. PICK kind \in {"start", "error", "status", "empty", "control"} :
            /\ batch # <<>> /\ Head(batch).kind = kind /\ batch' = Tail(batch) /\ events' = events
            /\ kind \in Ends => state' # "connected"
            /\ kind \in {"empty", "control"} => state' = state
    BY <1>4 DEF ProcessStart, ProcessError, ProcessStatus, ProcessEmpty, ProcessControl, Processing,
       sharedVars, Ends
  <2>2. HoldsEnd(events) \/ TakenBack(Tail(batch))
    BY <1>0, <2>1, TailLag DEF LagInv
  <2>3. state' = "connected" => HoldsEnd(events) \/ HoldsEnd(Tail(batch))
    <3>1. CASE kind \in Ends BY <2>1, <3>1
    <3>2. CASE kind = "status" BY <1>0, <2>1, <3>2, TailLag DEF LagInv
    <3>3. CASE kind \in {"empty", "control"}
      BY <1>0, <2>1, <3>3, TailLag DEF LagInv, Ends
    <3>4. QED BY <3>1, <3>2, <3>3 DEF Ends
  <2>4. QED BY <2>1, <2>2, <2>3 DEF LagInv
<1>5. CASE Requests \/ PushControl \/ PushAutomated \/ RefreshSwap \/ EventsDone \/ ShutdownNotify \/ Join
  <2>1. UNCHANGED <<events, batch, state>>
    BY <1>5 DEF Requests, HandleControl, LuaAction, HandleResume, HandleRefresh, Shutdown,
       PushControl, PushAutomated, RefreshSwap, EventsDone, ShutdownNotify, Join, eventVars,
       sharedVars
  <2>2. QED BY <1>1, <2>1
<1>6. QED BY <1>2, <1>3, <1>4, <1>5 DEF MainStep

(***************************************************************************)
(* With no start or error on its way, "connected" is told only while the   *)
(* session is neither replaced nor its failure announced                   *)
(* (ConnectedIsCurrent).                                                   *)
(***************************************************************************)
THEOREM ConnectedSafe == Spec => []ConnectedIsCurrent
<1>1. Init => LagInv
  BY DEF Init, LagInv, Replaced
<1>2. LagInv /\ UNCHANGED vars => LagInv'
  BY DEF LagInv, vars, mainVars, eventVars, workerVars, sharedVars
<1>3. TypeOK /\ RefreshInv /\ LagInv /\ [Next]_vars => LagInv'
  BY <1>2, LagInvWorker, LagInvMain DEF Next, Terminated, RefreshInv
<1>4. LagInv => ConnectedIsCurrent
  BY DEF LagInv, ConnectedIsCurrent, HoldsEnd, Ends, Replaced
<1>5. QED BY <1>1, <1>3, <1>4, RefreshInvSafe, TypeCorrect, PTL DEF Spec

-----------------------------------------------------------------------------
(* DeviceBridge implements OrderLedger, for every number of orders.  The   *)
(* argument: an accepted order is in one place at a time.  Nobody records  *)
(* where; the invariant says that a record is possible (Placed), and each  *)
(* step that moves an order changes the record at that order alone.        *)

Whereabouts == {"nowhere", "commands", "failing", "events", "batch", "worker", "awaiting", "settled"}

Waits(w, queue, place) == \A i \in DOMAIN queue : w[queue[i].id] = place
Distinct(queue) == \A i, j \in DOMAIN queue : queue[i].id = queue[j].id => i = j

IsReport(e) == e.kind = "control"
Carries(w, queue, place) == \A i \in DOMAIN queue : IsReport(queue[i]) => w[queue[i].cmd.id] = place
DistinctReports(queue) ==
    \A i, j \in DOMAIN queue :
        IsReport(queue[i]) /\ IsReport(queue[j]) /\ queue[i].cmd.id = queue[j].cmd.id => i = j
Truthful(queue, sent) ==
    \A i \in DOMAIN queue : IsReport(queue[i]) /\ queue[i].ok => queue[i].cmd.id \in sent

\* w records which orders there are and which are answered ...
Recorded(w) ==
    /\ w \in [Ids -> Whereabouts]
    /\ \A id \in Ids : w[id] = "nowhere" <=> id > issued
    /\ \A id \in Ids : w[id] = "settled" <=> answer[id] # "none"

\* ... and where the others are.
Located(w) ==
    /\ Waits(w, commands, "commands")
    /\ Waits(w, failing, "failing")
    /\ Carries(w, events, "events")
    /\ Carries(w, batch, "batch")
    /\ current \in Command => w[current.id] = "worker"
    /\ awaiting \in Command => w[awaiting.id] = "awaiting"

DistinctInv ==
    /\ Distinct(commands) /\ Distinct(failing)
    /\ DistinctReports(events) /\ DistinctReports(batch)

\* "ok" is reported only of orders that were sent.
SentInv ==
    /\ Truthful(events, attempted) /\ Truthful(batch, attempted)
    /\ awaiting \in Command => awaiting.id \in attempted
    /\ workerPc \in {"judge", "report"} => current.id \in attempted

Placed(w) == Recorded(w) /\ Located(w)

PlaceInv == \E w : Placed(w)

WhereInv == DistinctInv /\ SentInv /\ PlaceInv

-----------------------------------------------------------------------------
(* Queues of orders and of events when one order moves *)

LEMMA OrderIds ==
  ASSUME NEW q \in Seq(Command), NEW i \in DOMAIN q
  PROVE  q[i].id \in Ids
<1>1. q[i] \in Command
  OBVIOUS
<1>2. QED BY <1>1 DEF Command

LEMMA ReportIds ==
  ASSUME NEW q \in Seq(Event), NEW i \in DOMAIN q, IsReport(q[i])
  PROVE  q[i].cmd \in Command /\ q[i].cmd.id \in Ids
<1>1. q[i] \in Event
  OBVIOUS
<1>2. q[i].cmd \in Command
  BY <1>1, EventFacts DEF IsReport
<1>3. QED BY <1>2 DEF Command

LEMMA WaitsElsewhere ==
  ASSUME NEW w \in [Ids -> Whereabouts], NEW q \in Seq(Command), NEW id \in Ids, NEW p, NEW t,
         Waits(w, q, p), w[id] # p
  PROVE  Waits([w EXCEPT ![id] = t], q, p)
<1>1. \A i \in DOMAIN q : q[i].id \in Ids
  BY OrderIds
<1>2. QED BY <1>1 DEF Waits

LEMMA CarriesElsewhere ==
  ASSUME NEW w \in [Ids -> Whereabouts], NEW q \in Seq(Event), NEW id \in Ids, NEW p, NEW t,
         Carries(w, q, p), w[id] # p
  PROVE  Carries([w EXCEPT ![id] = t], q, p)
<1>1. \A i \in DOMAIN q : IsReport(q[i]) => q[i].cmd.id \in Ids
  BY ReportIds
<1>2. QED BY <1>1 DEF Carries

LEMMA HeadLeaves ==
  ASSUME NEW w \in [Ids -> Whereabouts], NEW q \in Seq(Command), q # <<>>, NEW p, NEW t,
         Waits(w, q, p), Distinct(q)
  PROVE  /\ Head(q) \in Command /\ Head(q).id \in Ids /\ w[Head(q).id] = p
         /\ Waits([w EXCEPT ![Head(q).id] = t], Tail(q), p)
         /\ Distinct(Tail(q)) /\ Tail(q) \in Seq(Command)
<1>1. /\ 1 \in DOMAIN q /\ Head(q) = q[1] /\ Head(q) \in Command /\ Tail(q) \in Seq(Command)
      /\ \A i \in DOMAIN Tail(q) : i \in Nat /\ i > 0 /\ i + 1 \in DOMAIN q /\ Tail(q)[i] = q[i + 1]
  OBVIOUS
<1>2. \A i \in DOMAIN q : q[i].id \in Ids
  BY OrderIds
<1>3. \A i \in DOMAIN Tail(q) : Tail(q)[i].id # Head(q).id /\ Tail(q)[i].id \in Ids
  BY <1>1, <1>2 DEF Distinct
<1>4. Waits([w EXCEPT ![Head(q).id] = t], Tail(q), p)
  BY <1>1, <1>3 DEF Waits
<1>5. Distinct(Tail(q))
  BY <1>1 DEF Distinct
<1>6. QED BY <1>1, <1>2, <1>4, <1>5 DEF Waits

LEMMA ReportLeaves ==
  ASSUME NEW w \in [Ids -> Whereabouts], NEW q \in Seq(Event), q # <<>>, NEW p, NEW t, NEW sent,
         Carries(w, q, p), DistinctReports(q), Truthful(q, sent)
  PROVE  /\ Head(q) \in Event
         /\ IsReport(Head(q)) =>
              /\ Head(q).cmd \in Command /\ Head(q).cmd.id \in Ids
              /\ w[Head(q).cmd.id] = p
              /\ Head(q).ok => Head(q).cmd.id \in sent
              /\ Carries([w EXCEPT ![Head(q).cmd.id] = t], Tail(q), p)
         /\ Carries(w, Tail(q), p) /\ DistinctReports(Tail(q)) /\ Truthful(Tail(q), sent)
         /\ Tail(q) \in Seq(Event)
<1>1. /\ 1 \in DOMAIN q /\ Head(q) = q[1] /\ Head(q) \in Event /\ Tail(q) \in Seq(Event)
      /\ \A i \in DOMAIN Tail(q) : i \in Nat /\ i > 0 /\ i + 1 \in DOMAIN q /\ Tail(q)[i] = q[i + 1]
  OBVIOUS
<1>3. \A i \in DOMAIN q : IsReport(q[i]) => q[i].cmd \in Command /\ q[i].cmd.id \in Ids
  BY ReportIds
<1>4. ASSUME IsReport(Head(q)) PROVE Carries([w EXCEPT ![Head(q).cmd.id] = t], Tail(q), p)
  <2>1. \A i \in DOMAIN Tail(q) : IsReport(Tail(q)[i]) =>
            Tail(q)[i].cmd.id # Head(q).cmd.id /\ Tail(q)[i].cmd.id \in Ids
    BY <1>1, <1>3, <1>4 DEF DistinctReports
  <2>2. QED BY <1>1, <2>1 DEF Carries
<1>5. Carries(w, Tail(q), p) /\ Truthful(Tail(q), sent)
  BY <1>1 DEF Carries, Truthful
<1>6. DistinctReports(Tail(q))
  BY <1>1 DEF DistinctReports
<1>7. QED BY <1>1, <1>3, <1>4, <1>5, <1>6 DEF Carries, Truthful

LEMMA OrderArrives ==
  ASSUME NEW w \in [Ids -> Whereabouts], NEW q \in Seq(Command), NEW c \in Command, NEW p \in Whereabouts,
         Waits(w, q, p), Distinct(q), w[c.id] # p
  PROVE  Waits([w EXCEPT ![c.id] = p], Append(q, c), p) /\ Distinct(Append(q, c))
<1>1. /\ Len(q) \in Nat /\ DOMAIN q = 1..Len(q) /\ DOMAIN Append(q, c) = 1..(Len(q) + 1)
      /\ Append(q, c)[Len(q) + 1] = c
      /\ \A i \in DOMAIN q : Append(q, c)[i] = q[i]
  OBVIOUS
<1>2. c.id \in Ids /\ \A i \in DOMAIN q : q[i].id \in Ids
  BY OrderIds DEF Command
<1>3. \A i \in DOMAIN q : q[i].id # c.id
  BY DEF Waits
<1>4. Waits([w EXCEPT ![c.id] = p], Append(q, c), p)
  BY <1>1, <1>2, <1>3 DEF Waits
<1>5. Distinct(Append(q, c))
  BY <1>1, <1>3 DEF Distinct
<1>6. QED BY <1>4, <1>5

LEMMA ReportArrives ==
  ASSUME NEW w \in [Ids -> Whereabouts], NEW q \in Seq(Event), NEW e \in Event, NEW p \in Whereabouts,
         NEW sent, IsReport(e),
         Carries(w, q, p), DistinctReports(q), Truthful(q, sent),
         w[e.cmd.id] # p, e.ok => e.cmd.id \in sent
  PROVE  /\ Carries([w EXCEPT ![e.cmd.id] = p], Append(q, e), p)
         /\ DistinctReports(Append(q, e)) /\ Truthful(Append(q, e), sent)
<1>1. /\ Len(q) \in Nat /\ DOMAIN q = 1..Len(q) /\ DOMAIN Append(q, e) = 1..(Len(q) + 1)
      /\ Append(q, e)[Len(q) + 1] = e
      /\ \A i \in DOMAIN q : Append(q, e)[i] = q[i]
  OBVIOUS
<1>2. e.cmd.id \in Ids /\ \A i \in DOMAIN q : IsReport(q[i]) => q[i].cmd.id \in Ids
  <2>1. e.cmd \in Command BY EventFacts DEF IsReport
  <2>2. QED BY <2>1, ReportIds DEF Command
<1>3. \A i \in DOMAIN q : IsReport(q[i]) => q[i].cmd.id # e.cmd.id
  BY DEF Carries
<1>4. Carries([w EXCEPT ![e.cmd.id] = p], Append(q, e), p)
  BY <1>1, <1>2, <1>3 DEF Carries
<1>5. DistinctReports(Append(q, e))
  BY <1>1, <1>3 DEF DistinctReports
<1>6. Truthful(Append(q, e), sent)
  BY <1>1 DEF Truthful
<1>7. QED BY <1>4, <1>5, <1>6

LEMMA SignalArrives ==
  ASSUME NEW w, NEW q \in Seq(Event), NEW e \in Event, NEW p, NEW sent, ~IsReport(e),
         Carries(w, q, p), DistinctReports(q), Truthful(q, sent)
  PROVE  /\ Carries(w, Append(q, e), p)
         /\ DistinctReports(Append(q, e)) /\ Truthful(Append(q, e), sent)
<1>1. /\ Len(q) \in Nat /\ DOMAIN q = 1..Len(q) /\ DOMAIN Append(q, e) = 1..(Len(q) + 1)
      /\ Append(q, e)[Len(q) + 1] = e
      /\ \A i \in DOMAIN q : Append(q, e)[i] = q[i]
  OBVIOUS
<1>2. Carries(w, Append(q, e), p) /\ Truthful(Append(q, e), sent)
  BY <1>1 DEF Carries, Truthful
<1>3. DistinctReports(Append(q, e))
  BY <1>1 DEF DistinctReports
<1>4. QED BY <1>2, <1>3

-----------------------------------------------------------------------------
(* Steps that move an order *)

LEMMA RecordMove ==
  ASSUME NEW w, Recorded(w), NEW id \in Ids, w[id] \notin {"nowhere", "settled"},
         NEW t \in Whereabouts \ {"nowhere", "settled"}, NEW v, v = [w EXCEPT ![id] = t],
         UNCHANGED <<issued, answer>>
  PROVE  Recorded(v)'
  BY DEF Recorded

LEMMA RecordSettle ==
  ASSUME TypeOK, NEW w, Recorded(w), NEW id \in Ids, w[id] \notin {"nowhere", "settled"},
         NEW outcome, outcome # "none", answer' = [answer EXCEPT ![id] = outcome],
         NEW v, v = [w EXCEPT ![id] = "settled"],
         UNCHANGED issued
  PROVE  Recorded(v)' /\ id <= issued /\ answer[id] = "none"
<1>1. answer \in [Ids -> {"none", "ok", "failed", "dropped"}] /\ issued \in Nat /\ id \in Nat
  BY BoundsAssumption DEF TypeOK, MainTypes, EventsTypes, OrderTypes, Ids
<1>2. "settled" \in Whereabouts BY DEF Whereabouts
<1>3. QED BY <1>1, <1>2 DEF Recorded

\* Enqueue makes an order of the next number.
LEMMA WhereEnqueue ==
  ASSUME TypeOK, WhereInv, NEW origin \in Origins, issued < MaxCommands, Enqueue(origin),
         UNCHANGED <<answer, failing, events, batch, current, awaiting, workerPc, attempted>>
  PROVE  WhereInv'
<1>1. PICK w : Placed(w) BY DEF WhereInv, PlaceInv
<1>2. PICK id : id = issued + 1 OBVIOUS
<1>3. PICK c : c = [id |-> id, origin |-> origin] OBVIOUS
<1>4. issued \in Nat /\ id \in Ids /\ c \in Command /\ c.id = id
  BY <1>2, <1>3, BoundsAssumption DEF TypeOK, MainTypes, OrderTypes, Ids, Command
<1>5. commands' = Append(commands, c) /\ issued' = id
  BY <1>2, <1>3 DEF Enqueue
<1>6. w \in [Ids -> Whereabouts] /\ w[id] = "nowhere"
  BY <1>1, <1>2, <1>4 DEF Placed, Recorded
<1>7. PICK v : v = [w EXCEPT ![id] = "commands"] OBVIOUS
<1>8. Recorded(v)'
  BY <1>1, <1>2, <1>4, <1>5, <1>6, <1>7 DEF Placed, Recorded, Ids, Whereabouts
<1>9. commands \in Seq(Command) /\ failing \in Seq(Command) /\ events \in Seq(Event) /\ batch \in Seq(Event)
  BY DEF TypeOK, MainTypes, RefreshTypes, EventsTypes, SharedTypes
<1>10. Waits(v, commands', "commands") /\ Distinct(commands')
  BY <1>1, <1>4, <1>5, <1>6, <1>7, <1>9, OrderArrives DEF Placed, Located, WhereInv, DistinctInv, Whereabouts
<1>11. /\ Waits(v, failing, "failing") /\ Carries(v, events, "events")
       /\ Carries(v, batch, "batch")
  BY <1>1, <1>4, <1>6, <1>7, <1>9, WaitsElsewhere, CarriesElsewhere DEF Placed, Located
<1>12. /\ current \in Command => v[current.id] = "worker"
       /\ awaiting \in Command => v[awaiting.id] = "awaiting"
  BY <1>1, <1>6, <1>7, CommandId DEF Placed, Located
<1>13. Placed(v)'
  BY <1>8, <1>10, <1>11, <1>12 DEF Placed, Located, Waits, Carries
<1>14. DistinctInv' /\ SentInv'
  BY <1>10 DEF WhereInv, DistinctInv, SentInv, Distinct, DistinctReports, Truthful
<1>15. QED BY <1>13, <1>14 DEF WhereInv, PlaceInv

LEMMA WhereSame ==
  ASSUME WhereInv,
         UNCHANGED <<issued, answer, commands, failing, events, batch, current, awaiting, attempted>>,
         workerPc' \in {"judge", "report"} => workerPc \in {"judge", "report"}
  PROVE  WhereInv'
<1>1. DistinctInv' /\ SentInv'
  BY DEF WhereInv, DistinctInv, SentInv
<1>2. PICK w : Placed(w) BY DEF WhereInv, PlaceInv
<1>3. Placed(w)'
  BY <1>2 DEF Placed, Recorded, Located
<1>4. QED BY <1>1, <1>3 DEF WhereInv, PlaceInv

LEMMA WhereRefreshSwap == TypeOK /\ WhereInv /\ RefreshSwap => WhereInv'
<1> SUFFICES ASSUME TypeOK, WhereInv, RefreshSwap PROVE WhereInv'
  OBVIOUS
<1>1. PICK w : Placed(w) BY DEF WhereInv, PlaceInv
<1>2. PICK v : v = [id \in Ids |-> IF w[id] = "commands" THEN "failing" ELSE w[id]]
  OBVIOUS
<1>3. /\ failing' = commands /\ commands' = <<>>
      /\ UNCHANGED <<issued, answer, events, batch, current, awaiting, attempted, workerPc>>
  BY DEF RefreshSwap, orderVars, eventVars, workerVars, sessionVars
<1>4. Recorded(v)'
  BY <1>1, <1>2, <1>3 DEF Placed, Recorded, Whereabouts
<1>5. commands \in Seq(Command) /\ events \in Seq(Event) /\ batch \in Seq(Event)
  BY DEF TypeOK, MainTypes, EventsTypes, SharedTypes
<1>6. Waits(v, commands, "failing")
  BY <1>1, <1>2, <1>5, OrderIds DEF Placed, Located, Waits
<1>7. Carries(v, events, "events") /\ Carries(v, batch, "batch")
  BY <1>1, <1>2, <1>5, ReportIds DEF Placed, Located, Carries
<1>8. /\ current \in Command => v[current.id] = "worker"
      /\ awaiting \in Command => v[awaiting.id] = "awaiting"
  BY <1>1, <1>2, CommandId DEF Placed, Located
<1>9. Waits(v, <<>>, "commands") /\ Distinct(<<>>)
  BY DEF Waits, Distinct
<1>10. Placed(v)'
  BY <1>3, <1>4, <1>6, <1>7, <1>8, <1>9 DEF Placed, Located
<1>11. DistinctInv' /\ SentInv'
  BY <1>3, <1>9 DEF WhereInv, DistinctInv, SentInv
<1>12. QED BY <1>10, <1>11 DEF WhereInv, PlaceInv

LEMMA WhereTakeEvents == TypeOK /\ WhereInv /\ TakeEvents => WhereInv'
<1> SUFFICES ASSUME TypeOK, WhereInv, TakeEvents PROVE WhereInv'
  OBVIOUS
<1>1. PICK w : Placed(w) BY DEF WhereInv, PlaceInv
<1>2. PICK v : v = [id \in Ids |-> IF w[id] = "events" THEN "batch" ELSE w[id]]
  OBVIOUS
<1>3. /\ batch' = events /\ events' = <<>>
      /\ UNCHANGED <<issued, answer, commands, failing, current, awaiting, attempted, workerPc>>
  BY DEF TakeEvents, orderVars, refreshVars, workerVars, sessionVars
<1>4. Recorded(v)'
  BY <1>1, <1>2, <1>3 DEF Placed, Recorded, Whereabouts
<1>5. commands \in Seq(Command) /\ failing \in Seq(Command) /\ events \in Seq(Event)
  BY DEF TypeOK, MainTypes, RefreshTypes, SharedTypes
<1>6. Waits(v, commands, "commands") /\ Waits(v, failing, "failing")
  BY <1>1, <1>2, <1>5, OrderIds DEF Placed, Located, Waits
<1>7. Carries(v, events, "batch")
  BY <1>1, <1>2, <1>5, ReportIds DEF Placed, Located, Carries
<1>8. /\ current \in Command => v[current.id] = "worker"
      /\ awaiting \in Command => v[awaiting.id] = "awaiting"
  BY <1>1, <1>2, CommandId DEF Placed, Located
<1>9. Carries(v, <<>>, "events") /\ DistinctReports(<<>>) /\ Truthful(<<>>, attempted)
  BY DEF Carries, DistinctReports, Truthful
<1>10. Placed(v)'
  BY <1>3, <1>4, <1>6, <1>7, <1>8, <1>9 DEF Placed, Located
<1>11. DistinctInv' /\ SentInv'
  BY <1>3, <1>9 DEF WhereInv, DistinctInv, SentInv
<1>12. QED BY <1>10, <1>11 DEF WhereInv, PlaceInv

LEMMA WhereRefreshFail == TypeOK /\ WhereInv /\ RefreshFail => WhereInv'
<1> SUFFICES ASSUME TypeOK, WhereInv, RefreshFail PROVE WhereInv'
  OBVIOUS
<1>1. CASE failing = <<>>
  BY <1>1, WhereSame DEF RefreshFail, orderVars, eventVars, workerVars, sessionVars
<1>2. CASE failing # <<>>
  <2>1. PICK w : Placed(w) BY DEF WhereInv, PlaceInv
  <2>2. PICK c : c = Head(failing) OBVIOUS
  <2>3. PICK id : id = c.id OBVIOUS
  <2>4. PICK e : e = Control(c, FALSE) OBVIOUS
  <2>5. PICK v : v = [w EXCEPT ![id] = "events"] OBVIOUS
  <2>6. /\ failing' = Tail(failing) /\ events' = Append(events, e)
        /\ UNCHANGED <<issued, answer, commands, batch, current, awaiting, attempted, workerPc>>
    BY <1>2, <2>2, <2>4 DEF RefreshFail, orderVars, eventVars, workerVars, sessionVars
  <2>7. /\ commands \in Seq(Command) /\ failing \in Seq(Command) /\ events \in Seq(Event)
        /\ batch \in Seq(Event)
    BY DEF TypeOK, MainTypes, RefreshTypes, EventsTypes, SharedTypes
  <2>8. w \in [Ids -> Whereabouts]
    BY <2>1 DEF Placed, Recorded
  <2>9. /\ c \in Command /\ id \in Ids /\ w[id] = "failing"
        /\ Waits(v, Tail(failing), "failing") /\ Distinct(Tail(failing))
    BY <1>2, <2>1, <2>2, <2>3, <2>5, <2>7, <2>8, HeadLeaves DEF Placed, Located, WhereInv, DistinctInv
  <2>10. e \in Event /\ IsReport(e) /\ ~e.ok /\ e.cmd.id = id
    BY <2>3, <2>4, <2>9, EventFacts DEF Control, IsReport
  <2>11. "events" \in Whereabouts BY DEF Whereabouts
  <2>12. /\ Carries(v, events', "events") /\ DistinctReports(events')
         /\ Truthful(events', attempted)
    BY <2>1, <2>5, <2>6, <2>7, <2>8, <2>9, <2>10, <2>11, ReportArrives
       DEF Placed, Located, WhereInv, DistinctInv, SentInv
  <2>13. Waits(v, commands, "commands") /\ Carries(v, batch, "batch")
    BY <2>1, <2>5, <2>7, <2>8, <2>9, WaitsElsewhere, CarriesElsewhere DEF Placed, Located
  <2>14. /\ current \in Command => v[current.id] = "worker"
         /\ awaiting \in Command => v[awaiting.id] = "awaiting"
    BY <2>1, <2>5, <2>8, <2>9, CommandId DEF Placed, Located
  <2>15. Recorded(v)'
    BY <2>1, <2>5, <2>6, <2>9, RecordMove DEF Placed, Whereabouts
  <2>16. Located(v)'
    BY <2>6, <2>9, <2>12, <2>13, <2>14 DEF Located
  <2>17. DistinctInv' /\ SentInv'
    BY <2>6, <2>9, <2>12 DEF WhereInv, DistinctInv, SentInv
  <2>18. QED BY <2>15, <2>16, <2>17 DEF WhereInv, PlaceInv, Placed
<1>3. QED BY <1>1, <1>2

\* The worker takes an order, to send it or to report it.
LEMMA WhereTakeHead ==
  ASSUME TypeOK, WhereInv, commands # <<>>, TakeHead, workerPc' \notin {"judge", "report"},
         UNCHANGED <<issued, answer, failing, events, batch, awaiting, attempted>>
  PROVE  WhereInv'
<1>1. PICK w : Placed(w) BY DEF WhereInv, PlaceInv
<1>2. PICK c : c = Head(commands) OBVIOUS
<1>3. PICK id : id = c.id OBVIOUS
<1>4. PICK v : v = [w EXCEPT ![id] = "worker"] OBVIOUS
<1>5. commands' = Tail(commands) /\ current' = c
  BY <1>2 DEF TakeHead
<1>6. /\ commands \in Seq(Command) /\ failing \in Seq(Command) /\ events \in Seq(Event)
      /\ batch \in Seq(Event)
  BY DEF TypeOK, MainTypes, RefreshTypes, EventsTypes, SharedTypes
<1>7. w \in [Ids -> Whereabouts]
  BY <1>1 DEF Placed, Recorded
<1>8. /\ id \in Ids /\ w[id] = "commands"
      /\ Waits(v, Tail(commands), "commands") /\ Distinct(Tail(commands))
  BY <1>1, <1>2, <1>3, <1>4, <1>6, <1>7, HeadLeaves DEF Placed, Located, WhereInv, DistinctInv
<1>9. /\ Waits(v, failing, "failing")
      /\ Carries(v, events, "events") /\ Carries(v, batch, "batch")
  BY <1>1, <1>4, <1>6, <1>7, <1>8, WaitsElsewhere, CarriesElsewhere DEF Placed, Located
<1>10. v[c.id] = "worker" /\ (awaiting \in Command => v[awaiting.id] = "awaiting")
  BY <1>1, <1>3, <1>4, <1>7, <1>8, CommandId DEF Placed, Located
<1>11. Recorded(v)'
  BY <1>1, <1>4, <1>8, RecordMove DEF Placed, Whereabouts
<1>12. Located(v)'
  BY <1>5, <1>8, <1>9, <1>10 DEF Located
<1>13. DistinctInv' /\ SentInv'
  BY <1>5, <1>8 DEF WhereInv, DistinctInv, SentInv
<1>14. QED BY <1>11, <1>12, <1>13 DEF WhereInv, PlaceInv, Placed

\* The worker reports the order in its hands.
LEMMA WhereReport ==
  ASSUME TypeOK, WhereInv, NEW ok \in BOOLEAN, current \in Command, ok => current.id \in attempted,
         events' = Append(events, Control(current, ok)), current' = NoCommand,
         workerPc' \notin {"judge", "report"},
         UNCHANGED <<issued, answer, commands, failing, batch, awaiting, attempted>>
  PROVE  WhereInv'
<1>1. PICK w : Placed(w) BY DEF WhereInv, PlaceInv
<1>2. PICK id : id = current.id OBVIOUS
<1>3. PICK e : e = Control(current, ok) OBVIOUS
<1>4. PICK v : v = [w EXCEPT ![id] = "events"] OBVIOUS
<1>5. events' = Append(events, e) BY <1>3
<1>6. /\ commands \in Seq(Command) /\ failing \in Seq(Command) /\ events \in Seq(Event)
      /\ batch \in Seq(Event)
  BY DEF TypeOK, MainTypes, RefreshTypes, EventsTypes, SharedTypes
<1>7. w \in [Ids -> Whereabouts]
  BY <1>1 DEF Placed, Recorded
<1>8. id \in Ids /\ w[id] = "worker"
  BY <1>1, <1>2, CommandId DEF Placed, Located
<1>9. e \in Event /\ IsReport(e) /\ e.cmd.id = id /\ (e.ok => id \in attempted)
  BY <1>2, <1>3, EventFacts DEF Control, IsReport
<1>10. "events" \in Whereabouts BY DEF Whereabouts
<1>11. /\ Carries(v, events', "events") /\ DistinctReports(events')
       /\ Truthful(events', attempted)
  BY <1>1, <1>4, <1>5, <1>6, <1>7, <1>8, <1>9, <1>10, ReportArrives
     DEF Placed, Located, WhereInv, DistinctInv, SentInv
<1>12. /\ Waits(v, commands, "commands") /\ Waits(v, failing, "failing")
       /\ Carries(v, batch, "batch")
  BY <1>1, <1>4, <1>6, <1>7, <1>8, WaitsElsewhere, CarriesElsewhere DEF Placed, Located
<1>13. /\ awaiting \in Command => v[awaiting.id] = "awaiting"
       /\ NoCommand \notin Command
  BY <1>1, <1>4, <1>7, <1>8, CommandId DEF Placed, Located, NoCommand, Command, Ids
<1>14. Recorded(v)'
  BY <1>1, <1>4, <1>8, RecordMove DEF Placed, Whereabouts
<1>15. Located(v)'
  BY <1>11, <1>12, <1>13 DEF Located
<1>16. DistinctInv' /\ SentInv'
  BY <1>11 DEF WhereInv, DistinctInv, SentInv
<1>17. QED BY <1>14, <1>15, <1>16 DEF WhereInv, PlaceInv, Placed

\* Start, State and Status events concern no order.
LEMMA WhereSignal ==
  ASSUME TypeOK, WhereInv, NEW kind \in {"start", "error", "status", "empty"},
         events' = Append(events, Signal(kind)), workerPc' \notin {"judge", "report"},
         UNCHANGED <<issued, answer, commands, failing, batch, current, awaiting, attempted>>
  PROVE  WhereInv'
<1>1. PICK w : Placed(w) BY DEF WhereInv, PlaceInv
<1>2. events \in Seq(Event) /\ Signal(kind) \in Event /\ ~IsReport(Signal(kind))
  BY EventFacts DEF TypeOK, SharedTypes, Signal, IsReport
<1>3. /\ Carries(w, events', "events") /\ DistinctReports(events')
      /\ Truthful(events', attempted)
  BY <1>1, <1>2, SignalArrives DEF Placed, Located, WhereInv, DistinctInv, SentInv
<1>4. Recorded(w)' /\ Located(w)'
  BY <1>1, <1>3 DEF Placed, Recorded, Located
<1>5. DistinctInv' /\ SentInv'
  BY <1>3 DEF WhereInv, DistinctInv, SentInv
<1>6. QED BY <1>4, <1>5 DEF WhereInv, PlaceInv, Placed

LEMMA WhereSetControl == TypeOK /\ WhereInv /\ SetControl => WhereInv'
<1> SUFFICES ASSUME TypeOK, WhereInv, SetControl PROVE WhereInv'
  OBVIOUS
<1>1. /\ attempted' = attempted \cup {current.id}
      /\ UNCHANGED <<issued, answer, commands, failing, events, batch, current, awaiting>>
  BY DEF SetControl, From, mainVars, orderVars, refreshVars, eventVars
<1>2. SentInv'
  BY <1>1 DEF WhereInv, SentInv, Truthful
<1>3. DistinctInv'
  BY <1>1 DEF WhereInv, DistinctInv
<1>4. PICK w : Placed(w) BY DEF WhereInv, PlaceInv
<1>5. Placed(w)'
  BY <1>1, <1>4 DEF Placed, Recorded, Located
<1>6. QED BY <1>2, <1>3, <1>5 DEF WhereInv, PlaceInv

\* What the processing of any event leaves behind in the queues.
LEMMA ProcessingFrame ==
  ASSUME TypeOK, WhereInv, NEW kind, Processing(kind)
  PROVE  /\ UNCHANGED <<issued, commands, failing, events, current, attempted, workerPc>>
         /\ DistinctInv' /\ Truthful(batch', attempted)
         /\ batch # <<>> /\ batch \in Seq(Event) /\ batch' = Tail(batch)
         /\ Head(batch) \in Event /\ Head(batch).kind = kind
<1>1. PICK w : Placed(w) BY DEF WhereInv, PlaceInv
<1>2. /\ UNCHANGED <<issued, commands, failing, events, current, attempted, workerPc>>
      /\ batch # <<>> /\ batch' = Tail(batch) /\ Head(batch).kind = kind
  BY DEF Processing, orderVars, workerVars, sessionVars, sharedVars
<1>3. batch \in Seq(Event) /\ w \in [Ids -> Whereabouts]
  BY <1>1 DEF TypeOK, MainTypes, EventsTypes, Placed, Recorded
<1>4. DistinctReports(Tail(batch)) /\ Truthful(Tail(batch), attempted) /\ Head(batch) \in Event
  BY <1>1, <1>2, <1>3, ReportLeaves DEF Placed, Located, WhereInv, DistinctInv, SentInv
<1>5. QED BY <1>2, <1>3, <1>4 DEF WhereInv, DistinctInv

LEMMA WhereNotReport ==
  ASSUME TypeOK, WhereInv, NEW kind, kind # "control", Processing(kind), UNCHANGED <<awaiting, answer>>
  PROVE  WhereInv'
<1>1. PICK w : Placed(w) BY DEF WhereInv, PlaceInv
<1>2. Carries(w, Tail(batch), "batch")
  BY <1>1, ProcessingFrame, ReportLeaves DEF Placed, Recorded, Located, WhereInv, DistinctInv, SentInv
<1>3. Placed(w)'
  BY <1>1, <1>2, ProcessingFrame DEF Placed, Recorded, Located
<1>4. SentInv'
  BY ProcessingFrame DEF WhereInv, SentInv
<1>5. QED BY <1>3, <1>4, ProcessingFrame DEF WhereInv, PlaceInv

LEMMA AwaitingFacts ==
  ASSUME TypeOK, Automated(awaiting)
  PROVE  awaiting \in Command /\ awaiting.id \in Ids
<1>1. awaiting # NoCommand
  BY OriginsAssumption DEF Automated, LuaOrigins, NoCommand
<1>2. QED BY <1>1, CommandId DEF TypeOK, MainTypes, EventsTypes

\* The outcome is new, it is one of an accepted order, and "ok" of one that was sent.
SettlesOne ==
    \E id \in Ids, outcome \in {"ok", "failed", "dropped"} :
        /\ id <= issued /\ answer[id] = "none"
        /\ outcome \in {"ok", "dropped"} => id \in attempted
        /\ answer' = [answer EXCEPT ![id] = outcome]

LEMMA WhereResolve ==
  ASSUME TypeOK, WhereInv, NEW kind, kind # "control", Processing(kind),
         NEW outcome \in {"ok", "failed"}, ResolveAwaiting(outcome)
  PROVE  WhereInv' /\ (answer' = answer \/ SettlesOne)
<1>1. PICK w : Placed(w) BY DEF WhereInv, PlaceInv
<1>2. w \in [Ids -> Whereabouts] /\ Carries(w, Tail(batch), "batch") /\ NoCommand \notin Command
  <2>1. w \in [Ids -> Whereabouts] BY <1>1 DEF Placed, Recorded
  <2>2. Carries(w, Tail(batch), "batch")
    BY <1>1, <2>1, ProcessingFrame, ReportLeaves DEF Placed, Located, WhereInv, DistinctInv, SentInv
  <2>3. NoCommand \notin Command BY BoundsAssumption DEF NoCommand, Command, Ids
  <2>4. QED BY <2>1, <2>2, <2>3
<1>3. SentInv' /\ awaiting' = NoCommand
  BY <1>2, ProcessingFrame DEF WhereInv, SentInv, ResolveAwaiting
<1>4. CASE ~Automated(awaiting)
  <2>1. answer' = answer BY <1>4 DEF ResolveAwaiting
  <2>2. Placed(w)'
    BY <1>1, <1>2, <1>3, <2>1, ProcessingFrame DEF Placed, Recorded, Located
  <2>3. QED BY <1>3, <2>1, <2>2, ProcessingFrame DEF WhereInv, PlaceInv
<1>5. CASE Automated(awaiting)
  <2>1. PICK id : id = awaiting.id OBVIOUS
  <2>2. PICK v : v = [w EXCEPT ![id] = "settled"] OBVIOUS
  <2>3. id \in Ids /\ w[id] = "awaiting" /\ id \in attempted
    BY <1>1, <1>5, <2>1, AwaitingFacts DEF Placed, Located, WhereInv, SentInv
  <2>4. answer' = [answer EXCEPT ![id] = outcome]
    BY <1>5, <2>1 DEF ResolveAwaiting, Settle
  <2>5. Recorded(v)' /\ id <= issued /\ answer[id] = "none"
    BY <1>1, <2>2, <2>3, <2>4, ProcessingFrame, RecordSettle DEF Placed
  <2>6. /\ commands \in Seq(Command) /\ failing \in Seq(Command) /\ events \in Seq(Event)
        /\ Tail(batch) \in Seq(Event)
    BY ProcessingFrame DEF TypeOK, MainTypes, RefreshTypes, SharedTypes
  <2>7. /\ Waits(v, commands, "commands") /\ Waits(v, failing, "failing")
        /\ Carries(v, events, "events") /\ Carries(v, Tail(batch), "batch")
    BY <1>1, <1>2, <2>2, <2>3, <2>6, WaitsElsewhere, CarriesElsewhere DEF Placed, Located
  <2>8. current \in Command => v[current.id] = "worker"
    BY <1>1, <1>2, <2>2, <2>3, CommandId DEF Placed, Located
  <2>9. Located(v)'
    BY <1>2, <1>3, <2>7, <2>8, ProcessingFrame DEF Located
  <2>10. SettlesOne
    BY <2>3, <2>4, <2>5 DEF SettlesOne
  <2>11. QED BY <1>3, <2>5, <2>9, <2>10, ProcessingFrame DEF WhereInv, PlaceInv, Placed
<1>6. QED BY <1>4, <1>5

\* The queues, when an order moves that is reported by the first event of the batch.
LEMMA FirstReport ==
  ASSUME TypeOK, WhereInv, Processing("control"),
         NEW w \in [Ids -> Whereabouts], NEW id, id = Head(batch).cmd.id,
         Waits(w, commands, "commands"), Waits(w, failing, "failing"),
         Carries(w, events, "events"), Carries(w, batch, "batch"),
         current \in Command => w[current.id] = "worker",
         NEW t, NEW v, v = [w EXCEPT ![id] = t]
  PROVE  /\ Waits(v, commands, "commands") /\ Waits(v, failing, "failing")
         /\ Carries(v, events, "events") /\ Carries(v, Tail(batch), "batch")
         /\ current \in Command => v[current.id] = "worker"
         /\ id \in Ids /\ w[id] = "batch"
         /\ Head(batch).cmd \in Command
         /\ Head(batch).ok => id \in attempted
<1>1. /\ commands \in Seq(Command) /\ failing \in Seq(Command) /\ events \in Seq(Event)
  BY DEF TypeOK, MainTypes, RefreshTypes, SharedTypes
<1>2. /\ batch # <<>> /\ batch \in Seq(Event) /\ IsReport(Head(batch))
  BY ProcessingFrame DEF IsReport
<1>3. /\ id \in Ids /\ w[id] = "batch" /\ Carries(v, Tail(batch), "batch")
      /\ Head(batch).cmd \in Command
      /\ Head(batch).ok => id \in attempted
  BY <1>2, ReportLeaves DEF WhereInv, DistinctInv, SentInv
<1>4. /\ Waits(v, commands, "commands") /\ Waits(v, failing, "failing")
      /\ Carries(v, events, "events")
  BY <1>1, <1>3, WaitsElsewhere, CarriesElsewhere
<1>5. current \in Command => v[current.id] = "worker"
  BY <1>3, CommandId
<1>6. QED BY <1>3, <1>4, <1>5

\* A client's order, or one that was not accepted by the device, gets its outcome.
LEMMA WhereAnswered ==
  ASSUME TypeOK, WhereInv, Processing("control"), UNCHANGED awaiting,
         NEW outcome \in {"ok", "failed"}, outcome = "ok" => Head(batch).ok,
         Settle(Head(batch).cmd, outcome)
  PROVE  WhereInv' /\ SettlesOne
<1>1. PICK w : Placed(w) BY DEF WhereInv, PlaceInv
<1>2. PICK id : id = Head(batch).cmd.id OBVIOUS
<1>3. PICK v : v = [w EXCEPT ![id] = "settled"] OBVIOUS
<1>4. w \in [Ids -> Whereabouts] BY <1>1 DEF Placed, Recorded
<1>5. /\ Waits(v, commands, "commands") /\ Waits(v, failing, "failing")
      /\ Carries(v, events, "events") /\ Carries(v, Tail(batch), "batch")
      /\ current \in Command => v[current.id] = "worker"
      /\ id \in Ids /\ w[id] = "batch"
      /\ Head(batch).ok => id \in attempted
  <2>1. /\ Waits(w, commands, "commands") /\ Waits(w, failing, "failing")
        /\ Carries(w, events, "events") /\ Carries(w, batch, "batch")
        /\ current \in Command => w[current.id] = "worker"
    BY <1>1 DEF Placed, Located
  <2>2. QED BY <1>2, <1>3, <1>4, <2>1, FirstReport
<1>6. awaiting \in Command => v[awaiting.id] = "awaiting"
  BY <1>1, <1>3, <1>4, <1>5, CommandId DEF Placed, Located
<1>7. answer' = [answer EXCEPT ![id] = outcome]
  BY <1>2 DEF Settle
<1>8. Recorded(v)' /\ id <= issued /\ answer[id] = "none"
  BY <1>1, <1>3, <1>5, <1>7, ProcessingFrame, RecordSettle DEF Placed
<1>9. Located(v)'
  BY <1>5, <1>6, ProcessingFrame DEF Located
<1>10. SentInv'
  BY ProcessingFrame DEF WhereInv, SentInv
<1>11. SettlesOne
  BY <1>5, <1>7, <1>8 DEF SettlesOne
<1>12. QED BY <1>8, <1>9, <1>10, <1>11, ProcessingFrame DEF WhereInv, PlaceInv, Placed

\* A Lua order that was accepted by the device starts to wait, and may drop another.
LEMMA WhereAwaits ==
  ASSUME TypeOK, WhereInv, Processing("control"), Head(batch).ok, awaiting' = Head(batch).cmd,
         IF Automated(awaiting) THEN Settle(awaiting, "dropped") ELSE UNCHANGED answer
  PROVE  WhereInv' /\ (answer' = answer \/ SettlesOne)
<1>1. PICK w : Placed(w) BY DEF WhereInv, PlaceInv
<1>2. PICK id : id = Head(batch).cmd.id OBVIOUS
<1>3. w \in [Ids -> Whereabouts] BY <1>1 DEF Placed, Recorded
<1>4. /\ id \in Ids /\ w[id] = "batch" /\ id \in attempted /\ Head(batch).cmd \in Command
  <2>1. PICK v : v = [w EXCEPT ![id] = "awaiting"] OBVIOUS
  <2>2. QED BY <1>1, <1>2, <1>3, <2>1, FirstReport DEF Placed, Located
<1>5. \E u \in [Ids -> Whereabouts] :
         /\ Recorded(u)'
         /\ Waits(u, commands, "commands") /\ Waits(u, failing, "failing")
         /\ Carries(u, events, "events") /\ Carries(u, batch, "batch")
         /\ current \in Command => u[current.id] = "worker"
         /\ answer' = answer \/ SettlesOne
  <2>1. CASE ~Automated(awaiting)
    <3>1. Recorded(w)'
      BY <1>1, <2>1, ProcessingFrame DEF Placed, Recorded
    <3>2. QED BY <1>1, <1>3, <2>1, <3>1 DEF Placed, Located
  <2>2. CASE Automated(awaiting)
    <3>1. PICK old : old = awaiting.id OBVIOUS
    <3>2. PICK u : u = [w EXCEPT ![old] = "settled"] OBVIOUS
    <3>3. old \in Ids /\ w[old] = "awaiting" /\ old \in attempted
      BY <1>1, <2>2, <3>1, AwaitingFacts DEF Placed, Located, WhereInv, SentInv
    <3>4. answer' = [answer EXCEPT ![old] = "dropped"]
      BY <2>2, <3>1 DEF Settle
    <3>5. Recorded(u)' /\ old <= issued /\ answer[old] = "none"
      BY <1>1, <3>2, <3>3, <3>4, ProcessingFrame, RecordSettle DEF Placed
    <3>6. /\ commands \in Seq(Command) /\ failing \in Seq(Command) /\ events \in Seq(Event)
          /\ batch \in Seq(Event)
      BY DEF TypeOK, MainTypes, RefreshTypes, EventsTypes, SharedTypes
    <3>7. /\ Waits(u, commands, "commands") /\ Waits(u, failing, "failing")
          /\ Carries(u, events, "events") /\ Carries(u, batch, "batch")
      BY <1>1, <1>3, <3>2, <3>3, <3>6, WaitsElsewhere, CarriesElsewhere DEF Placed, Located
    <3>8. current \in Command => u[current.id] = "worker"
      BY <1>1, <1>3, <3>2, <3>3, CommandId DEF Placed, Located
    <3>9. SettlesOne BY <3>3, <3>4, <3>5 DEF SettlesOne
    <3>10. u \in [Ids -> Whereabouts] BY <1>3, <3>2 DEF Whereabouts
    <3>11. QED BY <3>5, <3>7, <3>8, <3>9, <3>10
  <2>3. QED BY <2>1, <2>2
<1>6. PICK u \in [Ids -> Whereabouts] :
         /\ Recorded(u)'
         /\ Waits(u, commands, "commands") /\ Waits(u, failing, "failing")
         /\ Carries(u, events, "events") /\ Carries(u, batch, "batch")
         /\ current \in Command => u[current.id] = "worker"
         /\ answer' = answer \/ SettlesOne
  BY <1>5
<1>7. PICK v : v = [u EXCEPT ![id] = "awaiting"] OBVIOUS
<1>8. /\ Waits(v, commands, "commands") /\ Waits(v, failing, "failing")
      /\ Carries(v, events, "events") /\ Carries(v, Tail(batch), "batch")
      /\ current \in Command => v[current.id] = "worker"
      /\ u[id] = "batch"
  BY <1>2, <1>6, <1>7, FirstReport
<1>9. Recorded(v)'
  BY <1>4, <1>6, <1>7, <1>8 DEF Recorded, Whereabouts
<1>10. awaiting'.id = id /\ v[id] = "awaiting"
  BY <1>2, <1>4, <1>6, <1>7
<1>11. Located(v)'
  BY <1>8, <1>10, ProcessingFrame DEF Located
<1>12. SentInv'
  BY <1>4, <1>10, ProcessingFrame DEF WhereInv, SentInv
<1>13. QED BY <1>6, <1>9, <1>11, <1>12, ProcessingFrame DEF WhereInv, PlaceInv, Placed

LEMMA WhereProcessControl ==
  TypeOK /\ WhereInv /\ ProcessControl => WhereInv' /\ (answer' = answer \/ SettlesOne)
<1> SUFFICES ASSUME TypeOK, WhereInv, ProcessControl
             PROVE  WhereInv' /\ (answer' = answer \/ SettlesOne)
  OBVIOUS
<1>1. Processing("control") BY DEF ProcessControl
<1>2. CASE Automated(Head(batch).cmd) /\ Head(batch).ok
  BY <1>1, <1>2, WhereAwaits DEF ProcessControl
<1>3. CASE ~(Automated(Head(batch).cmd) /\ Head(batch).ok)
  <2>1. PICK outcome : outcome = IF Head(batch).ok THEN "ok" ELSE "failed" OBVIOUS
  <2>2. Settle(Head(batch).cmd, outcome) /\ UNCHANGED awaiting
    BY <1>3, <2>1 DEF ProcessControl
  <2>3. QED BY <1>1, <2>1, <2>2, WhereAnswered
<1>4. QED BY <1>2, <1>3

-----------------------------------------------------------------------------
(* Each step is a step of the ledger or none *)

Stutters == UNCHANGED <<issued, attempted, answer>>

\* The steps of the main thread, with what each does to the ledger.
LEMMA MainKeepsLedger ==
  ASSUME TypeOK, WhereInv, Requests \/ MainStep
  PROVE  /\ WhereInv'
         /\ \/ Stutters
            \/ UNCHANGED <<issued, attempted>> /\ SettlesOne
            \/ /\ issued < MaxCommands /\ issued' = issued + 1
               /\ UNCHANGED <<attempted, answer>>
<1>0. UNCHANGED <<current, workerPc, attempted>>
  BY MainFrame DEF workerVars, sessionVars
<1>1. CASE Requests \/ EventsDone \/ ShutdownNotify \/ Join
  <2>1. UNCHANGED <<issued, answer, commands, failing, events, batch, awaiting>>
    BY <1>1 DEF Requests, HandleControl, LuaAction, HandleResume, HandleRefresh, Shutdown,
       EventsDone, ShutdownNotify, Join, orderVars, refreshVars, eventVars, sharedVars
  <2>2. QED BY <1>0, <2>1, WhereSame DEF Stutters
<1>2. CASE PushControl \/ PushAutomated
  <2>1. /\ hand \in Origins /\ issued < MaxCommands
        /\ UNCHANGED <<answer, failing, events, batch, awaiting>>
        /\ Enqueue(hand) \/ UNCHANGED <<issued, commands>>
    BY <1>2, OriginsAssumption DEF PushControl, PushAutomated, ClientOrigins, LuaOrigins, refreshVars,
       eventVars, TypeOK, MainTypes, OrderTypes
  <2>2. CASE Enqueue(hand)
    BY <1>0, <2>1, <2>2, WhereEnqueue DEF Enqueue
  <2>3. CASE UNCHANGED <<issued, commands>>
    BY <1>0, <2>1, <2>3, WhereSame DEF Stutters
  <2>4. QED BY <2>1, <2>2, <2>3
<1>3. CASE RefreshSwap \/ RefreshFail \/ TakeEvents
  <2>1. Stutters
    BY <1>0, <1>3 DEF RefreshSwap, RefreshFail, TakeEvents, orderVars, eventVars, Stutters
  <2>2. QED BY <1>3, <2>1, WhereRefreshSwap, WhereRefreshFail, WhereTakeEvents
<1>4. CASE ProcessStart \/ ProcessEmpty
  <2>1. PICK kind \in {"start", "empty"} : Processing(kind) /\ UNCHANGED <<awaiting, answer>>
    BY <1>4 DEF ProcessStart, ProcessEmpty
  <2>2. QED BY <2>1, WhereNotReport, ProcessingFrame DEF Stutters
<1>5. CASE ProcessError \/ ProcessStatus
  <2>1. PICK kind \in {"error", "status"}, outcome \in {"ok", "failed"} :
           Processing(kind) /\ ResolveAwaiting(outcome)
    BY <1>5 DEF ProcessError, ProcessStatus
  <2>2. kind # "control" BY <2>1
  <2>3. QED BY <2>1, <2>2, WhereResolve, ProcessingFrame DEF Stutters
<1>6. CASE ProcessControl
  <2>1. Processing("control") BY <1>6 DEF ProcessControl
  <2>2. QED BY <1>6, <2>1, WhereProcessControl, ProcessingFrame DEF Stutters
<1>7. QED BY <1>1, <1>2, <1>3, <1>4, <1>5, <1>6 DEF MainStep

LEMMA WorkerKeepsLedger ==
  ASSUME TypeOK, WhereInv, Worker
  PROVE  /\ WhereInv'
         /\ UNCHANGED <<issued, answer>>
         /\ attempted' = attempted \/ SetControl
<1>0. UNCHANGED <<issued, answer, failing, batch, awaiting>>
  BY WorkerFrame DEF mainVars, orderVars, refreshVars, eventVars
<1>1. CASE SetControl
  BY <1>0, <1>1, WhereSetControl
<1>2. CASE PostStart \/ Deliver \/ PostError
  <2>1. PICK kind \in {"start", "error", "status", "empty"} :
           /\ events' = Append(events, Signal(kind)) /\ workerPc' \notin {"judge", "report"}
           /\ UNCHANGED <<commands, current, attempted>>
    BY <1>2 DEF PostStart, Deliver, PostError, Post, Goto
  <2>2. QED BY <1>0, <2>1, WhereSignal
<1>3. CASE Report
  <2>1. /\ current \in Command /\ currentOk \in BOOLEAN /\ current.id \in attempted
        /\ events' = Append(events, Control(current, currentOk)) /\ current' = NoCommand
        /\ workerPc' = "check" /\ UNCHANGED <<commands, attempted>>
    BY <1>3 DEF Report, From, Goto, Post, TypeOK, SessionTypes, WhereInv, SentInv
  <2>2. QED BY <1>0, <2>1, WhereReport
<1>4. CASE PostDrained
  <2>1. /\ current \in Command
        /\ events' = Append(events, Control(current, FALSE)) /\ current' = NoCommand
        /\ workerPc' = "drain" /\ UNCHANGED <<commands, attempted>>
    BY <1>4 DEF PostDrained, From, Goto, Post, TypeOK, SessionTypes
  <2>2. QED BY <1>0, <2>1, WhereReport
<1>5. CASE Take \/ Drain
  <2>1. CASE commands # <<>>
    <3>1. TakeHead /\ UNCHANGED <<events, attempted>> /\ workerPc' \notin {"judge", "report"}
      BY <1>5, <2>1 DEF Take, Drain, Goto
    <3>2. QED BY <1>0, <2>1, <3>1, WhereTakeHead
  <2>2. CASE commands = <<>>
    <3>1. UNCHANGED <<commands, current, events, attempted>> /\ workerPc' \notin {"judge", "report"}
      BY <1>5, <2>2 DEF Take, Drain, Goto
    <3>2. QED BY <1>0, <3>1, WhereSame
  <2>3. QED BY <2>1, <2>2
<1>6. CASE Top \/ Begin \/ Connect \/ Check \/ Observe \/ ReceiveStatus \/ ReceiveStopped
           \/ ReceiveFails \/ After \/ Judge \/ Failed \/ WaitReconnect \/ End
  <2>1. /\ UNCHANGED <<commands, current, events, attempted>>
        /\ workerPc' \in {"judge", "report"} => workerPc \in {"judge", "report"}
    BY <1>6 DEF From, Goto, Silent, sessionVars, Top, Begin, Connect, Check, Observe,
       ReceiveStatus, ReceiveStopped, ReceiveFails, After, Judge, Failed, WaitReconnect, End
  <2>2. QED BY <1>0, <2>1, WhereSame
<1>7. QED BY <1>1, <1>2, <1>3, <1>4, <1>5, <1>6 DEF Worker

LEMMA SettleStep ==
  ASSUME UNCHANGED <<issued, attempted>>, SettlesOne
  PROVE  Ledger!Next
<1>1. PICK id \in Ids, outcome \in {"ok", "failed", "dropped"} :
         /\ id <= issued /\ answer[id] = "none"
         /\ outcome \in {"ok", "dropped"} => id \in attempted
         /\ answer' = [answer EXCEPT ![id] = outcome]
  BY DEF SettlesOne
<1>2. Ledger!Settle(id)
  BY <1>1 DEF Ledger!Settle, Ledger!Unsettled
<1>3. QED BY <1>2 DEF Ledger!Next, Ledger!Ids, Ids

\* An order is sent only after those before it, and before it is answered.
LEMMA SendStep ==
  ASSUME TypeOK, OrderInv, WhereInv, SetControl, UNCHANGED <<issued, answer>>
  PROVE  Ledger!Next
<1>1. PICK id : id = current.id OBVIOUS
<1>2. /\ workerPc = "control" /\ current \in Command /\ id \in Ids
      /\ attempted' = attempted \cup {id}
  BY <1>1, CommandId DEF SetControl, From, TypeOK, SessionTypes
<1>3. id <= issued /\ \A earlier \in attempted : earlier < id
  BY <1>1, <1>2 DEF OrderInv, ControlInv
<1>4. answer[id] = "none"
  BY <1>1, <1>2 DEF WhereInv, PlaceInv, Placed, Recorded, Located
<1>5. Ledger!Send(id)
  BY <1>2, <1>3, <1>4 DEF Ledger!Send, Ledger!Unsettled
<1>6. QED BY <1>2, <1>5 DEF Ledger!Next, Ledger!Ids, Ids

LEMMA LedgerStep ==
  TypeOK /\ OrderInv /\ WhereInv /\ [Next]_vars => WhereInv' /\ [Ledger!Next]_(Ledger!vars)
<1> SUFFICES ASSUME TypeOK, OrderInv, WhereInv, [Next]_vars
             PROVE  WhereInv' /\ [Ledger!Next]_(Ledger!vars)
  OBVIOUS
<1>1. CASE Requests \/ MainStep
  <2>1. Ledger!Accept \/ ~(/\ issued < MaxCommands /\ issued' = issued + 1
                          /\ UNCHANGED <<attempted, answer>>)
    BY DEF Ledger!Accept
  <2>2. QED
    BY <1>1, <2>1, MainKeepsLedger, SettleStep DEF Stutters, Ledger!Next, Ledger!vars
<1>2. CASE Worker
  BY <1>2, WorkerKeepsLedger, SendStep DEF Ledger!vars
<1>3. CASE UNCHANGED vars
  BY <1>3, WhereSame DEF vars, mainVars, workerVars, sharedVars, orderVars, refreshVars, eventVars,
     sessionVars, Ledger!vars
<1>4. QED BY <1>1, <1>2, <1>3 DEF Next, Terminated

LEMMA WhereInit == Init => WhereInv /\ Ledger!Init
<1> SUFFICES ASSUME Init PROVE WhereInv /\ Ledger!Init
  OBVIOUS
<1>1. DistinctInv /\ SentInv
  BY DEF Init, DistinctInv, SentInv, Distinct, DistinctReports, Truthful, NoCommand, Command, Ids
<1>2. PICK w : w = [id \in Ids |-> "nowhere"] OBVIOUS
<1>3. Recorded(w)
  BY <1>2, BoundsAssumption DEF Init, Recorded, Whereabouts, Ids
<1>4. NoCommand \notin Command
  BY BoundsAssumption DEF NoCommand, Command, Ids
<1>5. Located(w)
  BY <1>4 DEF Init, Located, Waits, Carries
<1>6. Ledger!Init
  BY DEF Init, Ledger!Init, Ledger!Ids, Ids
<1>7. QED BY <1>1, <1>3, <1>5, <1>6 DEF WhereInv, PlaceInv, Placed

(***************************************************************************)
(* The two threads together keep the ledger (LedgerKept): each order is    *)
(* sent at most once, in order of acceptance and before its outcome, which *)
(* it gets at most once, and which is "ok" only of one that was sent.      *)
(***************************************************************************)
THEOREM KeepsLedger == Spec => LedgerKept
  BY WhereInit, LedgerStep, OrderInvSafe, TypeCorrect, PTL DEF Spec, LedgerKept, Ledger!Spec

-----------------------------------------------------------------------------
(***************************************************************************)
(* No order is lost.  WhereInv keeps an order from being in two places;    *)
(* that it is in one is an invariant of its own, for which the places the  *)
(* code overwrites must be known to be empty: the worker's hands when it   *)
(* takes an order, the deque of a refresh when it swaps the queue, the     *)
(* batch when the events are taken.  What waits for its confirmation is    *)
(* always an order of the script, so that a status does answer it.         *)
(***************************************************************************)
HoldsOrder(queue, id)  == \E i \in DOMAIN queue : queue[i].id = id
HoldsReport(queue, id) == \E i \in DOMAIN queue : IsReport(queue[i]) /\ queue[i].cmd.id = id

Somewhere(id) ==
    \/ HoldsOrder(commands, id) \/ HoldsOrder(failing, id)
    \/ HoldsReport(events, id) \/ HoldsReport(batch, id)
    \/ current.id = id \/ awaiting.id = id \/ answer[id] # "none"

NoneLost == \A id \in 1..issued : Somewhere(id)

HandsInv ==
    /\ workerPc \notin {"control", "judge", "report", "drained"} => current = NoCommand
    /\ awaiting \in Command => Automated(awaiting)
    /\ mainPc # "failing" => failing = <<>>

KeepInv == NoneLost /\ HandsInv /\ BatchInv

LEMMA HoldsAppended ==
  ASSUME NEW S, NEW q \in Seq(S), NEW e, NEW id
  PROVE  /\ HoldsOrder(q, id) \/ e.id = id => HoldsOrder(Append(q, e), id)
         /\ HoldsReport(q, id) \/ (IsReport(e) /\ e.cmd.id = id) => HoldsReport(Append(q, e), id)
<1>1. /\ Len(q) + 1 \in DOMAIN Append(q, e) /\ Append(q, e)[Len(q) + 1] = e
      /\ \A i \in DOMAIN q : i \in DOMAIN Append(q, e) /\ Append(q, e)[i] = q[i]
  OBVIOUS
<1>2. QED BY <1>1 DEF HoldsOrder, HoldsReport

LEMMA HoldsTail ==
  ASSUME NEW S, NEW q \in Seq(S), q # <<>>, NEW id
  PROVE  /\ HoldsOrder(q, id) => Head(q).id = id \/ HoldsOrder(Tail(q), id)
         /\ HoldsReport(q, id) =>
                \/ IsReport(Head(q)) /\ Head(q).cmd.id = id
                \/ HoldsReport(Tail(q), id)
<1>1. ASSUME NEW i \in DOMAIN q PROVE q[i] = Head(q) \/ \E j \in DOMAIN Tail(q) : Tail(q)[j] = q[i]
  <2>1. CASE i = 1
    BY <2>1
  <2>2. CASE i # 1
    <3>1. /\ i \in Nat /\ i - 1 \in DOMAIN Tail(q) /\ Tail(q)[i - 1] = q[(i - 1) + 1]
      BY <2>2
    <3>2. (i - 1) + 1 = i BY <3>1
    <3>3. QED BY <3>1, <3>2
  <2>3. QED BY <2>1, <2>2
<1>2. QED BY <1>1 DEF HoldsOrder, HoldsReport

LEMMA HoldsNothing == \A id : ~HoldsOrder(<<>>, id) /\ ~HoldsReport(<<>>, id)
  BY DEF HoldsOrder, HoldsReport

\* The worker takes an order out of the queue, or gives one it holds to the events.
LEMMA KeepWorker == TypeOK /\ KeepInv /\ Worker => KeepInv'
<1> SUFFICES ASSUME TypeOK, KeepInv, Worker PROVE KeepInv'
  OBVIOUS
<1>0. /\ UNCHANGED <<issued, answer, failing, batch, awaiting, mainPc>>
      /\ commands \in Seq(Command) /\ events \in Seq(Event)
  BY WorkerFrame DEF mainVars, orderVars, refreshVars, eventVars, TypeOK, SharedTypes
<1>1. BatchInv' /\ (mainPc' # "failing" => failing' = <<>>)
      /\ (awaiting' \in Command => Automated(awaiting)')
  BY <1>0 DEF KeepInv, HandsInv, BatchInv, Automated
<1>2. CASE PostStart \/ Deliver \/ PostError
  <2>1. PICK kind \in {"start", "error", "status", "empty"} :
           /\ events' = Append(events, Signal(kind))
           /\ workerPc \notin {"control", "judge", "report", "drained"}
           /\ UNCHANGED <<commands, current>>
    BY <1>2 DEF PostStart, Deliver, PostError, Post, Goto, From
  <2>2. NoneLost'
    BY <1>0, <2>1, HoldsAppended DEF KeepInv, NoneLost, Somewhere
  <2>3. current' = NoCommand
    BY <2>1 DEF KeepInv, HandsInv
  <2>4. QED BY <1>1, <2>2, <2>3 DEF KeepInv, HandsInv
<1>3. CASE Report \/ PostDrained
  <2>1. PICK ok \in BOOLEAN : events' = Append(events, Control(current, ok))
    BY <1>3 DEF Report, PostDrained, Post, TypeOK, SessionTypes
  <2>2. current' = NoCommand /\ UNCHANGED commands
    BY <1>3 DEF Report, PostDrained, Post
  <2>3. IsReport(Control(current, ok)) /\ Control(current, ok).cmd = current
    BY DEF IsReport, Control
  <2>4. NoneLost'
    BY <1>0, <2>1, <2>2, <2>3, HoldsAppended DEF KeepInv, NoneLost, Somewhere
  <2>5. QED BY <1>1, <2>2, <2>4 DEF KeepInv, HandsInv
<1>4. CASE (Take \/ Drain) /\ commands # <<>>
  <2>1. /\ TakeHead /\ UNCHANGED events
        /\ workerPc \in {"take", "drain"} /\ workerPc' \in {"control", "drained"}
    BY <1>4 DEF Take, Drain, Goto, From
  <2>2. current = NoCommand
    BY <2>1 DEF KeepInv, HandsInv
  <2>3. \A id \in 1..issued : current.id # id
    BY <2>2 DEF NoCommand
  <2>4. commands' = Tail(commands) /\ current' = Head(commands)
    BY <2>1 DEF TakeHead
  <2>5. NoneLost'
    BY <1>0, <1>4, <2>1, <2>3, <2>4, HoldsTail DEF KeepInv, NoneLost, Somewhere
  <2>6. QED BY <1>1, <2>1, <2>5 DEF KeepInv, HandsInv
<1>5. CASE (Take \/ Drain) /\ commands = <<>>
  <2>1. /\ UNCHANGED <<commands, current, events>> /\ workerPc \in {"take", "drain"}
    BY <1>5 DEF Take, Drain, Goto, From
  <2>2. NoneLost'
    BY <1>0, <2>1 DEF KeepInv, NoneLost, Somewhere
  <2>3. current' = NoCommand
    BY <2>1 DEF KeepInv, HandsInv
  <2>4. QED BY <1>1, <2>2, <2>3 DEF KeepInv, HandsInv
<1>6. CASE SetControl \/ Judge
  <2>1. UNCHANGED <<commands, current, events>> /\ workerPc' \in {"judge", "report"}
    BY <1>6 DEF SetControl, Judge, Goto
  <2>2. NoneLost'
    BY <1>0, <2>1 DEF KeepInv, NoneLost, Somewhere
  <2>3. QED BY <1>1, <2>1, <2>2 DEF KeepInv, HandsInv
<1>7. CASE Top \/ Begin \/ Connect \/ Check \/ Observe \/ ReceiveStatus \/ ReceiveStopped
           \/ ReceiveFails \/ After \/ Failed \/ WaitReconnect \/ End
  <2>1. /\ UNCHANGED <<commands, current, events>>
        /\ workerPc \notin {"control", "judge", "report", "drained"}
    BY <1>7 DEF From, Goto, Silent, sessionVars, Top, Begin, Connect, Check, Observe,
       ReceiveStatus, ReceiveStopped, ReceiveFails, After, Failed, WaitReconnect, End
  <2>2. NoneLost'
    BY <1>0, <2>1 DEF KeepInv, NoneLost, Somewhere
  <2>3. current' = NoCommand
    BY <2>1 DEF KeepInv, HandsInv
  <2>4. QED BY <1>1, <2>2, <2>3 DEF KeepInv, HandsInv
<1>8. QED BY <1>2, <1>3, <1>4, <1>5, <1>6, <1>7 DEF Worker

\* An answer once given stays, and the order it was given to was in the wait.
LEMMA KeepResolve ==
  ASSUME TypeOK, KeepInv, NEW outcome \in {"ok", "failed"}, ResolveAwaiting(outcome)
  PROVE  /\ awaiting' = NoCommand
         /\ \A id \in Ids : answer[id] # "none" \/ awaiting.id = id => answer'[id] # "none"
<1>1. answer \in [Ids -> {"none", "ok", "failed", "dropped"}] /\ awaiting \in Command \cup {NoCommand}
  BY DEF TypeOK, MainTypes, EventsTypes
<1>2. CASE awaiting \in Command
  BY <1>1, <1>2 DEF ResolveAwaiting, Settle, KeepInv, HandsInv
<1>3. CASE awaiting = NoCommand
  <2>1. ~Automated(awaiting) /\ \A id \in Ids : awaiting.id # id
    BY <1>3, OriginsAssumption DEF Automated, NoCommand, LuaOrigins, Ids
  <2>2. QED BY <2>1 DEF ResolveAwaiting
<1>4. QED BY <1>1, <1>2, <1>3

\* Processing an event that is no report takes no order out of the batch.
LEMMA KeepProcessing ==
  ASSUME TypeOK, KeepInv, NEW kind, Processing(kind)
  PROVE  /\ UNCHANGED <<issued, commands, failing, events, current, workerPc>> /\ failing = <<>>
         /\ BatchInv'
         /\ \A id \in Ids : HoldsReport(batch, id) =>
                \/ kind = "control" /\ Head(batch).cmd.id = id
                \/ HoldsReport(batch', id)
<1>1. /\ UNCHANGED <<issued, commands, failing, events, current, workerPc>>
      /\ mainPc \in {"events", "status"} /\ mainPc' \in {"events", "status"}
      /\ batch # <<>> /\ Head(batch).kind = kind /\ batch' = Tail(batch)
  BY DEF Processing, orderVars, workerVars, sessionVars, sharedVars
<1>2. batch \in Seq(Event)
  BY DEF TypeOK, MainTypes, EventsTypes
<1>3. failing = <<>> /\ BatchInv'
  BY <1>1 DEF KeepInv, HandsInv, BatchInv
<1>4. QED BY <1>1, <1>2, <1>3, HoldsTail DEF IsReport

LEMMA KeepProcessControl == TypeOK /\ KeepInv /\ ProcessControl => KeepInv'
<1> SUFFICES ASSUME TypeOK, KeepInv, ProcessControl PROVE KeepInv'
  OBVIOUS
<1>1. Processing("control") BY DEF ProcessControl
<1>2. PICK c, ok : c = Head(batch).cmd /\ ok = Head(batch).ok OBVIOUS
<1>3. /\ answer \in [Ids -> {"none", "ok", "failed", "dropped"}]
      /\ awaiting \in Command \cup {NoCommand} /\ batch \in Seq(Event) /\ issued \in 0..MaxCommands
  BY DEF TypeOK, MainTypes, EventsTypes, OrderTypes
<1>4. Head(batch) \in Event /\ Head(batch).kind = "control"
  BY <1>1, <1>3 DEF Processing
<1>5. c \in Command /\ c.id \in Ids
  BY <1>2, <1>4, EventFacts, CommandId
<1>6. \A id \in 1..issued : id \in Ids
  BY <1>3, BoundsAssumption DEF Ids
<1>7. CASE Automated(c) /\ ok
  <2>1. /\ awaiting' = c
        /\ IF Automated(awaiting) THEN Settle(awaiting, "dropped") ELSE UNCHANGED answer
    BY <1>2, <1>7 DEF ProcessControl
  <2>2. \A id \in Ids : answer[id] # "none" \/ awaiting.id = id => answer'[id] # "none"
    <3>1. CASE awaiting \in Command
      BY <1>3, <2>1, <3>1 DEF Settle, KeepInv, HandsInv
    <3>2. CASE awaiting = NoCommand
      <4>1. ~Automated(awaiting) /\ \A id \in Ids : awaiting.id # id
        BY <3>2, OriginsAssumption DEF Automated, NoCommand, LuaOrigins, Ids
      <4>2. QED BY <2>1, <4>1
    <3>3. QED BY <1>3, <3>1, <3>2
  <2>3. NoneLost'
    BY <1>1, <1>2, <1>6, <2>1, <2>2, KeepProcessing DEF KeepInv, NoneLost, Somewhere
  <2>4. Automated(awaiting)'
    BY <1>7, <2>1 DEF Automated
  <2>5. QED BY <1>1, <2>3, <2>4, KeepProcessing DEF KeepInv, HandsInv
<1>8. CASE ~(Automated(c) /\ ok)
  <2>1. PICK outcome \in {"ok", "failed"} : Settle(c, outcome) /\ awaiting' = awaiting
    BY <1>2, <1>8 DEF ProcessControl
  <2>2. \A id \in Ids : answer[id] # "none" \/ c.id = id => answer'[id] # "none"
    BY <1>3, <1>5, <2>1 DEF Settle
  <2>3. NoneLost'
    BY <1>1, <1>2, <1>6, <2>1, <2>2, KeepProcessing DEF KeepInv, NoneLost, Somewhere
  <2>4. awaiting' \in Command => Automated(awaiting)'
    BY <2>1 DEF KeepInv, HandsInv, Automated
  <2>5. QED BY <1>1, <2>3, <2>4, KeepProcessing DEF KeepInv, HandsInv
<1>9. QED BY <1>7, <1>8

LEMMA KeepMain == TypeOK /\ KeepInv /\ (Requests \/ MainStep) => KeepInv'
<1> SUFFICES ASSUME TypeOK, KeepInv, Requests \/ MainStep PROVE KeepInv'
  OBVIOUS
<1>0. UNCHANGED <<current, workerPc>>
  BY MainFrame DEF workerVars, sessionVars
<1>1. /\ commands \in Seq(Command) /\ failing \in Seq(Command) /\ events \in Seq(Event)
      /\ batch \in Seq(Event) /\ issued \in 0..MaxCommands
  BY DEF TypeOK, MainTypes, RefreshTypes, EventsTypes, SharedTypes, OrderTypes
<1>2. \A id \in 1..issued : id \in Ids
  BY <1>1, BoundsAssumption DEF Ids
<1>3. current' = NoCommand \/ workerPc' \in {"control", "judge", "report", "drained"}
  BY <1>0 DEF KeepInv, HandsInv
<1>4. CASE Requests \/ ShutdownNotify \/ Join \/ EventsDone
  <2>1. /\ UNCHANGED <<issued, answer, commands, failing, events, batch, awaiting>>
        /\ mainPc \notin {"failing"}
        /\ mainPc' \notin {"events", "status"} =>
               mainPc \notin {"events", "status"} \/ batch = <<>>
    BY <1>4 DEF Requests, HandleControl, LuaAction, HandleResume, HandleRefresh, Shutdown, Free,
       EventsDone, ShutdownNotify, Join, orderVars, refreshVars, eventVars, sharedVars
  <2>2. NoneLost'
    BY <1>0, <2>1 DEF KeepInv, NoneLost, Somewhere
  <2>3. failing' = <<>> /\ BatchInv'
    BY <2>1 DEF KeepInv, HandsInv, BatchInv
  <2>4. awaiting' \in Command => Automated(awaiting)'
    BY <2>1 DEF KeepInv, HandsInv, Automated
  <2>5. QED BY <1>3, <2>2, <2>3, <2>4 DEF KeepInv, HandsInv
<1>5. CASE PushControl \/ PushAutomated
  <2>1. /\ UNCHANGED <<answer, failing, events, batch, awaiting, mainPc>>
        /\ Enqueue(hand) \/ UNCHANGED <<issued, commands>>
    BY <1>5 DEF PushControl, PushAutomated, refreshVars, eventVars
  <2>2. NoneLost'
    <3>1. CASE UNCHANGED <<issued, commands>>
      BY <1>0, <2>1, <3>1 DEF KeepInv, NoneLost, Somewhere
    <3>2. CASE Enqueue(hand)
      <4>1. PICK c : c = [id |-> issued + 1, origin |-> hand] OBVIOUS
      <4>2. issued' = issued + 1 /\ commands' = Append(commands, c) /\ c.id = issued + 1
        BY <3>2, <4>1 DEF Enqueue
      <4>3. \A id \in 1..issued' : id \in 1..issued \/ id = c.id
        BY <1>1, <4>2, BoundsAssumption
      <4>4. QED
        BY <1>0, <1>1, <2>1, <4>2, <4>3, HoldsAppended DEF KeepInv, NoneLost, Somewhere
    <3>3. QED BY <2>1, <3>1, <3>2
  <2>3. BatchInv' /\ (mainPc' # "failing" => failing' = <<>>)
    BY <2>1 DEF KeepInv, HandsInv, BatchInv
  <2>4. awaiting' \in Command => Automated(awaiting)'
    BY <2>1 DEF KeepInv, HandsInv, Automated
  <2>5. QED BY <1>3, <2>2, <2>3, <2>4 DEF KeepInv, HandsInv
<1>6. CASE RefreshSwap
  <2>1. /\ mainPc = "refresh" /\ mainPc' = "failing"
        /\ failing' = commands /\ commands' = <<>>
        /\ UNCHANGED <<issued, answer, events, batch, awaiting>>
    BY <1>6 DEF RefreshSwap, orderVars, eventVars
  <2>2. failing = <<>> /\ batch = <<>>
    BY <2>1 DEF KeepInv, HandsInv, BatchInv
  <2>3. NoneLost'
    BY <1>0, <2>1, <2>2, HoldsNothing DEF KeepInv, NoneLost, Somewhere
  <2>4. awaiting' \in Command => Automated(awaiting)'
    BY <2>1 DEF KeepInv, HandsInv, Automated
  <2>5. QED BY <1>3, <2>1, <2>2, <2>3, <2>4 DEF KeepInv, HandsInv, BatchInv
<1>7. CASE RefreshFail
  <2>1. mainPc = "failing" /\ UNCHANGED <<issued, answer, commands, batch, awaiting>>
    BY <1>7 DEF RefreshFail, orderVars, eventVars
  <2>2. batch' = <<>>
    BY <2>1 DEF KeepInv, BatchInv
  <2>3. awaiting' \in Command => Automated(awaiting)'
    BY <2>1 DEF KeepInv, HandsInv, Automated
  <2>4. CASE failing = <<>>
    <3>1. UNCHANGED <<failing, events>>
      BY <1>7, <2>4 DEF RefreshFail
    <3>2. NoneLost'
      BY <1>0, <2>1, <3>1 DEF KeepInv, NoneLost, Somewhere
    <3>3. QED BY <1>3, <2>2, <2>3, <2>4, <3>1, <3>2 DEF KeepInv, HandsInv, BatchInv
  <2>5. CASE failing # <<>>
    <3>1. PICK e : e = Control(Head(failing), FALSE) OBVIOUS
    <3>2. /\ failing' = Tail(failing) /\ events' = Append(events, e) /\ mainPc' = mainPc
          /\ IsReport(e) /\ e.cmd = Head(failing)
      BY <1>7, <2>5, <3>1 DEF RefreshFail, IsReport, Control
    <3>3. NoneLost'
      BY <1>0, <1>1, <2>1, <2>5, <3>2, HoldsAppended, HoldsTail DEF KeepInv, NoneLost, Somewhere
    <3>4. QED BY <1>3, <2>1, <2>2, <2>3, <3>2, <3>3 DEF KeepInv, HandsInv, BatchInv
  <2>6. QED BY <2>4, <2>5
<1>8. CASE TakeEvents
  <2>1. /\ mainPc = "loop" /\ mainPc' = "events" /\ batch' = events /\ events' = <<>>
        /\ UNCHANGED <<issued, answer, commands, failing, awaiting>>
    BY <1>8 DEF TakeEvents, Free, orderVars, refreshVars
  <2>2. failing = <<>> /\ batch = <<>>
    BY <2>1 DEF KeepInv, HandsInv, BatchInv
  <2>3. NoneLost'
    BY <1>0, <2>1, <2>2, HoldsNothing DEF KeepInv, NoneLost, Somewhere
  <2>4. awaiting' \in Command => Automated(awaiting)'
    BY <2>1 DEF KeepInv, HandsInv, Automated
  <2>5. QED BY <1>3, <2>1, <2>2, <2>3, <2>4 DEF KeepInv, HandsInv, BatchInv
<1>9. CASE ProcessStart \/ ProcessEmpty
  <2>1. PICK kind \in {"start", "empty"} : Processing(kind) /\ UNCHANGED <<awaiting, answer>>
    BY <1>9 DEF ProcessStart, ProcessEmpty
  <2>2. kind # "control" BY <2>1
  <2>3. NoneLost'
    BY <1>2, <2>1, <2>2, KeepProcessing DEF KeepInv, NoneLost, Somewhere
  <2>4. awaiting' \in Command => Automated(awaiting)'
    BY <2>1 DEF KeepInv, HandsInv, Automated
  <2>5. QED BY <1>3, <2>1, <2>3, <2>4, KeepProcessing DEF KeepInv, HandsInv
<1>10. CASE ProcessError \/ ProcessStatus
  <2>1. PICK kind \in {"error", "status"}, outcome \in {"ok", "failed"} :
           Processing(kind) /\ ResolveAwaiting(outcome)
    BY <1>10 DEF ProcessError, ProcessStatus
  <2>2. kind # "control" BY <2>1
  <2>3. NoneLost'
    BY <1>2, <2>1, <2>2, KeepProcessing, KeepResolve DEF KeepInv, NoneLost, Somewhere
  <2>4. awaiting' \notin Command
    BY <2>1, KeepResolve, CommandId, BoundsAssumption DEF NoCommand, Ids
  <2>5. QED BY <1>3, <2>1, <2>3, <2>4, KeepProcessing DEF KeepInv, HandsInv
<1>11. CASE ProcessControl
  BY <1>11, KeepProcessControl
<1>12. QED BY <1>4, <1>5, <1>6, <1>7, <1>8, <1>9, <1>10, <1>11 DEF MainStep

LEMMA KeepInvSafe == Spec => []KeepInv
<1>1. Init => KeepInv
  <2>1. ASSUME Init PROVE NoneLost
    BY <2>1 DEF Init, NoneLost
  <2>2. NoCommand \notin Command
    BY BoundsAssumption DEF NoCommand, Command, Ids
  <2>3. QED BY <2>1, <2>2 DEF Init, KeepInv, HandsInv, BatchInv
<1>2. KeepInv /\ UNCHANGED vars => KeepInv'
  BY DEF KeepInv, NoneLost, Somewhere, HandsInv, BatchInv, Automated, vars, mainVars, workerVars,
     sharedVars, orderVars, refreshVars, eventVars, sessionVars
<1>3. QED BY <1>1, <1>2, KeepMain, KeepWorker, TypeCorrect, PTL DEF Spec, Next, Terminated

-----------------------------------------------------------------------------
(* One place: the record of WhereInv names it, and no queue holds twice. *)

\* What the record says of a place an order is found in.
LEMMA PlaceRecorded ==
  ASSUME TypeOK, NEW w, Placed(w), NEW id \in 1..issued, NEW p \in Places(id)
  PROVE  p[1] = w[id]
<1>1. /\ issued \in 0..MaxCommands /\ current \in Command \cup {NoCommand}
      /\ awaiting \in Command \cup {NoCommand}
  BY DEF TypeOK, MainTypes, EventsTypes, OrderTypes, SessionTypes
<1>2. id \in Ids /\ id # 0
  BY <1>1, BoundsAssumption DEF Ids
<1>3. CASE p \in OrderAt("commands", commands, id) \cup OrderAt("failing", failing, id)
  BY <1>3 DEF OrderAt, Placed, Located, Waits
<1>4. CASE p \in ReportAt("events", events, id) \cup ReportAt("batch", batch, id)
  BY <1>4 DEF ReportAt, Placed, Located, Carries, IsReport
<1>5. CASE p \in There("worker", current.id = id) \cup There("awaiting", awaiting.id = id)
  BY <1>1, <1>2, <1>5 DEF There, Placed, Located, NoCommand
<1>6. CASE p \in There("settled", answer[id] # "none")
  BY <1>2, <1>6 DEF There, Placed, Recorded
<1>7. QED BY <1>3, <1>4, <1>5, <1>6 DEF Places

\* Two places of one name are the same.
LEMMA PlaceOnce ==
  ASSUME DistinctInv, NEW id, NEW p \in Places(id), NEW q \in Places(id), p[1] = q[1]
  PROVE  p = q
<1>1. ASSUME NEW name, NEW queue, Distinct(queue), NEW a \in OrderAt(name, queue, id),
             NEW b \in OrderAt(name, queue, id)
      PROVE  a = b
  BY <1>1 DEF OrderAt, Distinct
<1>2. ASSUME NEW name, NEW queue, DistinctReports(queue), NEW a \in ReportAt(name, queue, id),
             NEW b \in ReportAt(name, queue, id)
      PROVE  a = b
  BY <1>2 DEF ReportAt, DistinctReports, IsReport
<1>3. /\ \A r \in OrderAt("commands", commands, id) : r[1] = "commands"
      /\ \A r \in OrderAt("failing", failing, id) : r[1] = "failing"
      /\ \A r \in ReportAt("events", events, id) : r[1] = "events"
      /\ \A r \in ReportAt("batch", batch, id) : r[1] = "batch"
      /\ \A r \in There("worker", current.id = id) : r = <<"worker", 0>>
      /\ \A r \in There("awaiting", awaiting.id = id) : r = <<"awaiting", 0>>
      /\ \A r \in There("settled", answer[id] # "none") : r = <<"settled", 0>>
  BY DEF OrderAt, ReportAt, There
<1>4. /\ \A a, b \in OrderAt("commands", commands, id) : a = b
      /\ \A a, b \in OrderAt("failing", failing, id) : a = b
      /\ \A a, b \in ReportAt("events", events, id) : a = b
      /\ \A a, b \in ReportAt("batch", batch, id) : a = b
  BY <1>1, <1>2 DEF DistinctInv
<1>5. QED BY <1>3, <1>4 DEF Places

\* An order that is somewhere has a place.
LEMMA PlaceFound ==
  ASSUME NEW id, Somewhere(id)
  PROVE  \E p : p \in Places(id)
<1>1. CASE HoldsOrder(commands, id) \/ HoldsOrder(failing, id)
  BY <1>1 DEF HoldsOrder, Places, OrderAt
<1>2. CASE HoldsReport(events, id) \/ HoldsReport(batch, id)
  BY <1>2 DEF HoldsReport, Places, ReportAt, IsReport
<1>3. CASE current.id = id \/ awaiting.id = id \/ answer[id] # "none"
  BY <1>3 DEF Places, There
<1>4. QED BY <1>1, <1>2, <1>3 DEF Somewhere

(***************************************************************************)
(* No order is lost and none is answered twice (EveryOrderInOnePlace):     *)
(* each accepted order is in one queue, once, or in the worker's hands, or *)
(* on its way back, or waiting for its confirmation, or answered.          *)
(***************************************************************************)
THEOREM NoOrderLost == Spec => []EveryOrderInOnePlace
<1>1. TypeOK /\ WhereInv /\ KeepInv => EveryOrderInOnePlace
  <2> SUFFICES ASSUME TypeOK, WhereInv, KeepInv, NEW id \in 1..issued
               PROVE  \E place \in Places(id) : Places(id) = {place}
    BY DEF EveryOrderInOnePlace
  <2>1. PICK w : Placed(w) BY DEF WhereInv, PlaceInv
  <2>2. PICK p : p \in Places(id)
    BY PlaceFound DEF KeepInv, NoneLost
  <2>3. \A q \in Places(id) : q = p
    BY <2>1, <2>2, PlaceRecorded, PlaceOnce DEF WhereInv
  <2>4. QED BY <2>2, <2>3
<1>2. Spec => []WhereInv
  BY WhereInit, LedgerStep, OrderInvSafe, TypeCorrect, PTL DEF Spec
<1>3. QED BY <1>1, <1>2, KeepInvSafe, TypeCorrect, PTL
=============================================================================
