-------------------------- MODULE WakePipe_proofs --------------------------
(***************************************************************************)
(* Proofs about WakePipe, for every size of the pipe and of a block.       *)
(***************************************************************************)
EXTENDS WakePipe, TLAPS

LEMMA QueueFacts ==
  ASSUME NEW S, NEW q \in Seq(S)
  PROVE  /\ \A e \in S : Append(q, e) \in Seq(S)
         /\ q # <<>> => Head(q) \in S /\ Tail(q) \in Seq(S)
         /\ <<>> \in Seq(S)
  OBVIOUS

LEMMA NumbersFact == posted \in 0..MaxPosts /\ posted < MaxPosts => posted + 1 \in Numbers
  BY SizesAssumption DEF Numbers

-----------------------------------------------------------------------------
(* Types *)

LEMMA TypeStep == TypeOK /\ [Next]_vars => TypeOK'
<1> SUFFICES ASSUME TypeOK, [Next]_vars PROVE TypeOK'
  OBVIOUS
<1> USE SizesAssumption
<1>1. ASSUME Queue PROVE posted' \in 0..MaxPosts /\ events' \in Seq(Numbers)
  <2>1. posted + 1 \in Numbers BY <1>1, NumbersFact DEF TypeOK, Queue
  <2>2. QED BY <1>1, <2>1 DEF TypeOK, Queue, Numbers
<1>2. ASSUME Write PROVE pipe' \in 0..Capacity
  BY <1>2 DEF TypeOK, Write
<1>3. CASE WorkerQueues \/ MainQueues
  BY <1>1, <1>3 DEF TypeOK, WorkerQueues, MainQueues
<1>4. CASE WorkerWrites \/ MainWrites
  BY <1>2, <1>4 DEF TypeOK, WorkerWrites, MainWrites
<1>5. CASE HandlersDone \/ Poll
  BY <1>5 DEF TypeOK, HandlersDone, Poll
<1>6. CASE Drain
  BY <1>6 DEF TypeOK, Drain
<1>7. CASE Swap
  BY <1>7, QueueFacts DEF TypeOK, Swap
<1>8. CASE ProcessEvent
  <2>1. Head(batch) \in Numbers /\ Tail(batch) \in Seq(Numbers)
    BY <1>8, QueueFacts DEF TypeOK, ProcessEvent
  <2>2. QED BY <1>8, <2>1 DEF TypeOK, ProcessEvent, Numbers
<1>9. CASE Processed
  BY <1>9 DEF TypeOK, Processed
<1>10. CASE UNCHANGED vars
  BY <1>10 DEF TypeOK, vars
<1>11. QED
  BY <1>3, <1>4, <1>5, <1>6, <1>7, <1>8, <1>9, <1>10 DEF Next, Main

\* Every variable keeps to its type, whatever the interleaving of the two posters.
THEOREM TypeCorrect == Spec => []TypeOK
<1>1. Init => TypeOK
  BY SizesAssumption, QueueFacts DEF Init, TypeOK
<1>2. QED BY <1>1, TypeStep, PTL DEF Spec

-----------------------------------------------------------------------------
(* No wake-up is lost *)

LEMMA WakeUpStep == TypeOK /\ WakeUpNotLost /\ [Next]_vars => WakeUpNotLost'
<1> SUFFICES ASSUME TypeOK, WakeUpNotLost, [Next]_vars PROVE WakeUpNotLost'
  OBVIOUS
<1>1. ASSUME Write PROVE pipe' > 0
  BY <1>1, SizesAssumption DEF TypeOK, Write
<1>2. CASE WorkerQueues
  BY <1>2 DEF WakeUpNotLost, WorkerQueues
<1>3. CASE MainQueues
  BY <1>3 DEF WakeUpNotLost, MainQueues
<1>4. CASE WorkerWrites \/ MainWrites
  BY <1>1, <1>4 DEF WakeUpNotLost, WorkerWrites, MainWrites
<1>5. CASE HandlersDone \/ Poll
  BY <1>5 DEF WakeUpNotLost, HandlersDone, Poll
<1>6. CASE Drain
  BY <1>6 DEF WakeUpNotLost, Drain
<1>7. CASE Swap
  BY <1>7 DEF WakeUpNotLost, Swap
<1>8. CASE ProcessEvent \/ Processed
  BY <1>8 DEF WakeUpNotLost, ProcessEvent, Processed
<1>9. CASE UNCHANGED vars
  BY <1>9 DEF WakeUpNotLost, vars
<1>10. QED
  BY <1>2, <1>3, <1>4, <1>5, <1>6, <1>7, <1>8, <1>9 DEF Next, Main

\* An event that waits has the pipe readable, or its poster about to write, or the
\* main thread about to take it: postEvent and processEvents never miss each other.
THEOREM WakeUpSafe == Spec => []WakeUpNotLost
<1>1. Init => WakeUpNotLost
  BY DEF Init, WakeUpNotLost
<1>2. QED BY <1>1, TypeCorrect, WakeUpStep, PTL DEF Spec

-----------------------------------------------------------------------------
(* The promise: every event once, in order *)

(***************************************************************************)
(* The local deque, which is empty outside its loop, and behind it the     *)
(* queue, hold the events between the last one processed and the last one  *)
(* posted.                                                                 *)
(***************************************************************************)
BatchInv == mainPc # "process" => batch = <<>>

ContentInv ==
    /\ processed + Len(batch) + Len(events) = posted
    /\ \A i \in 1..Len(batch) : batch[i] = processed + i
    /\ \A i \in 1..Len(events) : events[i] = processed + Len(batch) + i

OrderInv == BatchInv /\ ContentInv

LEMMA PosterContent ==
  ASSUME TypeOK, ContentInv, Queue, UNCHANGED <<batch, processed>>
  PROVE  ContentInv'
<1>1. /\ events \in Seq(Numbers) /\ batch \in Seq(Numbers) /\ posted \in Nat /\ processed \in Nat
      /\ Len(events) \in Nat /\ Len(batch) \in Nat
  BY SizesAssumption DEF TypeOK
<1>2. Len(events') = Len(events) + 1 /\ events'[Len(events) + 1] = posted + 1
  BY <1>1 DEF Queue
<1>3. \A i \in 1..Len(events) : events'[i] = events[i]
  BY <1>1 DEF Queue
<1>4. \A i \in 1..Len(events') : events'[i] = processed + Len(batch) + i
  <2>1. SUFFICES ASSUME NEW i \in 1..Len(events') PROVE events'[i] = processed + Len(batch) + i
    OBVIOUS
  <2>2. CASE i = Len(events) + 1 BY <1>1, <1>2, <2>2 DEF ContentInv
  <2>3. CASE i # Len(events) + 1
    <3>1. i \in 1..Len(events) BY <1>1, <1>2, <2>1, <2>3
    <3>2. QED BY <1>3, <3>1 DEF ContentInv
  <2>4. QED BY <2>2, <2>3
<1>5. processed + Len(batch) + Len(events') = posted'
  <2>1. processed + Len(batch) + Len(events) = posted BY DEF ContentInv
  <2>2. posted' = posted + 1 BY DEF Queue
  <2>3. QED BY <1>1, <1>2, <2>1, <2>2
<1>6. QED BY <1>4, <1>5 DEF ContentInv

LEMMA SwapContent ==
  ASSUME TypeOK, OrderInv, Swap
  PROVE  OrderInv'
<1>1. events \in Seq(Numbers) /\ posted \in Nat /\ processed \in Nat /\ Len(events) \in Nat
  BY SizesAssumption DEF TypeOK
<1>2. batch = <<>> /\ batch' = events /\ events' = <<>> /\ UNCHANGED <<posted, processed>>
  BY DEF OrderInv, BatchInv, Swap
<1>3. Len(batch) = 0 /\ Len(events') = 0 BY <1>2
<1>4. \A i \in 1..Len(events) : events[i] = processed + i
  BY <1>1, <1>3 DEF OrderInv, ContentInv
<1>5. processed + Len(events) = posted BY <1>1, <1>3 DEF OrderInv, ContentInv
<1>6. ContentInv' BY <1>1, <1>2, <1>3, <1>4, <1>5 DEF ContentInv
<1>7. QED BY <1>6 DEF OrderInv, BatchInv, Swap

LEMMA ProcessContent ==
  ASSUME TypeOK, OrderInv, ProcessEvent
  PROVE  OrderInv' /\ processed < posted /\ processed' = processed + 1
<1>1. /\ events \in Seq(Numbers) /\ batch \in Seq(Numbers) /\ posted \in Nat /\ processed \in Nat
      /\ Len(events) \in Nat /\ Len(batch) \in Nat
  BY SizesAssumption DEF TypeOK
<1>2. batch # <<>> /\ batch' = Tail(batch) /\ UNCHANGED <<events, posted>>
  BY DEF ProcessEvent
<1>3. /\ Len(batch) > 0 /\ Len(batch') = Len(batch) - 1
      /\ \A i \in 1..Len(batch') : batch'[i] = batch[i + 1]
  BY <1>1, <1>2
<1>4. processed' = processed + 1
  <2>1. 1 \in 1..Len(batch) /\ Head(batch) = batch[1] BY <1>1, <1>3
  <2>2. QED BY <2>1 DEF ProcessEvent, OrderInv, ContentInv
<1>5. processed < posted BY <1>1, <1>3 DEF OrderInv, ContentInv
<1>6. \A i \in 1..Len(batch') : batch'[i] = processed' + i
  <2>1. SUFFICES ASSUME NEW i \in 1..Len(batch') PROVE batch'[i] = processed' + i
    OBVIOUS
  <2>2. i + 1 \in 1..Len(batch) BY <1>1, <1>3
  <2>3. batch'[i] = processed + (i + 1) BY <1>3, <2>2 DEF OrderInv, ContentInv
  <2>4. QED BY <1>1, <1>4, <2>3
<1>7. processed' + Len(batch') = processed + Len(batch) BY <1>1, <1>3, <1>4
<1>8. ContentInv' BY <1>1, <1>2, <1>6, <1>7 DEF OrderInv, ContentInv
<1>9. QED BY <1>4, <1>5, <1>8 DEF OrderInv, BatchInv, ProcessEvent

LEMMA OrderStep == TypeOK /\ OrderInv /\ [Next]_vars => OrderInv' /\ [Promise!Next]_(Promise!vars)
<1> SUFFICES ASSUME TypeOK, OrderInv, [Next]_vars
             PROVE  OrderInv' /\ [Promise!Next]_(Promise!vars)
  OBVIOUS
<1>1. CASE WorkerQueues \/ MainQueues
  <2>1. ContentInv' BY <1>1, PosterContent DEF OrderInv, WorkerQueues, MainQueues
  <2>2. OrderInv' BY <1>1, <2>1 DEF OrderInv, BatchInv, WorkerQueues, MainQueues
  <2>3. Promise!Post BY <1>1 DEF WorkerQueues, MainQueues, Queue, Promise!Post
  <2>4. QED BY <2>2, <2>3 DEF Promise!Next
<1>2. CASE Swap
  BY <1>2, SwapContent DEF Swap, Promise!vars
<1>3. CASE ProcessEvent
  <2>1. Promise!Process BY <1>3, ProcessContent DEF ProcessEvent, Promise!Process
  <2>2. QED BY <1>3, <2>1, ProcessContent DEF Promise!Next
<1>4. CASE WorkerWrites \/ MainWrites \/ HandlersDone \/ Poll \/ Drain \/ Processed
  <2>1. UNCHANGED <<events, posted, batch, processed>>
    BY <1>4 DEF WorkerWrites, MainWrites, HandlersDone, Poll, Drain, Processed
  <2>2. mainPc' # "process" /\ mainPc = "process" => batch = <<>>
    BY <1>4 DEF WorkerWrites, MainWrites, HandlersDone, Poll, Drain, Processed
  <2>3. QED BY <2>1, <2>2 DEF OrderInv, BatchInv, ContentInv, Promise!vars
<1>5. CASE UNCHANGED vars
  BY <1>5 DEF vars, OrderInv, BatchInv, ContentInv, Promise!vars
<1>6. QED BY <1>1, <1>2, <1>3, <1>4, <1>5 DEF Next, Main

\* The pipe, the queue and the local deque together are a mailbox: events are
\* processed in the order of posting, none twice and none skipped.
THEOREM KeepsOrder == Spec => InOrder
<1>1. Init => OrderInv /\ Promise!Init
  BY DEF Init, OrderInv, BatchInv, ContentInv, Promise!Init
<1>2. QED BY <1>1, TypeCorrect, OrderStep, PTL DEF Spec, InOrder, Promise!SafeSpec

=============================================================================
