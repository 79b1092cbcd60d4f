---------------------------- MODULE DoorLockProofs ----------------------------
(***************************************************************************)
(* Theorems about the bolt, the transport queue and the True Status        *)
(* Engine's walk over the lifeline, for any lifeline, any queue sizes, any *)
(* number of triggers and any number of commands.                          *)
(***************************************************************************)
EXTENDS DoorLock, TableLemmas, SequenceTheorems, TLAPS

Holds(queue, event) == \E i \in 1 .. Len(queue) : queue[i] = event

-------------------------------------------------------------------------------
(* Sequences *)

LEMMA PushSeq ==
  ASSUME NEW S, NEW rest \in Seq(S), NEW x \in S
  PROVE  /\ <<x>> \o rest \in Seq(S)
         /\ Len(<<x>> \o rest) = Len(rest) + 1
         /\ (<<x>> \o rest)[1] = x
         /\ \A i \in 1 .. Len(rest) : (<<x>> \o rest)[i + 1] = rest[i]
<1>1. <<x>> \in Seq(S) /\ Len(<<x>>) = 1
  OBVIOUS
<1>2. Len(rest) \in Nat
  BY LenProperties
<1> QED BY <1>1, <1>2, ConcatProperties

LEMMA ToSetHolds ==
  ASSUME NEW queue \in Seq(Events), NEW event
  PROVE  event \in ToSet(queue) <=> Holds(queue, event)
<1>1. DOMAIN queue = 1 .. Len(queue)
  BY LenProperties
<1> QED BY <1>1 DEF ToSet, Holds

LEMMA EnqueueKeeps ==
  ASSUME NEW queue \in Seq(Events), NEW event \in Events
  PROVE  /\ Enqueued(queue, event) \in Seq(Events)
         /\ \A e : Holds(queue, e) => Holds(Enqueued(queue, event), e)
         /\ ~Full(queue, CcQueueSize) => Holds(Enqueued(queue, event), event)
<1>1. CASE Full(queue, CcQueueSize)
  BY <1>1 DEF Enqueued
<1>2. CASE ~Full(queue, CcQueueSize)
  <2> DEFINE longer == Append(queue, event)
  <2>1. Enqueued(queue, event) = longer
    BY <1>2 DEF Enqueued
  <2>2. /\ longer \in Seq(Events) /\ Len(longer) = Len(queue) + 1
        /\ \A i \in 1 .. Len(queue) : longer[i] = queue[i]
        /\ longer[Len(queue) + 1] = event
    BY AppendProperties
  <2>3. Len(queue) \in Nat
    BY LenProperties
  <2> HIDE DEF longer
  <2> QED BY <2>1, <2>2, <2>3 DEF Holds
<1> QED BY <1>1, <1>2

LEMMA TakeKeeps ==
  ASSUME NEW queue \in Seq(Events), queue # <<>>, NEW event, event # Head(queue)
  PROVE  Tail(queue) \in Seq(Events) /\ (Holds(queue, event) => Holds(Tail(queue), event))
<1>1. /\ Tail(queue) \in Seq(Events) /\ Len(Tail(queue)) = Len(queue) - 1
      /\ Len(queue) \in Nat \ {0} /\ Head(queue) = queue[1]
      /\ \A i \in 1 .. Len(Tail(queue)) : Tail(queue)[i] = queue[i + 1]
  BY TailSeq
<1>2. ASSUME Holds(queue, event) PROVE Holds(Tail(queue), event)
  <2>1. PICK i \in 1 .. Len(queue) : queue[i] = event
    BY <1>2 DEF Holds
  <2>2. i - 1 \in 1 .. Len(Tail(queue)) /\ Tail(queue)[i - 1] = event
    BY <1>1, <2>1
  <2> QED BY <2>2 DEF Holds
<1> QED BY <1>1, <1>2

-------------------------------------------------------------------------------
(* The bolt and its stored copy *)

\* The status is the one of a lock, and the queue holds its events.
LockShape ==
  /\ status \in [LockCallbacks -> LockReports]
  /\ status["operation"] \in [bolt : Modes, latch : {"open", "closed"}]
  /\ status["configuration"] \in [handles : BOOLEAN]
  /\ saved \in Modes
  /\ ccQueue \in Seq(Events)

Covered == Holds(ccQueue, "HW_OPERATION_DONE") \/ excuse # "none"

BoltInv == LockShape /\ (saved # bolt => Covered)

(***************************************************************************)
(* A step stores the bolt, moves it and queues the done event (or notes    *)
(* its loss), or leaves the bolt, the copy and the done event alone.       *)
(***************************************************************************)
BoltEffect ==
  /\ LockShape'
  /\ \/ saved' = bolt'
     \/ Covered'
     \/ bolt' = bolt /\ saved' = saved /\ (Covered => Covered')

LEMMA HwChange ==
  ASSUME LockShape, NEW mode \in Modes, NEW queue \in Seq(Events),
         cc_door_lock_mode_hw_change(mode, queue)
  PROVE  /\ saved' \in Modes => LockShape'
         /\ bolt' = mode
         /\ Full(queue, CcQueueSize) => ccQueue' = queue
         /\ ~Full(queue, CcQueueSize) => Holds(ccQueue', "HW_OPERATION_DONE")
<1>1. status' = [status EXCEPT !["operation"] = [@ EXCEPT !.bolt = mode]]
  BY DEF cc_door_lock_mode_hw_change
<1>2. /\ [status["operation"] EXCEPT !.bolt = mode] \in [bolt : Modes, latch : {"open", "closed"}]
      /\ [status["operation"] EXCEPT !.bolt = mode].bolt = mode
  BY DEF LockShape
<1>3. /\ status'["operation"] = [status["operation"] EXCEPT !.bolt = mode]
      /\ status'["configuration"] = status["configuration"]
  BY <1>1 DEF LockShape, LockCallbacks
<1>4. status' \in [LockCallbacks -> LockReports]
  BY <1>1, <1>2 DEF LockShape, LockReports
<1>5. "HW_OPERATION_DONE" \in Events
  BY DEF Events
<1>6. /\ ccQueue' \in Seq(Events)
      /\ ~Full(queue, CcQueueSize) => Holds(ccQueue', "HW_OPERATION_DONE")
  BY <1>5, EnqueueKeeps DEF cc_door_lock_mode_hw_change
<1>7. Full(queue, CcQueueSize) => ccQueue' = queue
  BY DEF cc_door_lock_mode_hw_change, Enqueued
<1> QED BY <1>2, <1>3, <1>4, <1>6, <1>7 DEF LockShape, bolt

\* A move by a command or the keypad is noted when its event is lost.
LEMMA NotedMove ==
  ASSUME LockShape, NEW mode \in Modes, NEW queue \in Seq(Events),
         cc_door_lock_mode_hw_change(mode, queue), excuse' = NotedLoss(queue),
         UNCHANGED saved
  PROVE  BoltEffect
<1>1. /\ LockShape'
      /\ Full(queue, CcQueueSize) => ccQueue' = queue
      /\ ~Full(queue, CcQueueSize) => Holds(ccQueue', "HW_OPERATION_DONE")
  BY HwChange DEF LockShape
<1>2. Full(queue, CcQueueSize) => Holds(queue, "HW_OPERATION_DONE") \/ excuse' = "event lost"
  BY ToSetHolds DEF NotedLoss
<1>3. Covered'
  BY <1>1, <1>2 DEF Covered
<1> QED BY <1>1, <1>3 DEF BoltEffect

LEMMA CommandBolt ==
  ASSUME LockShape, FromOutside
  PROVE  BoltEffect
<1>1. ASSUME NEW rx \in RemoteOptions, NEW mode \in Modes, OperationSet(rx, mode)
      PROVE  BoltEffect
  BY <1>1, NotedMove DEF OperationSet, LockShape
<1>2. ASSUME NEW rx \in RemoteOptions, ConfigurationSet(rx) PROVE BoltEffect
  <2> DEFINE turned == [status["configuration"] EXCEPT !.handles = ~status["configuration"].handles]
  <2>1. status' = [status EXCEPT !["configuration"] = turned]
    BY <1>2 DEF ConfigurationSet
  <2>2. turned \in [handles : BOOLEAN]
    BY DEF LockShape
  <2> HIDE DEF turned
  <2>3. status'["operation"] = status["operation"] /\ status'["configuration"] = turned
    BY <2>1 DEF LockShape, LockCallbacks
  <2>4. status' \in [LockCallbacks -> LockReports]
    BY <2>1, <2>2 DEF LockShape, LockReports
  <2>5. LockShape' /\ bolt' = bolt /\ saved' = bolt
    BY <1>2, <2>2, <2>3, <2>4 DEF ConfigurationSet, SaveStatus, LockShape, bolt
  <2> QED BY <2>5 DEF BoltEffect
<1>3. ASSUME NEW latch \in {"open", "closed"}, OutsideDoorHandleState(latch) PROVE BoltEffect
  <2>1. status' = [status EXCEPT !["operation"] = [@ EXCEPT !.latch = latch]]
    BY <1>3 DEF OutsideDoorHandleState
  <2>2. /\ [status["operation"] EXCEPT !.latch = latch] \in
             [bolt : Modes, latch : {"open", "closed"}]
        /\ [status["operation"] EXCEPT !.latch = latch].bolt = bolt
    BY DEF LockShape, bolt
  <2>3. /\ status'["operation"] = [status["operation"] EXCEPT !.latch = latch]
        /\ status'["configuration"] = status["configuration"]
    BY <2>1 DEF LockShape, LockCallbacks
  <2>4. status' \in [LockCallbacks -> LockReports]
    BY <2>1, <2>2 DEF LockShape, LockReports
  <2>5. LockShape' /\ bolt' = bolt
    BY <1>3, <2>2, <2>3, <2>4 DEF OutsideDoorHandleState, SaveStatus, LockShape, bolt
  <2> QED BY <1>3, <2>5 DEF OutsideDoorHandleState, SaveStatus, BoltEffect
<1>4. ASSUME NEW mode \in Modes, user_credential_handle_set(mode) PROVE BoltEffect
  <2> DEFINE queue == Enqueued(ccQueue, "VALIDATE")
  <2>1. queue \in Seq(Events) /\ \A e : Holds(ccQueue, e) => Holds(queue, e)
    BY EnqueueKeeps DEF LockShape, Events
  <2>2. CASE cc_door_lock_mode_hw_change(mode, queue) /\ excuse' = NotedLoss(queue)
    BY <1>4, <2>1, <2>2, NotedMove DEF user_credential_handle_set
  <2>3. CASE ccQueue' = queue /\ UNCHANGED <<status, excuse>>
    BY <1>4, <2>1, <2>3 DEF user_credential_handle_set, BoltEffect, LockShape, Covered, bolt
  <2> QED BY <1>4, <2>2, <2>3 DEF user_credential_handle_set
<1>5. CASE OtherEvent
  <2>1. /\ ccQueue' \in Seq(Events)
        /\ \A e : Holds(ccQueue, e) => Holds(ccQueue', e)
    BY <1>5, EnqueueKeeps DEF OtherEvent, LockShape, Events
  <2> QED BY <1>5, <2>1 DEF OtherEvent, statusVars, BoltEffect, LockShape, Covered, bolt
<1>6. CASE PowerLoss
  <2>1. status' = [status EXCEPT !["operation"] = [bolt |-> saved, latch |-> "closed"]]
    BY <1>6 DEF PowerLoss
  <2> QED BY <1>6, <2>1 DEF PowerLoss, BoltEffect, LockShape, LockReports, LockCallbacks, bolt
<1>7. ASSUME UNCHANGED <<ccQueue, saved, excuse>>, UNCHANGED status PROVE BoltEffect
  BY <1>7 DEF BoltEffect, LockShape, Covered, bolt
<1> QED BY <1>1, <1>2, <1>3, <1>4, <1>5, <1>6, <1>7
       DEF FromOutside, zaf_transport_pause, Reply

LEMMA EventBolt ==
  ASSUME LockShape, EventHandlerCC
  PROVE  BoltEffect
<1>1. ccQueue \in Seq(Events)
  BY DEF LockShape
<1>2. CASE OperationSetDone
  <2>1. ccQueue # <<>> /\ ccQueue' = Tail(ccQueue)
    BY <1>2 DEF OperationSetDone, Take
  <2>2. ccQueue' \in Seq(Events)
    BY <1>1, <2>1, TailSeq
  <2> QED BY <1>2, <2>2 DEF OperationSetDone, SaveStatus, BoltEffect, LockShape, bolt
<1>3. CASE CC_DoorLock_Toggle
  <2>1. ccQueue # <<>>
    BY <1>3 DEF CC_DoorLock_Toggle, Take
  <2>2. Tail(ccQueue) \in Seq(Events)
    BY <1>1, <2>1, TailSeq
  <2>3. Opposite(bolt) \in Modes
    BY DEF Opposite, Modes
  <2>4. bolt' = Opposite(bolt) /\ saved' = Opposite(bolt) /\ (saved' \in Modes => LockShape')
    BY <1>3, <2>2, <2>3, HwChange DEF CC_DoorLock_Toggle, SaveStatus
  <2> QED BY <2>3, <2>4 DEF BoltEffect
<1>4. CASE ValidationEvent
  <2>1. ccQueue # <<>> /\ "HW_OPERATION_DONE" # Head(ccQueue)
    BY <1>4 DEF ValidationEvent, Take
  <2>2. /\ Tail(ccQueue) \in Seq(Events)
        /\ Holds(ccQueue, "HW_OPERATION_DONE") => Holds(Tail(ccQueue), "HW_OPERATION_DONE")
    BY <1>1, <2>1, TakeKeeps
  <2>3. \/ ccQueue' = Tail(ccQueue)
        \/ \E event \in Events : ccQueue' = Enqueued(Tail(ccQueue), event)
    BY <1>4 DEF ValidationEvent, Events
  <2>4. /\ ccQueue' \in Seq(Events)
        /\ Holds(ccQueue, "HW_OPERATION_DONE") => Holds(ccQueue', "HW_OPERATION_DONE")
    BY <2>2, <2>3, EnqueueKeeps
  <2> QED BY <1>4, <2>4 DEF ValidationEvent, BoltEffect, LockShape, Covered, bolt
<1>5. CASE EventsHandled
  BY <1>5 DEF EventsHandled, lockVars, BoltEffect, LockShape, Covered, bolt
<1> QED BY <1>2, <1>3, <1>4, <1>5 DEF EventHandlerCC

\* Reports and transmissions leave the lock alone.
LEMMA EngineBolt ==
  ASSUME LockShape, Engine \/ UNCHANGED vars
  PROVE  BoltEffect
<1>1. UNCHANGED <<status, ccQueue, saved, excuse>>
  BY DEF Engine, TaskStep, QueueEmpty, HandOver, transport_callback, ZAF_TSE_TXCallback,
         TransmissionDone, TimerExpires, ZAF_TSE_TimerCallback, zaf_transport_resume,
         vars, lockVars, statusVars
<1> QED BY <1>1 DEF BoltEffect, LockShape, Covered, bolt

LEMMA BoltInvariant == Spec => []BoltInv
<1>1. Init => BoltInv
  <2> SUFFICES ASSUME Init PROVE BoltInv
    OBVIOUS
  <2>1. status = [operation |-> [bolt |-> "unsecure", latch |-> "closed"],
                  configuration |-> [handles |-> TRUE]]
    BY DEF Init
  <2>2. /\ status["operation"] = [bolt |-> "unsecure", latch |-> "closed"]
        /\ status["configuration"] = [handles |-> TRUE]
    BY <2>1
  <2>3. status \in [LockCallbacks -> LockReports]
    <3>0. /\ [bolt |-> "unsecure", latch |-> "closed"] \in LockReports
          /\ [handles |-> TRUE] \in LockReports
      BY DEF LockReports, Modes
    <3>1. \A c \in LockCallbacks : status[c] \in LockReports
      BY <2>2, <3>0 DEF LockCallbacks
    <3>2. status = [c \in LockCallbacks |-> status[c]]
      BY <2>1 DEF LockCallbacks
    <3> QED BY <3>1, <3>2
  <2> QED BY <2>2, <2>3 DEF Init, BoltInv, LockShape, Covered, Modes
<1>2. BoltInv /\ [Next]_vars => BoltInv'
  <2> SUFFICES ASSUME BoltInv, [Next]_vars PROVE BoltInv'
    OBVIOUS
  <2>1. BoltEffect
    BY CommandBolt, EventBolt, EngineBolt DEF BoltInv, Next
  <2> QED BY <2>1 DEF BoltInv, BoltEffect
<1> QED BY <1>1, <1>2, PTL DEF Spec

(***************************************************************************)
(* CC_DoorLock.c and hardware/cc_door_lock.c: the stored condition is the  *)
(* bolt's, or the done event that stores it is queued, unless that event   *)
(* was lost or reset has stored a locked bolt.                             *)
(***************************************************************************)
THEOREM BoltIsSaved == Spec => []SavedOrPending
<1>1. BoltInv => SavedOrPending
  BY ToSetHolds DEF BoltInv, LockShape, Covered, SavedOrPending
<1> QED BY <1>1, BoltInvariant, PTL

-------------------------------------------------------------------------------
(* The transport queue *)

TaskSteps == {"transport_tx", "transport_callback", "ZAF_TSE_TXCallback", "EventHandlerCC"}

\* The queue holds real frames.
RealFrames(queue) == \E S : NoFrame \notin S /\ queue \in Seq(S)

\* Something on the stack will look at the queue again.
Sending(stack) ==
  \E i \in 1 .. Len(stack) : stack[i] \in {"transport_tx", "transport_callback"}

\* The loop over the events is only entered from an idle task.
LoopOutermost(stack) ==
  \A i \in 1 .. Len(stack) : stack[i] = "EventHandlerCC" => i = Len(stack)

Stack(stack) == stack \in Seq(TaskSteps) /\ LoopOutermost(stack)

\* Busy means that a callback is to come, and a queued frame waits for something.
Waits(stack) ==
  /\ busy => air # NoFrame \/ Sending(stack)
  /\ txQueue # <<>> => air # NoFrame \/ paused \/ Sending(stack)

\* The options of a report that is to be answered name a node.
Answerable == rxOption.statusUpdate => rxOption.node \in Nodes

TransportInv == RealFrames(txQueue) /\ Stack(task) /\ Waits(task) /\ Answerable

LEMMA PushStack ==
  ASSUME NEW rest, Stack(rest), NEW step \in TaskSteps, step # "EventHandlerCC"
  PROVE  /\ Stack(<<step>> \o rest)
         /\ Sending(rest) => Sending(<<step>> \o rest)
         /\ step \in {"transport_tx", "transport_callback"} => Sending(<<step>> \o rest)
<1> DEFINE stack == <<step>> \o rest
<1>1. /\ stack \in Seq(TaskSteps) /\ Len(stack) = Len(rest) + 1 /\ stack[1] = step
      /\ \A i \in 1 .. Len(rest) : stack[i + 1] = rest[i]
  BY PushSeq DEF Stack
<1>2. Len(rest) \in Nat
  BY LenProperties DEF Stack
<1> HIDE DEF stack
<1>3. LoopOutermost(stack)
  <2> SUFFICES ASSUME NEW i \in 1 .. Len(stack), stack[i] = "EventHandlerCC"
               PROVE  i = Len(stack)
    BY DEF LoopOutermost
  <2>1. i # 1
    BY <1>1
  <2>2. i - 1 \in 1 .. Len(rest) /\ rest[i - 1] = "EventHandlerCC"
    BY <1>1, <1>2, <2>1
  <2> QED BY <1>1, <1>2, <2>2 DEF Stack, LoopOutermost
<1>4. Sending(rest) => Sending(stack)
  <2> SUFFICES ASSUME NEW i \in 1 .. Len(rest),
                      rest[i] \in {"transport_tx", "transport_callback"}
               PROVE  Sending(stack)
    BY DEF Sending
  <2>1. i + 1 \in 1 .. Len(stack) /\ stack[i + 1] = rest[i]
    BY <1>1, <1>2
  <2> QED BY <2>1 DEF Sending
<1>5. step \in {"transport_tx", "transport_callback"} => Sending(stack)
  <2>1. 1 \in 1 .. Len(stack)
    BY <1>1, <1>2
  <2> QED BY <1>1, <2>1 DEF Sending
<1> QED BY <1>1, <1>3, <1>4, <1>5 DEF Stack, stack

LEMMA PopStack ==
  ASSUME NEW stack, Stack(stack), stack # <<>>
  PROVE  /\ Stack(Tail(stack))
         /\ Sending(stack) /\ Head(stack) \notin {"transport_tx", "transport_callback"}
              => Sending(Tail(stack))
         /\ Head(stack) = "EventHandlerCC" => ~Sending(stack)
<1>1. /\ Tail(stack) \in Seq(TaskSteps) /\ Len(stack) \in Nat \ {0}
      /\ Len(Tail(stack)) = Len(stack) - 1 /\ Head(stack) = stack[1]
      /\ \A i \in 1 .. Len(Tail(stack)) : Tail(stack)[i] = stack[i + 1]
  BY TailSeq DEF Stack
<1>2. LoopOutermost(Tail(stack))
  <2> SUFFICES ASSUME NEW i \in 1 .. Len(Tail(stack)), Tail(stack)[i] = "EventHandlerCC"
               PROVE  i = Len(Tail(stack))
    BY DEF LoopOutermost
  <2>1. i + 1 \in 1 .. Len(stack) /\ stack[i + 1] = "EventHandlerCC"
    BY <1>1
  <2>2. LoopOutermost(stack)
    BY DEF Stack
  <2>3. i + 1 = Len(stack)
    BY <2>1, <2>2 DEF LoopOutermost
  <2>4. i \in Nat /\ Len(stack) \in Nat /\ Len(Tail(stack)) = Len(stack) - 1
    BY <1>1
  <2> QED BY <2>3, <2>4
<1>3. ASSUME Sending(stack), Head(stack) \notin {"transport_tx", "transport_callback"}
      PROVE  Sending(Tail(stack))
  <2>1. PICK i \in 1 .. Len(stack) : stack[i] \in {"transport_tx", "transport_callback"}
    BY <1>3 DEF Sending
  <2>2. i - 1 \in 1 .. Len(Tail(stack)) /\ Tail(stack)[i - 1] = stack[i]
    BY <1>1, <1>3, <2>1
  <2> QED BY <2>1, <2>2 DEF Sending
<1>4. ASSUME Head(stack) = "EventHandlerCC" PROVE ~Sending(stack)
  <2>0. LoopOutermost(stack) /\ 1 \in 1 .. Len(stack)
    BY <1>1 DEF Stack
  <2>1. Len(stack) = 1
    BY <1>1, <1>4, <2>0 DEF LoopOutermost
  <2> QED BY <1>1, <1>4, <2>1 DEF Sending
<1> QED BY <1>1, <1>2, <1>3, <1>4 DEF Stack

LEMMA SmallStacks ==
  /\ Stack(<<>>) /\ ~Sending(<<>>)
  /\ Stack(Loop) /\ ~Sending(Loop)
  /\ Stack(<<"transport_tx">>) /\ Sending(<<"transport_tx">>)
  /\ Stack(<<"transport_callback">>) /\ Sending(<<"transport_callback">>)
  /\ Stack(<<"ZAF_TSE_TXCallback">>)
BY DEF Stack, LoopOutermost, Sending, Loop, TaskSteps

\* Sending a frame, whatever the caller goes on with.
LEMMA SendFrame ==
  ASSUME NEW rest, Stack(rest), Waits(rest), RealFrames(txQueue),
         NEW frame, frame # NoFrame, zaf_transport_tx(frame, rest),
         UNCHANGED <<busy, paused, air>>
  PROVE  RealFrames(txQueue)' /\ Stack(task') /\ Waits(task)'
<1>1. CASE task' = rest /\ UNCHANGED txQueue
  <2>1. RealFrames(txQueue)'
    BY <1>1 DEF RealFrames
  <2>2. Stack(task')
    BY <1>1
  <2>3. Waits(task)'
    BY <1>1 DEF Waits
  <2> QED BY <2>1, <2>2, <2>3
<1>2. CASE /\ txQueue' = Append(txQueue, frame)
           /\ task' = IF busy \/ paused THEN rest ELSE <<"transport_tx">> \o rest
  <2>1. RealFrames(txQueue')
    <3>1. PICK S : NoFrame \notin S /\ txQueue \in Seq(S)
      BY DEF RealFrames
    <3>2. txQueue \in Seq(S \cup {frame})
      BY <3>1, SeqMonotonic
    <3>3. Append(txQueue, frame) \in Seq(S \cup {frame})
      BY <3>2, AppendProperties
    <3> QED BY <1>2, <3>1, <3>3 DEF RealFrames
  <2>2. CASE busy \/ paused
    BY <1>2, <2>1, <2>2 DEF Waits
  <2>3. CASE ~(busy \/ paused)
    <3>1. Stack(<<"transport_tx">> \o rest) /\ Sending(<<"transport_tx">> \o rest)
      BY PushStack DEF TaskSteps
    <3> QED BY <1>2, <2>1, <2>3, <3>1 DEF Waits
  <2> QED BY <2>2, <2>3
<1> QED BY <1>1, <1>2 DEF zaf_transport_tx

LEMMA TransmissionStep ==
  ASSUME TransportInv,
         QueueEmpty \/ HandOver \/ transport_callback \/ TransmissionDone
           \/ zaf_transport_pause \/ zaf_transport_resume
  PROVE  TransportInv'
<1>0. Answerable'
  BY DEF TransportInv, Answerable, QueueEmpty, HandOver, transport_callback, TransmissionDone,
         zaf_transport_pause, zaf_transport_resume
<1>1. CASE QueueEmpty
  <2>1. Stack(Return)
    BY <1>1, PopStack DEF QueueEmpty, Running, Return, TransportInv
  <2>2. Waits(task)'
    BY <1>1 DEF QueueEmpty, Waits
  <2> QED BY <1>0, <1>1, <2>1, <2>2 DEF QueueEmpty, TransportInv, RealFrames
<1>2. CASE HandOver
  <2>1. Stack(Return)
    BY <1>2, PopStack DEF HandOver, Running, Return, TransportInv
  <2>2. Stack(<<"transport_callback">> \o Return)
    BY <2>1, PushStack DEF TaskSteps
  <2>3. PICK S : NoFrame \notin S /\ txQueue \in Seq(S)
    BY DEF TransportInv, RealFrames
  <2>4. txQueue # <<>> /\ air' = Head(txQueue) /\ txQueue' = Tail(txQueue)
    BY <1>2 DEF HandOver
  <2>5. Head(txQueue) \in S /\ Tail(txQueue) \in Seq(S)
    BY <2>3, <2>4, TailSeq
  <2>6. air' # NoFrame /\ RealFrames(txQueue)'
    BY <2>3, <2>4, <2>5 DEF RealFrames
  <2>7. Stack(task')
    BY <1>2, <2>1, <2>2 DEF HandOver
  <2> QED BY <1>0, <2>6, <2>7 DEF TransportInv, Waits
<1>3. CASE transport_callback
  <2>1. Stack(Return)
    BY <1>3, PopStack DEF transport_callback, Running, Return, TransportInv
  <2> DEFINE next == IF paused THEN Return ELSE <<"transport_tx">> \o Return
  <2>2. Stack(next) /\ (~paused => Sending(next))
    BY <2>1, PushStack DEF TaskSteps
  <2>3. task' = next \/ task' = <<"ZAF_TSE_TXCallback">> \o next
    BY <1>3 DEF transport_callback
  <2> HIDE DEF next
  <2>4. Stack(task') /\ (~paused => Sending(task'))
    BY <2>2, <2>3, PushStack DEF TaskSteps
  <2>5. Waits(task)'
    BY <1>3, <2>4 DEF transport_callback, Waits
  <2>6. RealFrames(txQueue)'
    BY <1>3 DEF transport_callback, RealFrames, TransportInv
  <2> QED BY <1>0, <2>4, <2>5, <2>6 DEF TransportInv
<1>4. CASE TransmissionDone
  <2>1. RealFrames(txQueue)'
    BY <1>4 DEF TransmissionDone, transportVars, RealFrames, TransportInv
  <2>2. Stack(task') /\ Sending(task')
    BY <1>4, SmallStacks DEF TransmissionDone
  <2> QED BY <1>0, <2>1, <2>2 DEF TransportInv, Waits
<1>5. CASE zaf_transport_pause
  <2>1. RealFrames(txQueue)'
    BY <1>5 DEF zaf_transport_pause, RealFrames, TransportInv
  <2>2. Stack(task') /\ Waits(task)'
    BY <1>5 DEF zaf_transport_pause, TransportInv, Waits
  <2> QED BY <1>0, <2>1, <2>2 DEF TransportInv
<1>6. CASE zaf_transport_resume
  <2>1. RealFrames(txQueue)'
    BY <1>6 DEF zaf_transport_resume, RealFrames, TransportInv
  <2>2. CASE busy
    <3>1. air # NoFrame /\ task' = <<>>
      BY <1>6, <2>2, SmallStacks DEF zaf_transport_resume, Idle, TransportInv, Waits
    <3> QED BY <1>0, <1>6, <2>1, <3>1, SmallStacks DEF zaf_transport_resume, TransportInv, Waits
  <2>3. CASE ~busy
    <3>1. Stack(task') /\ Sending(task')
      BY <1>6, <2>3, SmallStacks DEF zaf_transport_resume
    <3> QED BY <1>0, <2>1, <3>1 DEF TransportInv, Waits
  <2> QED BY <2>2, <2>3
<1> QED BY <1>1, <1>2, <1>3, <1>4, <1>5, <1>6

\* A report has a third field and a reply a node, which NoFrame has not.
LEMMA FramesAreReal ==
  /\ \A to, by, says : [to |-> to, by |-> by, says |-> says] # NoFrame
  /\ \A to \in Nodes : [to |-> to, by |-> NoCallback] # NoFrame
<1>1. ASSUME NEW to, NEW by, NEW says PROVE [to |-> to, by |-> by, says |-> says] # NoFrame
  <2>1. DOMAIN [to |-> to, by |-> by, says |-> says] = {"to", "by", "says"}
    OBVIOUS
  <2>2. DOMAIN NoFrame = {"to", "by"}
    BY DEF NoFrame
  <2> QED BY <2>1, <2>2
<1>2. ASSUME NEW to \in Nodes PROVE [to |-> to, by |-> NoCallback] # NoFrame
  BY LifelineAssumption DEF NoFrame
<1> QED BY <1>1, <1>2

LEMMA ReportStep ==
  ASSUME TransportInv, ZAF_TSE_TimerCallback \/ ZAF_TSE_TXCallback
  PROVE  TransportInv'
<1>0. Answerable'
  BY DEF TransportInv, Answerable, ZAF_TSE_TimerCallback, ZAF_TSE_TXCallback
<1>1. ASSUME NEW s, NEW rest, Stack(rest), Waits(rest), InvokeRegisteredCallback(s, rest),
             UNCHANGED <<busy, paused, air>>
      PROVE  TransportInv'
  <2> DEFINE frame == [to |-> CurrentNode(s), by |-> s.callback, says |-> status[s.callback]]
  <2>1. frame # NoFrame /\ zaf_transport_tx(frame, rest)
    BY <1>1, FramesAreReal DEF InvokeRegisteredCallback
  <2> HIDE DEF frame
  <2> QED BY <1>0, <1>1, <2>1, SendFrame DEF TransportInv
<1>2. ASSUME NEW rest, Stack(rest), Waits(rest), task' = rest,
             UNCHANGED <<txQueue, busy, paused, air>>
      PROVE  TransportInv'
  <2>1. RealFrames(txQueue)'
    BY <1>2 DEF RealFrames, TransportInv
  <2>2. Waits(task)'
    BY <1>2 DEF Waits
  <2> QED BY <1>0, <1>2, <2>1, <2>2 DEF TransportInv
<1>3. CASE ZAF_TSE_TimerCallback
  <2>1. task = <<>> /\ UNCHANGED <<busy, paused, air>>
    BY <1>3 DEF ZAF_TSE_TimerCallback, Idle
  <2>2. Waits(<<>>) /\ Stack(<<>>)
    BY <2>1 DEF TransportInv
  <2>3. Waits(<<"ZAF_TSE_TXCallback">>) /\ Stack(<<"ZAF_TSE_TXCallback">>)
    BY <2>2, SmallStacks DEF Waits
  <2>4. CASE task' = <<"ZAF_TSE_TXCallback">> /\ UNCHANGED txQueue
    BY <1>2, <2>1, <2>3, <2>4
  <2>5. CASE InvokeRegisteredCallback(slot[current], <<>>)
    BY <1>1, <2>1, <2>2, <2>5
  <2> QED BY <1>3, <2>4, <2>5 DEF ZAF_TSE_TimerCallback
<1>4. CASE ZAF_TSE_TXCallback
  <2>1. task # <<>> /\ Head(task) = "ZAF_TSE_TXCallback" /\ UNCHANGED <<busy, paused, air>>
    BY <1>4 DEF ZAF_TSE_TXCallback, Running
  <2>2. Stack(task) /\ Waits(task)
    BY DEF TransportInv
  <2>3. Stack(Return) /\ (Sending(task) => Sending(Return))
    BY <2>1, <2>2, PopStack DEF Return
  <2>4. Waits(Return)
    BY <2>2, <2>3 DEF Waits
  <2>5. CASE task' = Return /\ UNCHANGED txQueue
    BY <1>2, <2>1, <2>3, <2>4, <2>5
  <2>6. CASE UNCHANGED <<txQueue, task>>
    BY <1>2, <2>1, <2>2, <2>6
  <2>7. CASE InvokeRegisteredCallback(Advanced[NextTrigger], Return)
    BY <1>1, <2>1, <2>3, <2>4, <2>7
  <2> QED BY <1>4, <2>5, <2>6, <2>7 DEF ZAF_TSE_TXCallback
<1> QED BY <1>3, <1>4

LEMMA EventStep ==
  ASSUME TransportInv, EventHandlerCC
  PROVE  TransportInv'
<1>1. ASSUME HandlingCC
      PROVE  ~Sending(task)
  <2>1. CASE task = <<>>
    BY <2>1, SmallStacks
  <2>2. CASE task # <<>> /\ Head(task) = "EventHandlerCC"
    BY <2>2, PopStack DEF TransportInv
  <2> QED BY <1>1, <2>1, <2>2 DEF HandlingCC, Idle, Running
<1>2. ASSUME HandlingCC PROVE Waits(Loop) /\ Waits(<<>>)
  BY <1>1, <1>2, SmallStacks DEF TransportInv, Waits
<1>3. ASSUME HandlingCC, task' \in {Loop, <<>>}, UNCHANGED transportVars, Answerable'
      PROVE  TransportInv'
  <2>1. RealFrames(txQueue)'
    BY <1>3 DEF RealFrames, TransportInv, transportVars
  <2>2. Stack(task') /\ Waits(task)'
    BY <1>2, <1>3, SmallStacks DEF Waits, transportVars
  <2> QED BY <1>3, <2>1, <2>2 DEF TransportInv
<1>4. CASE OperationSetDone
  <2>1. HandlingCC /\ UNCHANGED <<busy, paused, air, rxOption>>
    BY <1>4 DEF OperationSetDone, Take
  <2>2. Answerable'
    BY <2>1 DEF TransportInv, Answerable
  <2>3. CASE rxOption.statusUpdate
    <3> DEFINE frame == [to |-> rxOption.node, by |-> NoCallback]
    <3>1. frame # NoFrame
      BY <2>3, FramesAreReal DEF TransportInv, Answerable
    <3>2. zaf_transport_tx(frame, Loop)
      BY <1>4, <2>3 DEF OperationSetDone
    <3> HIDE DEF frame
    <3> QED BY <1>2, <2>1, <2>2, <3>1, <3>2, SendFrame, SmallStacks DEF TransportInv
  <2>4. CASE ~rxOption.statusUpdate
    BY <1>3, <1>4, <2>1, <2>2, <2>4 DEF OperationSetDone, transportVars
  <2> QED BY <2>3, <2>4
<1>5. CASE CC_DoorLock_Toggle
  <2>1. Answerable'
    BY <1>5 DEF CC_DoorLock_Toggle, Answerable, Cleared
  <2> QED BY <1>3, <1>5, <2>1 DEF CC_DoorLock_Toggle, Take
<1>6. CASE ValidationEvent
  <2>1. Answerable'
    BY <1>6 DEF ValidationEvent, Answerable, TransportInv
  <2> QED BY <1>3, <1>6, <2>1 DEF ValidationEvent, Take
<1>7. CASE EventsHandled
  <2>1. Answerable'
    BY <1>7 DEF EventsHandled, Answerable, TransportInv
  <2>2. Stack(task') /\ task # <<>> /\ Head(task) = "EventHandlerCC" /\ task' = Tail(task)
    BY <1>7, PopStack DEF EventsHandled, Running, Return, TransportInv
  <2>3. ~Sending(task)
    BY <1>1, <1>7 DEF EventsHandled, HandlingCC
  <2>4. Waits(task)'
    BY <1>7, <2>3 DEF EventsHandled, transportVars, TransportInv, Waits
  <2>5. RealFrames(txQueue)'
    BY <1>7 DEF EventsHandled, RealFrames, TransportInv, transportVars
  <2> QED BY <2>1, <2>2, <2>4, <2>5 DEF TransportInv
<1> QED BY <1>4, <1>5, <1>6, <1>7 DEF EventHandlerCC

LEMMA OutsideStep ==
  ASSUME TransportInv, FromOutside \/ TimerExpires \/ UNCHANGED vars
  PROVE  TransportInv'
<1>1. ASSUME UNCHANGED <<transportVars, task>>, Answerable' PROVE TransportInv'
  <2>1. RealFrames(txQueue)'
    BY <1>1 DEF RealFrames, TransportInv, transportVars
  <2>2. Stack(task') /\ Waits(task)'
    BY <1>1 DEF TransportInv, Waits, transportVars
  <2> QED BY <1>1, <2>1, <2>2 DEF TransportInv
<1>2. ASSUME UNCHANGED rxOption PROVE Answerable'
  BY <1>2 DEF Answerable, TransportInv
<1>3. ASSUME rxOption' \in RemoteOptions \cup {Cleared} PROVE Answerable'
  BY <1>3 DEF Answerable, RemoteOptions, Cleared
<1>4. ASSUME NEW rx \in RemoteOptions, NEW mode \in Modes, OperationSet(rx, mode)
      PROVE  TransportInv'
  BY <1>1, <1>3, <1>4 DEF OperationSet
<1>5. ASSUME NEW rx \in RemoteOptions, ConfigurationSet(rx) PROVE TransportInv'
  BY <1>1, <1>3, <1>5 DEF ConfigurationSet
<1>6. ASSUME NEW latch, OutsideDoorHandleState(latch) PROVE TransportInv'
  BY <1>1, <1>3, <1>6 DEF OutsideDoorHandleState
<1>7. ASSUME NEW mode, user_credential_handle_set(mode) PROVE TransportInv'
  BY <1>1, <1>2, <1>7 DEF user_credential_handle_set
<1>8. CASE OtherEvent \/ TimerExpires \/ UNCHANGED vars
  BY <1>1, <1>2, <1>8 DEF OtherEvent, TimerExpires, vars, statusVars
<1>9. CASE PowerLoss
  <2>1. txQueue' = <<>> /\ task' = <<>> /\ ~busy'
    BY <1>9 DEF PowerLoss
  <2>2. RealFrames(txQueue)'
    <3>1. <<>> \in Seq({}) /\ NoFrame \notin {}
      OBVIOUS
    <3> QED BY <2>1, <3>1 DEF RealFrames
  <2>3. Waits(task)'
    BY <2>1 DEF Waits
  <2>4. Answerable'
    BY <1>3, <1>9 DEF PowerLoss
  <2> QED BY <2>1, <2>2, <2>3, <2>4, SmallStacks DEF TransportInv
<1>10. CASE zaf_transport_pause
  BY <1>10, TransmissionStep
<1>11. ASSUME NEW n \in Nodes, Reply(n) PROVE TransportInv'
  <2> DEFINE frame == [to |-> n, by |-> NoCallback]
  <2>1. frame # NoFrame
    BY FramesAreReal
  <2>2. /\ task = <<>> /\ zaf_transport_tx(frame, <<>>)
        /\ UNCHANGED <<busy, paused, air, rxOption>>
    BY <1>11 DEF Reply, Idle
  <2>3. Stack(<<>>) /\ Waits(<<>>)
    BY <2>2 DEF TransportInv
  <2> HIDE DEF frame
  <2> QED BY <1>2, <2>1, <2>2, <2>3, SendFrame DEF TransportInv
<1> QED BY <1>4, <1>5, <1>6, <1>7, <1>8, <1>9, <1>10, <1>11 DEF FromOutside

LEMMA TransportInvariant == Spec => []TransportInv
<1>1. Init => TransportInv
  <2> SUFFICES ASSUME Init PROVE TransportInv
    OBVIOUS
  <2>1. <<>> \in Seq({}) /\ NoFrame \notin {}
    OBVIOUS
  <2>2. RealFrames(txQueue)
    BY <2>1 DEF Init, StatusInit, RealFrames
  <2>3. Stack(task) /\ Waits(task)
    BY SmallStacks DEF Init, StatusInit, Waits
  <2>4. Answerable
    BY DEF Init, StatusInit, Answerable
  <2> QED BY <2>2, <2>3, <2>4 DEF TransportInv
<1>2. TransportInv /\ [Next]_vars => TransportInv'
  BY TransmissionStep, ReportStep, EventStep, OutsideStep DEF Next, Engine, TaskStep
<1> QED BY <1>1, <1>2, PTL DEF Spec

(***************************************************************************)
(* zaf_transport_tx.c: whatever pauses, resumes, refusals and nested       *)
(* callbacks there are, no frame is left in the queue of an idle task      *)
(* without a transmission or a resume to come.                             *)
(***************************************************************************)
THEOREM QueueIsServed == Spec => []QueueServed
<1>1. TransportInv => QueueServed
  BY SmallStacks DEF TransportInv, Waits, QueueServed, Idle
<1> QED BY <1>1, TransportInvariant, PTL

-------------------------------------------------------------------------------
(* The walk over the lifeline *)

\* The call stacks of the application task: at most one of the transport's functions is under
\* way, and a trigger's callback runs alone or inside transport_callback.
Outer == {<<>>, Loop}
Inner == {"transport_tx", "transport_callback", "ZAF_TSE_TXCallback"}

CallStack(stack) ==
  \/ stack \in Outer
  \/ \E step \in Inner, rest \in Outer : stack = <<step>> \o rest
  \/ \E rest \in Outer : stack = <<"ZAF_TSE_TXCallback">> \o (<<"transport_tx">> \o rest)

\* The queue hands a frame over only when the protocol has none.
ControlInv ==
  /\ CallStack(task)
  /\ air # NoFrame => busy
  /\ task # <<>> /\ Head(task) = "transport_tx" => air = NoFrame
  /\ task # <<>> /\ Head(task) = "ZAF_TSE_TXCallback" /\ Tail(task) \notin Outer =>
       busy /\ air = NoFrame

LEMMA PopPush ==
  ASSUME NEW step \in TaskSteps, NEW rest \in Seq(TaskSteps)
  PROVE  /\ <<step>> \o rest \in Seq(TaskSteps) /\ <<step>> \o rest # <<>>
         /\ Head(<<step>> \o rest) = step /\ Tail(<<step>> \o rest) = rest
<1> DEFINE stack == <<step>> \o rest
<1>1. /\ stack \in Seq(TaskSteps) /\ Len(stack) = Len(rest) + 1 /\ stack[1] = step
      /\ \A i \in 1 .. Len(rest) : stack[i + 1] = rest[i]
  BY PushSeq
<1>2. Len(rest) \in Nat
  BY LenProperties
<1> HIDE DEF stack
<1>3. stack # <<>>
  BY <1>1, <1>2, EmptySeq
<1>4. /\ Head(stack) = step /\ Tail(stack) \in Seq(TaskSteps) /\ Len(Tail(stack)) = Len(rest)
      /\ \A i \in 1 .. Len(rest) : Tail(stack)[i] = rest[i]
  BY <1>1, <1>2, <1>3, TailSeq
<1>5. Tail(stack) = rest
  BY <1>2, <1>4, SeqEqual
<1> QED BY <1>1, <1>3, <1>4, <1>5 DEF stack

LEMMA OuterStacks ==
  ASSUME NEW rest \in Outer
  PROVE  /\ rest \in Seq(TaskSteps) /\ CallStack(rest)
         /\ rest # <<>> => Head(rest) = "EventHandlerCC" /\ Tail(rest) = <<>>
<1>1. rest \in Seq(TaskSteps) /\ (rest # <<>> => rest = <<"EventHandlerCC">>)
  <2>1. <<>> \in Seq(TaskSteps) /\ <<"EventHandlerCC">> \in Seq(TaskSteps)
    BY DEF TaskSteps
  <2>2. rest = <<>> \/ rest = <<"EventHandlerCC">>
    BY Zenon DEF Outer, Loop
  <2> QED BY <2>1, <2>2, Zenon
<1>2. CallStack(rest)
  BY DEF CallStack
<1>3. Head(<<"EventHandlerCC">>) = "EventHandlerCC" /\ Tail(<<"EventHandlerCC">>) = <<>>
  <2>1. PICK one : one = <<"EventHandlerCC">>
    OBVIOUS
  <2>2. one \in Seq(TaskSteps) /\ Len(one) = 1 /\ one # <<>> /\ one[1] = "EventHandlerCC"
    BY <2>1 DEF TaskSteps
  <2>3. Tail(one) \in Seq(TaskSteps) /\ Len(Tail(one)) = 0 /\ Head(one) = one[1]
    BY <2>2, TailSeq
  <2>4. Tail(one) = <<>>
    BY <2>3, EmptySeq
  <2> QED BY <2>1, <2>2, <2>3, <2>4
<1> QED BY <1>1, <1>2, <1>3, Zenon

LEMMA InnerStacks ==
  ASSUME NEW step \in Inner, NEW rest \in Outer
  PROVE  /\ CallStack(<<step>> \o rest) /\ <<step>> \o rest \in Seq(TaskSteps)
         /\ <<step>> \o rest # <<>>
         /\ Head(<<step>> \o rest) = step /\ Tail(<<step>> \o rest) = rest
<1>1. step \in TaskSteps /\ rest \in Seq(TaskSteps)
  BY OuterStacks DEF Inner, TaskSteps
<1>2. CallStack(<<step>> \o rest)
  BY DEF CallStack
<1> QED BY <1>1, <1>2, PopPush

LEMMA NestedStacks ==
  ASSUME NEW rest \in Outer
  PROVE  LET nested == <<"ZAF_TSE_TXCallback">> \o (<<"transport_tx">> \o rest)
         IN  /\ CallStack(nested) /\ nested \in Seq(TaskSteps) /\ nested # <<>>
             /\ Head(nested) = "ZAF_TSE_TXCallback" /\ Tail(nested) = <<"transport_tx">> \o rest
<1>1. <<"transport_tx">> \o rest \in Seq(TaskSteps)
  BY InnerStacks DEF Inner
<1>2. CallStack(<<"ZAF_TSE_TXCallback">> \o (<<"transport_tx">> \o rest))
  BY DEF CallStack
<1> QED BY <1>1, <1>2, PopPush DEF TaskSteps

LEMMA TopOfStack ==
  ASSUME NEW stack, CallStack(stack)
  PROVE  /\ stack \in Seq(TaskSteps)
         /\ stack # <<>> =>
              /\ Head(stack) = "EventHandlerCC" => Tail(stack) = <<>>
              /\ Head(stack) \in {"transport_tx", "transport_callback"} => Tail(stack) \in Outer
              /\ Head(stack) = "ZAF_TSE_TXCallback" =>
                   \/ Tail(stack) \in Outer
                   \/ \E rest \in Outer : Tail(stack) = <<"transport_tx">> \o rest
<1>1. CASE stack \in Outer
  BY <1>1, OuterStacks
<1>2. CASE \E step \in Inner, rest \in Outer : stack = <<step>> \o rest
  <2>1. PICK step \in Inner, rest \in Outer : stack = <<step>> \o rest
    BY <1>2
  <2>2. stack \in Seq(TaskSteps) /\ Head(stack) = step /\ Tail(stack) = rest
    BY <2>1, InnerStacks
  <2> QED BY <2>2 DEF Inner
<1>3. CASE \E rest \in Outer : stack = <<"ZAF_TSE_TXCallback">> \o (<<"transport_tx">> \o rest)
  <2>1. PICK rest \in Outer : stack = <<"ZAF_TSE_TXCallback">> \o (<<"transport_tx">> \o rest)
    BY <1>3
  <2>2. /\ stack \in Seq(TaskSteps) /\ Head(stack) = "ZAF_TSE_TXCallback"
        /\ Tail(stack) = <<"transport_tx">> \o rest
    BY <2>1, NestedStacks
  <2> QED BY <2>2
<1> QED BY <1>1, <1>2, <1>3 DEF CallStack

LEMMA TxIsNotOuter ==
  ASSUME NEW rest \in Outer
  PROVE  <<"transport_tx">> \o rest \notin Outer
<1>1. Head(<<"transport_tx">> \o rest) = "transport_tx" /\ <<"transport_tx">> \o rest # <<>>
  BY InnerStacks DEF Inner
<1> QED BY <1>1, OuterStacks

-------------------------------------------------------------------------------
(* Tokens *)

Marked(queue) == {i \in 1 .. Len(queue) : queue[i].by # NoCallback}
Queued(queue) == Cardinality(Marked(queue))
Called(stack) == Cardinality({i \in 1 .. Len(stack) : stack[i] = "ZAF_TSE_TXCallback"})
InAir(frame) == IF frame # NoFrame /\ frame.by # NoCallback THEN 1 ELSE 0
Timed(t) == IF t # "off" THEN 1 ELSE 0

LEMMA TokenSum ==
  /\ Tokens = Queued(txQueue) + Called(task) + InAir(air) + Timed(timer)
  /\ Tokens' = Queued(txQueue') + Called(task') + InAir(air') + Timed(timer')
BY DEF Tokens, Queued, Marked, Called, InAir, Timed

\* The callback of a trigger can only be the innermost call.
LEMMA CalledOnce ==
  ASSUME NEW stack, CallStack(stack)
  PROVE  Called(stack) = IF stack # <<>> /\ Head(stack) = "ZAF_TSE_TXCallback" THEN 1 ELSE 0
<1> DEFINE calls(s) == {i \in 1 .. Len(s) : s[i] = "ZAF_TSE_TXCallback"}
<1>1. ASSUME NEW rest \in Outer PROVE calls(rest) = {}
  BY DEF Outer, Loop
<1>2. ASSUME NEW step \in TaskSteps, NEW rest \in Seq(TaskSteps), calls(rest) = {}
      PROVE  calls(<<step>> \o rest) = IF step = "ZAF_TSE_TXCallback" THEN {1} ELSE {}
  <2>1. PICK pushed : pushed = <<step>> \o rest
    OBVIOUS
  <2>2. /\ Len(pushed) = Len(rest) + 1 /\ pushed[1] = step
        /\ \A i \in 1 .. Len(rest) : pushed[i + 1] = rest[i]
    BY <2>1, PushSeq
  <2>3. Len(rest) \in Nat
    BY LenProperties
  <2>4. ASSUME NEW i \in 1 .. Len(pushed), i # 1 PROVE pushed[i] # "ZAF_TSE_TXCallback"
    <3>1. i - 1 \in 1 .. Len(rest) /\ pushed[i] = rest[i - 1]
      BY <2>2, <2>3, <2>4
    <3> QED BY <1>2, <3>1
  <2>5. calls(pushed) = IF step = "ZAF_TSE_TXCallback" THEN {1} ELSE {}
    BY <2>2, <2>3, <2>4
  <2> QED BY <2>1, <2>5
<1>3. CASE stack \in Outer
  <2>1. calls(stack) = {} /\ ~(stack # <<>> /\ Head(stack) = "ZAF_TSE_TXCallback")
    BY <1>1, <1>3, OuterStacks
  <2> QED BY <2>1, FS_EmptySet DEF Called
<1>4. ASSUME NEW step \in Inner, NEW rest \in Outer
      PROVE  calls(<<step>> \o rest) = IF step = "ZAF_TSE_TXCallback" THEN {1} ELSE {}
  <2>1. step \in TaskSteps /\ rest \in Seq(TaskSteps) /\ calls(rest) = {}
    BY <1>1, OuterStacks DEF Inner, TaskSteps
  <2> HIDE DEF calls
  <2> QED BY <1>2, <2>1
<1>5. CASE \E step \in Inner, rest \in Outer : stack = <<step>> \o rest
  <2>1. PICK step \in Inner, rest \in Outer : stack = <<step>> \o rest
    BY <1>5
  <2>2. stack # <<>> /\ Head(stack) = step
    BY <2>1, InnerStacks
  <2>3. calls(stack) = IF step = "ZAF_TSE_TXCallback" THEN {1} ELSE {}
    BY <1>4, <2>1
  <2> QED BY <2>2, <2>3, FS_EmptySet, FS_Singleton DEF Called
<1>6. CASE \E rest \in Outer : stack = <<"ZAF_TSE_TXCallback">> \o (<<"transport_tx">> \o rest)
  <2>1. PICK rest \in Outer : stack = <<"ZAF_TSE_TXCallback">> \o (<<"transport_tx">> \o rest)
    BY <1>6
  <2>2. stack # <<>> /\ Head(stack) = "ZAF_TSE_TXCallback"
    BY <2>1, NestedStacks
  <2>3. PICK inner : inner = <<"transport_tx">> \o rest
    OBVIOUS
  <2>4. calls(inner) = {} /\ inner \in Seq(TaskSteps)
    BY <1>4, <2>3, InnerStacks DEF Inner
  <2>5. calls(stack) = {1}
    <3> HIDE DEF calls
    <3> QED BY <1>2, <2>1, <2>3, <2>4 DEF TaskSteps
  <2> QED BY <2>2, <2>5, FS_Singleton DEF Called
<1> QED BY <1>3, <1>5, <1>6 DEF CallStack

LEMMA MarkedPlaces ==
  ASSUME NEW S, NEW queue \in Seq(S)
  PROVE  Queued(queue) = Occurrences(queue, {f \in S : f.by # NoCallback})
<1>1. \A i \in 1 .. Len(queue) : queue[i] \in S
  BY ElementOfSeq
<1>2. Marked(queue) = Places(queue, {f \in S : f.by # NoCallback})
  BY <1>1 DEF Marked, Places
<1> QED BY <1>2 DEF Queued, Occurrences

LEMMA MarkedFinite ==
  ASSUME NEW S, NEW queue \in Seq(S)
  PROVE  Queued(queue) \in Nat
<1>1. PICK T : T = {f \in S : f.by # NoCallback}
  OBVIOUS
<1>2. Queued(queue) = Occurrences(queue, T)
  BY <1>1, MarkedPlaces
<1> QED BY <1>2, OccurrencesType

LEMMA QueuedAppend ==
  ASSUME NEW S, NEW queue \in Seq(S), NEW frame \in S
  PROVE  Queued(Append(queue, frame)) =
           Queued(queue) + IF frame.by # NoCallback THEN 1 ELSE 0
<1>1. Append(queue, frame) \in Seq(S)
  BY AppendProperties
<1>2. PICK T : T = {f \in S : f.by # NoCallback}
  OBVIOUS
<1>3. /\ Queued(Append(queue, frame)) = Occurrences(Append(queue, frame), T)
      /\ Queued(queue) = Occurrences(queue, T)
  BY <1>1, <1>2, MarkedPlaces
<1>4. frame \in T <=> frame.by # NoCallback
  BY <1>2
<1>5. Occurrences(Append(queue, frame), T) =
        Occurrences(queue, T) + IF frame \in T THEN 1 ELSE 0
  BY OccurrencesAppend
<1> QED BY <1>3, <1>4, <1>5

LEMMA QueuedTail ==
  ASSUME NEW S, NEW queue \in Seq(S), queue # <<>>
  PROVE  Queued(queue) = Queued(Tail(queue)) + IF Head(queue).by # NoCallback THEN 1 ELSE 0
<1>1. Tail(queue) \in Seq(S) /\ Head(queue) \in S
  BY TailSeq
<1>2. PICK T : T = {f \in S : f.by # NoCallback}
  OBVIOUS
<1>3. Queued(Tail(queue)) = Occurrences(Tail(queue), T) /\ Queued(queue) = Occurrences(queue, T)
  BY <1>1, <1>2, MarkedPlaces
<1>4. Head(queue) \in T <=> Head(queue).by # NoCallback
  BY <1>1, <1>2
<1>5. Occurrences(queue, T) = Occurrences(Tail(queue), T) + IF Head(queue) \in T THEN 1 ELSE 0
  BY OccurrencesTail
<1> QED BY <1>3, <1>4, <1>5

-------------------------------------------------------------------------------
(* One token *)

TransportType ==
  /\ txQueue \in Seq(Frames) /\ Len(txQueue) <= QueueSize
  /\ busy \in BOOLEAN /\ paused \in BOOLEAN
  /\ air \in Frames \cup {NoFrame}

EngineType ==
  /\ slot \in [1 .. Triggers -> Slots]
  /\ current \in 0 .. Triggers
  /\ timer \in {"off", "running", "expired"}

HistoryType ==
  /\ owed \in [Callbacks -> SUBSET Nodes] /\ skipped \in [Callbacks -> SUBSET Nodes]
  /\ refused \subseteq {"queue", "trigger"}

WalkInv ==
  /\ TransportType /\ EngineType /\ HistoryType
  /\ rxOption \in RxOptions
  /\ ControlInv /\ OneWalk

LEMMA SlotType ==
  ASSUME NEW s \in Slots, s # Free
  PROVE  /\ s \in [callback : Callbacks, left : 1 .. ListLen]
         /\ s.callback \in Callbacks /\ s.left \in 1 .. ListLen /\ CurrentNode(s) \in Nodes
<1>1. s \in [callback : Callbacks, left : 1 .. ListLen]
  BY DEF Slots
<1>2. ListLen \in Nat /\ Lifeline \in Seq(Nodes)
  BY LifelineAssumption, LenProperties DEF ListLen
<1>3. ListLen - s.left + 1 \in 1 .. Len(Lifeline)
  BY <1>1, <1>2 DEF ListLen
<1>4. CurrentNode(s) \in Nodes
  BY <1>2, <1>3, ElementOfSeq DEF CurrentNode
<1> QED BY <1>1, <1>4

LEMMA FrameTypes ==
  ASSUME NEW f \in Frames
  PROVE  /\ f # NoFrame /\ f.to \in Nodes /\ f.by \in Callbacks \cup {NoCallback}
         /\ InAir(f) = IF f.by # NoCallback THEN 1 ELSE 0
<1>1. f.to \in Nodes /\ f.by \in Callbacks \cup {NoCallback}
  BY DEF Frames
<1>2. NoFrame.to = NoNode
  BY DEF NoFrame
<1>3. f # NoFrame
  BY <1>1, <1>2, LifelineAssumption
<1> QED BY <1>1, <1>3 DEF InAir

LEMMA TokenTypes ==
  ASSUME TransportType, CallStack(task)
  PROVE  /\ Queued(txQueue) \in Nat /\ Called(task) \in {0, 1}
         /\ InAir(air) \in {0, 1} /\ Timed(timer) \in {0, 1} /\ Tokens \in Nat
         /\ Tokens = 0 => Queued(txQueue) = 0 /\ Called(task) = 0 /\ InAir(air) = 0
                          /\ Timed(timer) = 0
         /\ Tokens = 1 => /\ Called(task) = 1 \/ Timed(timer) = 1 \/ InAir(air) = 1 =>
                               Queued(txQueue) = 0
                          /\ Called(task) = 1 => Timed(timer) = 0 /\ InAir(air) = 0
<1>1. Queued(txQueue) \in Nat
  BY MarkedFinite DEF TransportType
<1>2. Called(task) \in {0, 1}
  BY CalledOnce
<1>3. InAir(air) \in {0, 1} /\ Timed(timer) \in {0, 1}
  BY DEF InAir, Timed
<1> QED BY <1>1, <1>2, <1>3, TokenSum

\* What may be left of the stack when a frame is put in the queue.
Under(rest) ==
  \/ rest \in Outer
  \/ busy /\ air = NoFrame /\ \E r \in Outer : rest = <<"transport_tx">> \o r

LEMMA UnderStack ==
  ASSUME NEW rest, Under(rest), air # NoFrame => busy, task' = rest, UNCHANGED <<busy, air>>
  PROVE  ControlInv' /\ Called(task') = 0
<1>1. CASE rest \in Outer
  <2>1. CallStack(rest) /\ (rest # <<>> => Head(rest) = "EventHandlerCC")
    BY <1>1, OuterStacks
  <2>2. Called(rest) = 0
    BY <2>1, CalledOnce
  <2> QED BY <2>1, <2>2 DEF ControlInv
<1>2. CASE busy /\ air = NoFrame /\ \E r \in Outer : rest = <<"transport_tx">> \o r
  <2>1. CallStack(rest) /\ Head(rest) = "transport_tx"
    BY <1>2, InnerStacks DEF Inner
  <2>2. Called(rest) = 0
    BY <2>1, CalledOnce
  <2> QED BY <1>2, <2>1, <2>2 DEF ControlInv
<1> QED BY <1>1, <1>2 DEF Under

LEMMA Sent ==
  ASSUME TransportType, air # NoFrame => busy, NEW rest, Under(rest), NEW frame \in Frames,
         zaf_transport_tx(frame, rest), UNCHANGED <<busy, paused, air>>
  PROVE  /\ TransportType' /\ ControlInv' /\ Called(task') = 0
         /\ Queued(txQueue') = Queued(txQueue) +
              IF Full(txQueue, QueueSize) \/ frame.by = NoCallback THEN 0 ELSE 1
<1>1. txQueue \in Seq(Frames) /\ Len(txQueue) \in Nat /\ Len(txQueue) <= QueueSize
      /\ Queued(txQueue) \in Nat /\ QueueSize \in Nat
  BY LenProperties, MarkedFinite, SizeAssumption DEF TransportType
<1>2. CASE Full(txQueue, QueueSize)
  <2>1. task' = rest /\ UNCHANGED txQueue
    BY <1>2 DEF zaf_transport_tx
  <2>2. TransportType'
    BY <2>1 DEF TransportType
  <2> QED BY <1>1, <1>2, <2>1, <2>2, UnderStack
<1>3. CASE ~Full(txQueue, QueueSize)
  <2>1. /\ txQueue' = Append(txQueue, frame)
        /\ task' = IF busy \/ paused THEN rest ELSE <<"transport_tx">> \o rest
    BY <1>3 DEF zaf_transport_tx
  <2>2. /\ txQueue' \in Seq(Frames) /\ Len(txQueue') = Len(txQueue) + 1
        /\ Queued(txQueue') = Queued(txQueue) + IF frame.by # NoCallback THEN 1 ELSE 0
    BY <1>1, <2>1, AppendProperties, QueuedAppend
  <2>3. Len(txQueue') <= QueueSize
    BY <1>1, <1>3, <2>2 DEF Full
  <2>4. TransportType'
    BY <2>2, <2>3 DEF TransportType
  <2>5. CASE busy \/ paused
    BY <1>3, <2>1, <2>2, <2>4, <2>5, UnderStack
  <2>6. CASE ~(busy \/ paused)
    <3>1. rest \in Outer /\ air = NoFrame
      BY <2>6 DEF Under
    <3>2. CallStack(task') /\ Head(task') = "transport_tx"
      BY <2>1, <2>6, <3>1, InnerStacks DEF Inner
    <3>3. Called(task') = 0
      BY <3>2, CalledOnce
    <3> QED BY <1>3, <2>2, <2>4, <3>1, <3>2, <3>3 DEF ControlInv
  <2> QED BY <2>5, <2>6
<1> QED BY <1>2, <1>3

LEMMA Invoked ==
  ASSUME TransportType, air # NoFrame => busy, NEW rest, Under(rest),
         NEW s \in Slots, s # Free, status \in [Callbacks -> Reports],
         InvokeRegisteredCallback(s, rest), UNCHANGED <<busy, paused, air>>
  PROVE  /\ TransportType' /\ ControlInv' /\ Called(task') = 0
         /\ \/ Queued(txQueue') = Queued(txQueue) + 1 /\ refused' = refused
            \/ Queued(txQueue') = Queued(txQueue) /\ refused' = refused \cup {"queue"}
<1>1. PICK frame : frame = [to |-> CurrentNode(s), by |-> s.callback,
                            says |-> status[s.callback]]
  OBVIOUS
<1>2. s.callback \in Callbacks /\ CurrentNode(s) \in Nodes
  BY SlotType
<1>3. frame \in Frames /\ frame.by # NoCallback
  BY <1>1, <1>2, LifelineAssumption DEF Frames
<1>4. /\ zaf_transport_tx(frame, rest)
      /\ refused' = IF Full(txQueue, QueueSize) THEN refused \cup {"queue"} ELSE refused
  BY <1>1 DEF InvokeRegisteredCallback
<1>5. Queued(txQueue) \in Nat
  BY MarkedFinite DEF TransportType
<1> QED BY <1>3, <1>4, <1>5, Sent

\* Steps that only pass the token on.
LEMMA WalkKept ==
  ASSUME OneWalk, UNCHANGED <<slot, current>>, refused \subseteq refused', Tokens' = Tokens
  PROVE  OneWalk'
BY DEF OneWalk

\* The token is there when there is something to do with it.
LEMMA TokenMeansWalk ==
  ASSUME WalkInv, Tokens # 0
  PROVE  Tokens = 1 /\ current # 0 /\ slot[current] # Free /\ slot[current] \in Slots
         /\ current \in 1 .. Triggers
<1>1. Tokens = 1 /\ current # 0 /\ slot[current] # Free
  BY DEF WalkInv, OneWalk
<1>2. current \in 1 .. Triggers
  BY <1>1, SizeAssumption DEF WalkInv, EngineType
<1> QED BY <1>1, <1>2 DEF WalkInv, EngineType

-------------------------------------------------------------------------------
(* The transport queue passes the token on *)

LEMMA EmptyWalk ==
  ASSUME WalkInv, QueueEmpty
  PROVE  WalkInv'
<1>1. /\ task # <<>> /\ Head(task) = "transport_tx" /\ busy' = FALSE /\ task' = Tail(task)
      /\ UNCHANGED <<txQueue, paused, air, slot, current, timer, rxOption, owed, skipped, refused>>
  BY DEF QueueEmpty, Running, Return, engineVars, historyVars
<1>2. CallStack(task) /\ air = NoFrame
  BY <1>1 DEF WalkInv, ControlInv
<1>3. Tail(task) \in Outer
  BY <1>1, <1>2, TopOfStack
<1>4. CallStack(task') /\ (task' # <<>> => Head(task') = "EventHandlerCC")
  BY <1>1, <1>3, OuterStacks
<1>5. Called(task) = 0 /\ Called(task') = 0
  BY <1>1, <1>2, <1>4, CalledOnce
<1>6. Tokens' = Tokens
  BY <1>1, <1>5, TokenSum
<1>7. OneWalk'
  BY <1>1, <1>6, WalkKept DEF WalkInv
<1>8. ControlInv'
  BY <1>1, <1>2, <1>4 DEF ControlInv
<1> QED BY <1>1, <1>7, <1>8 DEF WalkInv, TransportType, EngineType, HistoryType

LEMMA HandOverWalk ==
  ASSUME WalkInv, HandOver
  PROVE  WalkInv'
<1> DEFINE f == Head(txQueue)
<1>1. /\ task # <<>> /\ Head(task) = "transport_tx" /\ busy' = TRUE
      /\ txQueue # <<>> /\ air' = f /\ txQueue' = Tail(txQueue)
      /\ task' \in {Tail(task), <<"transport_callback">> \o Tail(task)}
      /\ owed' = [c \in Callbacks |->
                    IF f.by = c /\ f.says = status[c] THEN owed[c] \ {f.to} ELSE owed[c]]
      /\ UNCHANGED <<paused, slot, current, timer, rxOption, skipped, refused>>
  BY DEF HandOver, Running, Return, engineVars
<1>2. CallStack(task) /\ air = NoFrame
  BY <1>1 DEF WalkInv, ControlInv
<1>3. Tail(task) \in Outer
  BY <1>1, <1>2, TopOfStack
<1>4. CallStack(task') /\ (task' # <<>> => Head(task') \in {"EventHandlerCC", "transport_callback"})
  BY <1>1, <1>3, OuterStacks, InnerStacks DEF Inner
<1>5. Called(task) = 0 /\ Called(task') = 0
  BY <1>1, <1>2, <1>4, CalledOnce
<1>6. txQueue \in Seq(Frames) /\ Len(txQueue) <= QueueSize /\ QueueSize \in Nat
  BY SizeAssumption DEF WalkInv, TransportType
<1>7. /\ txQueue' \in Seq(Frames) /\ Len(txQueue') = Len(txQueue) - 1 /\ f \in Frames
      /\ Len(txQueue) \in Nat
  BY <1>1, <1>6, TailSeq
<1>8. Queued(txQueue) = Queued(txQueue') + InAir(f) /\ InAir(air) = 0
      /\ Queued(txQueue') \in Nat /\ InAir(f) \in {0, 1}
  <2>1. InAir(f) = IF f.by # NoCallback THEN 1 ELSE 0
    BY <1>7, FrameTypes
  <2>2. Queued(txQueue) = Queued(Tail(txQueue)) + IF f.by # NoCallback THEN 1 ELSE 0
    BY <1>1, <1>6, QueuedTail
  <2>3. Queued(txQueue') \in Nat
    BY <1>7, MarkedFinite
  <2> QED BY <1>1, <1>2, <2>1, <2>2, <2>3 DEF InAir
<1>9. Tokens' = Tokens
  <2>1. Timed(timer) \in {0, 1} /\ Timed(timer') = Timed(timer)
    BY <1>1 DEF Timed
  <2> QED BY <1>1, <1>5, <1>8, <2>1, TokenSum
<1>10. OneWalk'
  BY <1>1, <1>9, WalkKept DEF WalkInv
<1>11. ControlInv'
  BY <1>1, <1>4 DEF ControlInv
<1>12. TransportType'
  BY <1>1, <1>6, <1>7 DEF WalkInv, TransportType
<1>13. HistoryType'
  <2>1. owed' \in [Callbacks -> SUBSET Nodes]
    <3>1. owed \in [Callbacks -> SUBSET Nodes]
      BY DEF WalkInv, HistoryType
    <3> HIDE DEF f
    <3> QED BY <1>1, <3>1
  <2> QED BY <1>1, <2>1 DEF WalkInv, HistoryType
<1>14. EngineType' /\ rxOption' \in RxOptions
  BY <1>1 DEF WalkInv, EngineType
<1> QED BY <1>10, <1>11, <1>12, <1>13, <1>14 DEF WalkInv

LEMMA CallbackWalk ==
  ASSUME WalkInv, transport_callback
  PROVE  WalkInv'
<1> DEFINE next == IF paused THEN Tail(task) ELSE <<"transport_tx">> \o Tail(task)
<1>1. /\ task # <<>> /\ Head(task) = "transport_callback" /\ air' = NoFrame /\ busy' = ~paused
      /\ task' = IF air.by = NoCallback THEN next ELSE <<"ZAF_TSE_TXCallback">> \o next
      /\ UNCHANGED <<txQueue, paused, slot, current, timer, rxOption, owed, skipped, refused>>
  BY DEF transport_callback, Running, Return, engineVars, historyVars
<1>2. CallStack(task) /\ air \in Frames \cup {NoFrame} /\ paused \in BOOLEAN
  BY DEF WalkInv, ControlInv, TransportType
<1>3. Tail(task) \in Outer
  BY <1>1, <1>2, TopOfStack
<1>4. InAir(air) = (IF air.by = NoCallback THEN 0 ELSE 1) /\ InAir(air') = 0
  BY <1>1, <1>2, FrameTypes DEF InAir, NoFrame
<1>5. Called(task) = 0
  BY <1>1, <1>2, CalledOnce
<1>6. CASE air.by = NoCallback
  <2>1. CallStack(task') /\ (task' # <<>> => Head(task') \in {"EventHandlerCC", "transport_tx"})
    BY <1>1, <1>3, <1>6, OuterStacks, InnerStacks DEF Inner
  <2>2. Called(task') = 0
    BY <2>1, CalledOnce
  <2>3. Tokens' = Tokens
    BY <1>1, <1>4, <1>5, <1>6, <2>2, TokenSum
  <2>4. ControlInv'
    BY <1>1, <2>1 DEF ControlInv
  <2>5. OneWalk'
    BY <1>1, <2>3, WalkKept DEF WalkInv
  <2> QED BY <1>1, <1>2, <2>4, <2>5 DEF WalkInv, TransportType, EngineType, HistoryType
<1>7. CASE air.by # NoCallback
  <2>1. /\ CallStack(task') /\ task' # <<>> /\ Head(task') = "ZAF_TSE_TXCallback"
        /\ Tail(task') \notin Outer => ~paused
    <3>1. CASE paused
      BY <1>1, <1>3, <1>7, <3>1, InnerStacks DEF Inner
    <3>2. CASE ~paused
      BY <1>1, <1>3, <1>7, <3>2, NestedStacks
    <3> QED BY <3>1, <3>2
  <2>2. Called(task') = 1
    BY <2>1, CalledOnce
  <2>3. Tokens' = Tokens
    <3>1. Queued(txQueue) \in Nat /\ Timed(timer) \in {0, 1}
      BY MarkedFinite DEF WalkInv, TransportType, Timed
    <3> QED BY <1>1, <1>4, <1>5, <1>7, <2>2, <3>1, TokenSum
  <2>4. ControlInv'
    BY <1>1, <2>1 DEF ControlInv
  <2>5. OneWalk'
    BY <1>1, <2>3, WalkKept DEF WalkInv
  <2> QED BY <1>1, <1>2, <2>4, <2>5 DEF WalkInv, TransportType, EngineType, HistoryType
<1> QED BY <1>6, <1>7

LEMMA SingleStack == \A step \in Inner : <<step>> = <<step>> \o <<>> /\ <<>> \in Outer
<1> SUFFICES ASSUME NEW step \in Inner PROVE <<step>> = <<step>> \o <<>> /\ <<>> \in Outer
  OBVIOUS
<1>1. <<step>> \in Seq(Inner)
  OBVIOUS
<1> QED BY <1>1, ConcatEmptySeq DEF Outer

LEMMA QueueControlWalk ==
  ASSUME WalkInv,
         TransmissionDone \/ zaf_transport_pause \/ zaf_transport_resume \/ TimerExpires
  PROVE  WalkInv'
<1>1. UNCHANGED <<txQueue, busy, air, slot, current, rxOption, owed, skipped, refused>>
  BY DEF TransmissionDone, zaf_transport_pause, zaf_transport_resume, TimerExpires,
         transportVars, engineVars, historyVars
<1>2. /\ paused' \in BOOLEAN /\ timer' \in {"off", "running", "expired"}
      /\ Timed(timer') = Timed(timer)
  BY DEF TransmissionDone, zaf_transport_pause, zaf_transport_resume, TimerExpires,
         transportVars, engineVars, WalkInv, TransportType, EngineType, Timed
<1>3. \/ task' = task
      \/ task = <<>> /\ task' = <<>>
      \/ task = <<>> /\ task' = <<"transport_tx">> /\ ~busy
      \/ task = <<>> /\ task' = <<"transport_callback">>
  BY DEF TransmissionDone, zaf_transport_pause, zaf_transport_resume, TimerExpires, Idle
<1>4. ControlInv
  BY DEF WalkInv
<1>5. ControlInv' /\ Called(task') = Called(task)
  <2>1. CASE task' = task
    BY <1>1, <1>4, <2>1 DEF ControlInv
  <2>2. CASE task = <<>> /\ task' # task
    <3>1. /\ CallStack(task') /\ task' # <<>>
          /\ Head(task') \in {"transport_tx", "transport_callback"}
          /\ Head(task') = "transport_tx" => ~busy
      <4>1. PICK step \in {"transport_tx", "transport_callback"} :
              task' = <<step>> /\ (step = "transport_tx" => ~busy)
        BY <1>3, <2>2
      <4>2. task' = <<step>> \o <<>> /\ step \in Inner /\ <<>> \in Outer
        BY <4>1, SingleStack DEF Inner
      <4>3. CallStack(task') /\ task' # <<>> /\ Head(task') = step
        BY <4>2, InnerStacks
      <4> QED BY <4>1, <4>3
    <3>2. Called(task') = 0 /\ Called(task) = 0
      BY <1>4, <2>2, <3>1, CalledOnce DEF ControlInv
    <3> QED BY <1>1, <1>4, <3>1, <3>2 DEF ControlInv
  <2> QED BY <1>3, <2>1, <2>2
<1>6. Tokens' = Tokens
  BY <1>1, <1>2, <1>5, TokenSum
<1>7. OneWalk'
  BY <1>1, <1>6, WalkKept DEF WalkInv
<1> QED BY <1>1, <1>2, <1>5, <1>7 DEF WalkInv, TransportType, EngineType, HistoryType

LEMMA ReplyWalk ==
  ASSUME WalkInv, NEW n \in Nodes, Reply(n)
  PROVE  WalkInv'
<1>1. PICK frame : frame = [to |-> n, by |-> NoCallback]
  OBVIOUS
<1>2. frame \in Frames /\ frame.by = NoCallback
  BY <1>1 DEF Frames
<1>3. /\ task = <<>> /\ zaf_transport_tx(frame, <<>>)
      /\ UNCHANGED <<busy, paused, air, slot, current, timer, rxOption, owed, skipped, refused>>
  BY <1>1 DEF Reply, Idle, engineVars, historyVars
<1>4. Under(<<>>) /\ TransportType /\ (air # NoFrame => busy)
  BY DEF Under, Outer, WalkInv, ControlInv
<1>5. TransportType' /\ ControlInv' /\ Called(task') = 0 /\ Queued(txQueue') = Queued(txQueue)
  <2>1. Queued(txQueue) \in Nat
    BY MarkedFinite DEF WalkInv, TransportType
  <2> QED BY <1>2, <1>3, <1>4, <2>1, Sent
<1>6. Called(task) = 0
  BY <1>3, CalledOnce DEF WalkInv, ControlInv
<1>7. Tokens' = Tokens
  BY <1>3, <1>5, <1>6, TokenSum
<1>8. OneWalk'
  BY <1>3, <1>7, WalkKept DEF WalkInv
<1> QED BY <1>3, <1>5, <1>8 DEF WalkInv, EngineType, HistoryType

-------------------------------------------------------------------------------
(* A trigger starts a walk or joins the one under way *)

LEMMA LifelineNodes == ToSet(Lifeline) \subseteq Nodes /\ ListLen \in Nat \ {0}
<1>1. Lifeline \in Seq(Nodes) /\ Len(Lifeline) \in Nat /\ DOMAIN Lifeline = 1 .. Len(Lifeline)
  BY LifelineAssumption, LenProperties
<1>2. \A i \in 1 .. Len(Lifeline) : Lifeline[i] \in Nodes
  BY <1>1, ElementOfSeq
<1> QED BY <1>1, <1>2, LifelineAssumption DEF ToSet, ListLen

LEMMA FirstFree ==
  ASSUME FreeSlots # {}
  PROVE  FirstOf(FreeSlots) \in 1 .. Triggers /\ slot[FirstOf(FreeSlots)] = Free
<1>1. FreeSlots \in SUBSET Nat
  BY SizeAssumption DEF FreeSlots
<1>2. \E i \in FreeSlots : \A j \in FreeSlots : i <= j
  BY <1>1, LeastElement
<1>3. FirstOf(FreeSlots) \in FreeSlots
  BY <1>2 DEF FirstOf
<1> QED BY <1>3 DEF FreeSlots

LEMMA TriggerWalk ==
  ASSUME WalkInv, NEW cb \in Callbacks, NEW rx, ZAF_TSE_Trigger(cb, rx),
         Queued(txQueue') = Queued(txQueue), Called(task') = Called(task),
         InAir(air') = InAir(air)
  PROVE  EngineType' /\ HistoryType' /\ OneWalk'
<1>1. EngineType /\ HistoryType /\ OneWalk /\ Triggers \in Nat
  BY SizeAssumption DEF WalkInv
<1>2. /\ owed' \in [Callbacks -> SUBSET Nodes] /\ skipped' \in [Callbacks -> SUBSET Nodes]
  <2>1. skipped' = [skipped EXCEPT ![cb] = {}]
    BY DEF ZAF_TSE_Trigger
  <2>2. \E nodes \in SUBSET Nodes : owed' = [owed EXCEPT ![cb] = nodes]
    BY LifelineNodes DEF ZAF_TSE_Trigger
  <2> QED BY <1>1, <2>1, <2>2 DEF HistoryType
<1>3. ASSUME UNCHANGED <<slot, current>>, timer' = timer \/ (timer # "off" /\ timer' = "running"),
             refused' = refused \/ refused' = refused \cup {"trigger"}
      PROVE  EngineType' /\ HistoryType' /\ OneWalk'
  <2>1. Timed(timer') = Timed(timer) /\ timer' \in {"off", "running", "expired"}
    BY <1>1, <1>3 DEF Timed, EngineType
  <2>2. Tokens' = Tokens
    BY <2>1, TokenSum
  <2>3. OneWalk'
    BY <1>1, <1>3, <2>2, WalkKept
  <2> QED BY <1>1, <1>2, <1>3, <2>1, <2>3 DEF EngineType, HistoryType
<1>4. ASSUME NEW i \in 1 .. Triggers, slot[i] = Free,
             slot' = [slot EXCEPT ![i] = [callback |-> cb, left |-> ListLen]],
             current' = (IF current = 0 THEN i ELSE current),
             timer' = (IF current = 0 THEN "running" ELSE timer), UNCHANGED refused
      PROVE  EngineType' /\ HistoryType' /\ OneWalk'
  <2>1. [callback |-> cb, left |-> ListLen] \in Slots /\ [callback |-> cb, left |-> ListLen] # Free
    BY LifelineNodes, LifelineAssumption DEF Slots, Free
  <2>2. /\ slot' \in [1 .. Triggers -> Slots] /\ slot'[i] # Free
        /\ \A j \in 1 .. Triggers : j # i => slot'[j] = slot[j]
    BY <1>1, <1>4, <2>1 DEF EngineType
  <2>3. EngineType' /\ HistoryType'
    BY <1>1, <1>2, <1>4, <2>2 DEF EngineType, HistoryType
  <2>4. TransportType /\ CallStack(task)
    BY DEF WalkInv, ControlInv
  <2>5. CASE current = 0
    <3>1. Tokens = 0
      BY <1>1, <2>5 DEF OneWalk
    <3>2. Queued(txQueue) = 0 /\ Called(task) = 0 /\ InAir(air) = 0
      BY <2>4, <3>1, TokenTypes
    <3>3. Tokens' = 1
      BY <1>4, <2>5, <3>2, TokenSum DEF Timed
    <3>4. current' = i /\ current' # 0
      BY <1>1, <1>4, <2>5
    <3>5. OneWalk'
      BY <2>2, <3>3, <3>4 DEF OneWalk
    <3> QED BY <2>3, <3>5
  <2>6. CASE current # 0
    <3>1. Tokens' = Tokens
      BY <1>4, <2>6, TokenSum
    <3>2. current' = current /\ slot[current] # Free /\ current \in 1 .. Triggers
      BY <1>1, <1>4, <2>6 DEF OneWalk, EngineType
    <3>3. current # i /\ slot'[current'] # Free
      BY <1>4, <2>2, <3>2
    <3>4. OneWalk'
      BY <1>1, <1>4, <2>2, <2>6, <3>1, <3>2, <3>3 DEF OneWalk
    <3> QED BY <2>3, <3>4
  <2> QED BY <2>5, <2>6
<1>5. CASE UNCHANGED <<engineVars, refused>>
  BY <1>3, <1>5 DEF engineVars
<1>6. CASE timer # "off" /\ timer' = "running" /\ UNCHANGED <<slot, current, refused>>
  BY <1>3, <1>6
<1>7. CASE refused' = refused \cup {"trigger"} /\ UNCHANGED engineVars
  BY <1>3, <1>7 DEF engineVars
<1>8. CASE /\ FreeSlots # {}
           /\ LET i == FirstOf(FreeSlots) IN
              /\ slot' = [slot EXCEPT ![i] = [callback |-> cb, left |-> ListLen]]
              /\ current' = IF current = 0 THEN i ELSE current
           /\ timer' = IF current = 0 THEN "running" ELSE timer
           /\ UNCHANGED refused
  BY <1>4, <1>8, FirstFree
<1> QED BY <1>5, <1>6, <1>7, <1>8 DEF ZAF_TSE_Trigger

-------------------------------------------------------------------------------
(* The engine takes the token *)

\* The array without a done node of the current trigger, and the trigger that goes on.
LEMMA WalkOn ==
  ASSUME EngineType, current # 0, slot[current] # Free
  PROVE  /\ Advanced \in [1 .. Triggers -> Slots] /\ NextTrigger \in 0 .. Triggers
         /\ NextTrigger = 0 <=> \A i \in 1 .. Triggers : Advanced[i] = Free
         /\ NextTrigger # 0 => Advanced[NextTrigger] # Free
<1>1. current \in 1 .. Triggers /\ Triggers \in Nat
  BY SizeAssumption DEF EngineType
<1>2. slot[current] \in Slots /\ slot[current] \in [callback : Callbacks, left : 1 .. ListLen]
      /\ ListLen \in Nat
  BY <1>1, SlotType, LifelineNodes DEF EngineType
<1>3. PICK done : done = IF slot[current].left = 1 THEN Free
                         ELSE [slot[current] EXCEPT !.left = slot[current].left - 1]
  OBVIOUS
<1>4. done \in Slots
  BY <1>2, <1>3 DEF Slots
<1>5. Advanced = [slot EXCEPT ![current] = done]
  BY <1>3, Zenon DEF Advanced
<1>6. Advanced \in [1 .. Triggers -> Slots]
  BY <1>1, <1>4, <1>5 DEF EngineType
<1> DEFINE pending == {i \in 1 .. Triggers : Advanced[i] # Free}
           distance(i) == (i + Triggers - current - 1) % Triggers
<1>7. CASE Advanced[current] # Free
  <2>1. NextTrigger = current
    BY <1>7 DEF NextTrigger
  <2> QED BY <1>1, <1>6, <1>7, <2>1
<1>8. CASE Advanced[current] = Free /\ pending = {}
  <2>1. NextTrigger = 0
    BY <1>8 DEF NextTrigger
  <2> QED BY <1>1, <1>6, <1>8, <2>1
<1>9. CASE Advanced[current] = Free /\ pending # {}
  <2>1. \A i \in 1 .. Triggers : distance(i) \in Nat
    BY <1>1, SizeAssumption
  <2>2. PICK T : T = {distance(i) : i \in pending}
    OBVIOUS
  <2>3. T \in SUBSET Nat /\ T # {}
    BY <1>9, <2>1, <2>2
  <2>4. PICK x \in T : \A y \in T : x <= y
    BY <2>3, LeastElement
  <2>5. \E i \in pending : \A j \in pending : distance(i) <= distance(j)
    BY <2>2, <2>4
  <2>6. NextTrigger = CHOOSE i \in pending : \A j \in pending : distance(i) <= distance(j)
    BY <1>9 DEF NextTrigger
  <2>7. NextTrigger \in pending
    <3> HIDE DEF pending, distance
    <3> QED BY <2>5, <2>6
  <2> QED BY <1>1, <1>6, <2>7
<1> QED BY <1>7, <1>8, <1>9

LEMMA SkipType ==
  ASSUME HistoryType, NEW s \in Slots, s # Free, Skip(s)
  PROVE  skipped' \in [Callbacks -> SUBSET Nodes]
<1>1. s.callback \in Callbacks /\ CurrentNode(s) \in Nodes
  BY SlotType
<1> QED BY <1>1 DEF Skip, HistoryType

LEMMA TimerWalk ==
  ASSUME WalkInv, ZAF_TSE_TimerCallback, status \in [Callbacks -> Reports]
  PROVE  WalkInv'
<1>1. /\ task = <<>> /\ timer = "expired" /\ timer' = "off"
      /\ UNCHANGED <<busy, paused, air, slot, current, rxOption, owed>>
  BY DEF ZAF_TSE_TimerCallback, Idle
<1>2. TransportType /\ ControlInv /\ OneWalk /\ EngineType /\ HistoryType /\ CallStack(task)
      /\ (air # NoFrame => busy)
  BY DEF WalkInv, ControlInv
<1>3. Timed(timer) = 1 /\ Timed(timer') = 0 /\ Called(task) = 0
  BY <1>1, <1>2, CalledOnce DEF Timed
<1>4. Queued(txQueue) \in Nat /\ InAir(air) \in {0, 1} /\ InAir(air') = InAir(air)
  BY <1>1, <1>2, TokenTypes
<1>5. Tokens # 0
  BY <1>3, <1>4, TokenSum
<1>6. Tokens = 1 /\ current # 0 /\ slot[current] # Free /\ slot[current] \in Slots
  BY <1>5, TokenMeansWalk
<1>7. Queued(txQueue) = 0 /\ InAir(air) = 0
  BY <1>3, <1>4, <1>6, TokenSum
<1>8. EngineType' /\ rxOption' \in RxOptions
  BY <1>1, <1>2 DEF EngineType, WalkInv
<1>9. CASE Skip(slot[current]) /\ task' = <<"ZAF_TSE_TXCallback">> /\ UNCHANGED <<txQueue, refused>>
  <2>1. HistoryType'
    BY <1>1, <1>2, <1>6, <1>9, SkipType DEF HistoryType
  <2>2. TransportType'
    BY <1>1, <1>2, <1>9 DEF TransportType
  <2>3. "ZAF_TSE_TXCallback" \in Inner /\ <<>> \in Outer
    BY DEF Inner, Outer
  <2>4. task' = <<"ZAF_TSE_TXCallback">> \o <<>>
    BY <1>9, <2>3, SingleStack
  <2>5. /\ CallStack(task') /\ task' # <<>> /\ Head(task') = "ZAF_TSE_TXCallback"
        /\ Tail(task') = <<>>
    BY <2>3, <2>4, InnerStacks
  <2>6. Called(task') = 1
    BY <2>5, CalledOnce
  <2>7. ControlInv'
    BY <1>1, <1>2, <2>3, <2>5 DEF ControlInv
  <2>8. Tokens' = Tokens
    BY <1>3, <1>4, <1>6, <1>7, <1>9, <2>6, TokenSum
  <2>9. OneWalk'
    BY <1>1, <1>2, <1>9, <2>8, WalkKept
  <2> QED BY <1>8, <2>1, <2>2, <2>7, <2>9 DEF WalkInv
<1>10. CASE InvokeRegisteredCallback(slot[current], <<>>) /\ UNCHANGED skipped
  <2>1. Under(<<>>)
    BY DEF Under, Outer
  <2>2. /\ TransportType' /\ ControlInv' /\ Called(task') = 0
        /\ \/ Queued(txQueue') = Queued(txQueue) + 1 /\ refused' = refused
           \/ Queued(txQueue') = Queued(txQueue) /\ refused' = refused \cup {"queue"}
    BY <1>1, <1>2, <1>6, <1>10, <2>1, Invoked
  <2>3. HistoryType'
    BY <1>1, <1>2, <1>10, <2>2 DEF HistoryType
  <2>4. Tokens' = 1 \/ (Tokens' = 0 /\ "queue" \in refused')
    BY <1>3, <1>4, <1>7, <2>2, TokenSum
  <2>5. OneWalk'
    BY <1>1, <1>2, <1>6, <2>4 DEF OneWalk
  <2> QED BY <1>8, <2>2, <2>3, <2>5 DEF WalkInv
<1> QED BY <1>9, <1>10 DEF ZAF_TSE_TimerCallback

LEMMA TXCallbackWalk ==
  ASSUME WalkInv, ZAF_TSE_TXCallback, status \in [Callbacks -> Reports]
  PROVE  WalkInv'
<1>1. /\ task # <<>> /\ Head(task) = "ZAF_TSE_TXCallback"
      /\ slot' = Advanced /\ current' = NextTrigger
      /\ UNCHANGED <<busy, paused, air, timer, rxOption, owed>>
  BY DEF ZAF_TSE_TXCallback, Running
<1>2. TransportType /\ ControlInv /\ OneWalk /\ EngineType /\ HistoryType /\ CallStack(task)
      /\ (air # NoFrame => busy)
  BY DEF WalkInv, ControlInv
<1>3. Called(task) = 1
  BY <1>1, <1>2, CalledOnce
<1>4. Queued(txQueue) \in Nat /\ InAir(air) \in {0, 1} /\ Timed(timer) \in {0, 1}
      /\ InAir(air') = InAir(air) /\ Timed(timer') = Timed(timer)
  BY <1>1, <1>2, TokenTypes
<1>5. Tokens # 0
  BY <1>3, <1>4, TokenSum
<1>6. Tokens = 1 /\ current # 0 /\ slot[current] # Free
  BY <1>5, TokenMeansWalk
<1>7. Queued(txQueue) = 0 /\ InAir(air) = 0 /\ Timed(timer) = 0
  BY <1>3, <1>4, <1>6, TokenSum
<1>8. /\ slot' \in [1 .. Triggers -> Slots] /\ current' \in 0 .. Triggers
      /\ current' = 0 <=> \A i \in 1 .. Triggers : slot'[i] = Free
      /\ current' # 0 => slot'[current'] # Free
  BY <1>1, <1>2, <1>6, WalkOn
<1>9. EngineType' /\ rxOption' \in RxOptions
  BY <1>1, <1>2, <1>8 DEF EngineType, WalkInv
<1>10. current' # 0 => slot'[current'] \in Slots /\ slot'[current'] # Free
  BY <1>8, SizeAssumption
<1>11. Under(Tail(task))
  <2>1. \/ Tail(task) \in Outer
        \/ \E rest \in Outer : Tail(task) = <<"transport_tx">> \o rest
    BY <1>1, <1>2, TopOfStack
  <2>2. Tail(task) \notin Outer => busy /\ air = NoFrame
    BY <1>1, <1>2 DEF ControlInv
  <2> QED BY <2>1, <2>2 DEF Under
<1>12. CASE current' = 0 /\ task' = Tail(task) /\ UNCHANGED <<txQueue, skipped, refused>>
  <2>1. ControlInv' /\ Called(task') = 0
    BY <1>1, <1>2, <1>11, <1>12, UnderStack
  <2>2. Tokens' = 0
    BY <1>4, <1>7, <1>12, <2>1, TokenSum
  <2>3. OneWalk'
    BY <1>8, <1>12, <2>2 DEF OneWalk
  <2> QED BY <1>1, <1>2, <1>9, <1>12, <2>1, <2>3 DEF WalkInv, TransportType, HistoryType
<1>13. CASE current' # 0 /\ Skip(slot'[current']) /\ UNCHANGED <<txQueue, task, refused>>
  <2>1. HistoryType'
    BY <1>1, <1>2, <1>10, <1>13, SkipType DEF HistoryType
  <2>2. TransportType' /\ ControlInv'
    BY <1>1, <1>2, <1>13 DEF TransportType, ControlInv
  <2>3. Tokens' = 1
    BY <1>3, <1>4, <1>7, <1>13, TokenSum
  <2>4. OneWalk'
    BY <1>8, <1>13, <2>3 DEF OneWalk
  <2> QED BY <1>9, <2>1, <2>2, <2>4 DEF WalkInv
<1>14. CASE /\ current' # 0 /\ InvokeRegisteredCallback(slot'[current'], Tail(task))
            /\ UNCHANGED skipped
  <2>1. PICK s \in Slots : s = slot'[current'] /\ s # Free
    BY <1>10, <1>14
  <2>2. /\ TransportType' /\ ControlInv' /\ Called(task') = 0
        /\ \/ Queued(txQueue') = Queued(txQueue) + 1 /\ refused' = refused
           \/ Queued(txQueue') = Queued(txQueue) /\ refused' = refused \cup {"queue"}
    BY <1>1, <1>2, <1>11, <1>14, <2>1, Invoked
  <2>3. HistoryType'
    BY <1>1, <1>2, <1>14, <2>2 DEF HistoryType
  <2>4. Tokens' = 1 \/ (Tokens' = 0 /\ "queue" \in refused')
    BY <1>4, <1>7, <2>2, TokenSum
  <2>5. OneWalk'
    BY <1>8, <1>14, <2>4 DEF OneWalk
  <2> QED BY <1>9, <2>2, <2>3, <2>5 DEF WalkInv
<1>15. \/ NextTrigger = 0 /\ task' = Tail(task) /\ UNCHANGED <<txQueue, skipped, refused>>
       \/ /\ NextTrigger # 0 /\ Skip(Advanced[NextTrigger])
          /\ UNCHANGED <<txQueue, task, refused>>
       \/ /\ NextTrigger # 0 /\ InvokeRegisteredCallback(Advanced[NextTrigger], Tail(task))
          /\ UNCHANGED skipped
  BY DEF ZAF_TSE_TXCallback, Return
<1> QED BY <1>1, <1>12, <1>13, <1>14, <1>15

-------------------------------------------------------------------------------
(* The lock's own steps *)

\* The options of a command, and those of a local change, are receive options.
LEMMA OptionTypes == RemoteOptions \subseteq RxOptions /\ Cleared \in RxOptions
BY DEF RemoteOptions, RxOptions, Cleared

LEMMA StillWalk ==
  ASSUME WalkInv, UNCHANGED <<transportVars, engineVars, task, historyVars>>,
         rxOption' \in RxOptions
  PROVE  WalkInv'
<1>1. Tokens' = Tokens
  BY TokenSum DEF transportVars, engineVars
<1>2. OneWalk'
  BY <1>1, WalkKept DEF WalkInv, engineVars, historyVars
<1> QED BY <1>2 DEF WalkInv, TransportType, EngineType, HistoryType, ControlInv,
                    transportVars, engineVars, historyVars

\* Between two events the stack is empty or has the loop alone.
LEMMA HandlingStack ==
  ASSUME WalkInv, HandlingCC
  PROVE  task \in Outer /\ Called(task) = 0
<1>1. CallStack(task)
  BY DEF WalkInv, ControlInv
<1>2. CASE task = <<>>
  BY <1>1, <1>2, CalledOnce DEF Outer
<1>3. CASE task # <<>> /\ Head(task) = "EventHandlerCC"
  <2>1. Tail(task) = <<>> /\ task \in Seq(TaskSteps)
    BY <1>1, <1>3, TopOfStack
  <2>2. Called(task) = 0
    BY <1>1, <1>3, CalledOnce
  <2>3. task = Loop
    <3>1. Len(task) \in Nat \ {0} /\ Len(Tail(task)) = Len(task) - 1 /\ task[1] = "EventHandlerCC"
      BY <1>3, <2>1, TailSeq
    <3>2. Len(task) = 1
      <4>1. PICK left : left = Len(Tail(task))
        OBVIOUS
      <4>2. left = 0
        BY <2>1, <4>1, EmptySeq, Zenon
      <4>3. left = Len(task) - 1 /\ Len(task) \in Nat
        BY <3>1, <4>1, Zenon
      <4> QED BY <4>2, <4>3
    <3>3. PICK one : one = <<"EventHandlerCC">>
      OBVIOUS
    <3>4. one \in Seq(TaskSteps) /\ Len(one) = 1 /\ one[1] = "EventHandlerCC"
      BY <3>3 DEF TaskSteps
    <3>5. task = one
      BY <2>1, <3>1, <3>2, <3>4, SeqEqual
    <3> QED BY <3>3, <3>5 DEF Loop
  <2> QED BY <2>2, <2>3 DEF Outer
<1> QED BY <1>2, <1>3 DEF HandlingCC, Idle, Running

LEMMA LoopWalk ==
  ASSUME WalkInv, HandlingCC, task' \in Outer,
         UNCHANGED <<transportVars, engineVars, historyVars>>, rxOption' \in RxOptions
  PROVE  WalkInv'
<1>1. Called(task) = 0
  BY HandlingStack
<1>2. CallStack(task') /\ (task' # <<>> => Head(task') = "EventHandlerCC")
  BY OuterStacks
<1>3. Called(task') = 0
  BY <1>2, CalledOnce
<1>4. Tokens' = Tokens
  BY <1>1, <1>3, TokenSum DEF transportVars, engineVars
<1>5. OneWalk'
  BY <1>4, WalkKept DEF WalkInv, engineVars, historyVars
<1>6. ControlInv'
  BY <1>2 DEF WalkInv, ControlInv, transportVars
<1> QED BY <1>5, <1>6 DEF WalkInv, TransportType, EngineType, HistoryType,
                          transportVars, engineVars, historyVars

\* A command that triggers a report from an idle task.
LEMMA CommandTrigger ==
  ASSUME WalkInv, NEW cb \in Callbacks, NEW rx, ZAF_TSE_Trigger(cb, rx),
         UNCHANGED <<transportVars, task>>, rxOption' \in RxOptions
  PROVE  WalkInv'
<1>1. UNCHANGED <<txQueue, busy, paused, air, task>>
  BY DEF transportVars
<1>2. EngineType' /\ HistoryType' /\ OneWalk'
  BY <1>1, TriggerWalk
<1> QED BY <1>1, <1>2 DEF WalkInv, TransportType, ControlInv

LEMMA DoneWalk ==
  ASSUME WalkInv, Answerable, OperationSetDone
  PROVE  WalkInv'
<1>1. /\ HandlingCC /\ ZAF_TSE_Trigger("operation", rxOption)
      /\ UNCHANGED <<busy, paused, air, rxOption>>
  BY DEF OperationSetDone, Take
<1>2. Called(task) = 0 /\ TransportType /\ (air # NoFrame => busy) /\ rxOption \in RxOptions
  BY <1>1, HandlingStack DEF WalkInv, ControlInv
<1>3. Loop \in Outer /\ Under(Loop) /\ "operation" \in Callbacks
  BY CallbacksAssumption DEF Outer, Under, LockCallbacks
<1>4. TransportType' /\ ControlInv' /\ Called(task') = 0 /\ Queued(txQueue') = Queued(txQueue)
  <2>1. CASE rxOption.statusUpdate
    <3>1. PICK frame : frame = [to |-> rxOption.node, by |-> NoCallback]
      OBVIOUS
    <3>2. frame \in Frames /\ frame.by = NoCallback
      BY <2>1, <3>1 DEF Frames, Answerable
    <3>3. zaf_transport_tx(frame, Loop)
      BY <2>1, <3>1 DEF OperationSetDone
    <3>4. Queued(txQueue) \in Nat
      BY <1>2, MarkedFinite DEF TransportType
    <3> QED BY <1>1, <1>2, <1>3, <3>2, <3>3, <3>4, Sent
  <2>2. CASE ~rxOption.statusUpdate
    <3>1. task' = Loop /\ UNCHANGED txQueue
      BY <2>2 DEF OperationSetDone
    <3>2. ControlInv' /\ Called(task') = 0
      BY <1>1, <1>2, <1>3, <3>1, UnderStack
    <3> QED BY <1>1, <1>2, <3>1, <3>2 DEF TransportType
  <2> QED BY <2>1, <2>2
<1>5. EngineType' /\ HistoryType' /\ OneWalk'
  BY <1>1, <1>2, <1>3, <1>4, TriggerWalk
<1> QED BY <1>1, <1>2, <1>4, <1>5 DEF WalkInv

LEMMA FreshWalk ==
  ASSUME txQueue = <<>>, busy = FALSE, paused = FALSE, air = NoFrame,
         slot = [i \in 1 .. Triggers |-> Free], current = 0, timer = "off", task = <<>>,
         rxOption = Cleared,
         owed = [c \in Callbacks |-> {}], skipped = [c \in Callbacks |-> {}], refused = {}
  PROVE  WalkInv
<1>1. txQueue \in Seq(Frames) /\ Len(txQueue) = 0
  BY EmptySeq
<1>2. TransportType /\ EngineType /\ HistoryType /\ rxOption \in RxOptions
  <2>1. \A size \in Nat : 0 <= size
    OBVIOUS
  <2>2. Len(txQueue) <= QueueSize
    BY <1>1, <2>1, SizeAssumption, Zenon
  <2>3. TransportType
    BY <1>1, <2>2, Zenon DEF TransportType
  <2>4. EngineType
    BY SizeAssumption DEF EngineType, Slots
  <2> QED BY <2>3, <2>4, OptionTypes DEF HistoryType
<1>3. ControlInv
  BY DEF ControlInv, CallStack, Outer
<1>4. Marked(txQueue) = {} /\ Called(task) = 0
  BY <1>1, <1>3, CalledOnce DEF Marked, ControlInv
<1>5. Tokens = 0
  BY <1>4, FS_EmptySet, TokenSum DEF Queued, InAir, Timed
<1>6. OneWalk
  BY <1>5 DEF OneWalk
<1> QED BY <1>2, <1>3, <1>6 DEF WalkInv

LEMMA PowerLossWalk ==
  ASSUME PowerLoss
  PROVE  WalkInv'
<1>1. /\ txQueue' = <<>> /\ busy' = FALSE /\ paused' = FALSE /\ air' = NoFrame
      /\ slot' = [i \in 1 .. Triggers |-> Free] /\ current' = 0 /\ timer' = "off"
      /\ task' = <<>> /\ rxOption' = Cleared
      /\ owed' = [c \in Callbacks |-> {}] /\ skipped' = [c \in Callbacks |-> {}]
      /\ refused' = {}
  BY DEF PowerLoss
<1>2. txQueue' \in Seq(Frames) /\ Len(txQueue') = 0
  BY <1>1, EmptySeq
<1>3. TransportType' /\ EngineType' /\ HistoryType' /\ rxOption' \in RxOptions
  <2>1. \A size \in Nat : 0 <= size
    OBVIOUS
  <2>2. Len(txQueue') <= QueueSize
    BY <1>2, <2>1, SizeAssumption, Zenon
  <2>3. TransportType'
    BY <1>1, <1>2, <2>2, Zenon DEF TransportType
  <2>4. EngineType'
    BY <1>1, SizeAssumption DEF EngineType, Slots
  <2> QED BY <1>1, <2>3, <2>4, OptionTypes DEF HistoryType
<1>4. ControlInv'
  BY <1>1 DEF ControlInv, CallStack, Outer
<1>5. Marked(txQueue') = {} /\ Called(task') = 0
  BY <1>1, <1>2, <1>4, CalledOnce DEF Marked, ControlInv
<1>6. Tokens' = 0
  BY <1>1, <1>5, FS_EmptySet, TokenSum DEF Queued, InAir, Timed
<1>7. OneWalk'
  BY <1>1, <1>6 DEF OneWalk
<1> QED BY <1>3, <1>4, <1>7 DEF WalkInv

LEMMA WalkNext ==
  ASSUME WalkInv, Answerable, status \in [Callbacks -> Reports], [Next]_vars
  PROVE  WalkInv'
<1>0. rxOption \in RxOptions
  BY DEF WalkInv
<1>1. ASSUME NEW rx \in RemoteOptions, NEW mode \in Modes, OperationSet(rx, mode) PROVE WalkInv'
  BY <1>1, StillWalk, OptionTypes DEF OperationSet
<1>2. ASSUME NEW rx \in RemoteOptions, ConfigurationSet(rx) PROVE WalkInv'
  <2>1. "configuration" \in Callbacks
    BY CallbacksAssumption DEF LockCallbacks
  <2> QED BY <1>2, <2>1, CommandTrigger, OptionTypes DEF ConfigurationSet
<1>3. ASSUME NEW latch, OutsideDoorHandleState(latch) PROVE WalkInv'
  <2>1. "operation" \in Callbacks
    BY CallbacksAssumption DEF LockCallbacks
  <2> QED BY <1>3, <2>1, CommandTrigger, OptionTypes DEF OutsideDoorHandleState
<1>4. ASSUME NEW mode, user_credential_handle_set(mode) PROVE WalkInv'
  BY <1>0, <1>4, StillWalk DEF user_credential_handle_set
<1>5. CASE OtherEvent \/ UNCHANGED vars
  BY <1>0, <1>5, StillWalk DEF OtherEvent, vars, statusVars
<1>6. CASE PowerLoss
  BY <1>6, PowerLossWalk
<1>7. ASSUME NEW n \in Nodes, Reply(n) PROVE WalkInv'
  BY <1>7, ReplyWalk
<1>8. CASE TransmissionDone \/ zaf_transport_pause \/ zaf_transport_resume \/ TimerExpires
  BY <1>8, QueueControlWalk
<1>9. CASE TaskStep \/ ZAF_TSE_TimerCallback
  BY <1>9, EmptyWalk, HandOverWalk, CallbackWalk, TXCallbackWalk, TimerWalk DEF TaskStep
<1>10. CASE OperationSetDone
  BY <1>10, DoneWalk
<1>11. CASE CC_DoorLock_Toggle \/ ValidationEvent
  <2>1. Loop \in Outer
    BY DEF Outer
  <2>2. HandlingCC /\ task' = Loop /\ UNCHANGED <<transportVars, engineVars, historyVars>>
        /\ rxOption' \in {rxOption, Cleared}
    BY <1>11 DEF CC_DoorLock_Toggle, ValidationEvent, Take
  <2> QED BY <1>0, <2>1, <2>2, LoopWalk, OptionTypes
<1>12. CASE EventsHandled
  <2>1. /\ task # <<>> /\ Head(task) = "EventHandlerCC" /\ task' = Tail(task)
        /\ UNCHANGED <<transportVars, engineVars, historyVars, rxOption>>
    BY <1>12 DEF EventsHandled, Running, Return
  <2>2. HandlingCC
    BY <2>1 DEF HandlingCC, Running
  <2>3. task' \in Outer
    BY <2>1, TopOfStack DEF WalkInv, ControlInv, Outer
  <2> QED BY <1>0, <2>1, <2>2, <2>3, LoopWalk
<1> QED BY <1>1, <1>2, <1>3, <1>4, <1>5, <1>6, <1>7, <1>8, <1>9, <1>10, <1>11, <1>12
       DEF Next, FromOutside, Engine, EventHandlerCC

\* The engine's part of the state, with what it needs of the lock's.
LEMMA WalkInvariant == Spec => []WalkInv
<1>1. Init => WalkInv
  BY FreshWalk DEF Init, StatusInit, Cleared
<1>2. BoltInv /\ TransportInv /\ WalkInv /\ [Next]_vars => WalkInv'
  BY WalkNext, CallbacksAssumption DEF BoltInv, LockShape, TransportInv
<1> QED BY <1>1, <1>2, BoltInvariant, TransportInvariant, PTL DEF Spec

(***************************************************************************)
(* ZAF_TSE.c: whatever commands, replies, pauses, refused frames and power *)
(* losses there are, a pending trigger is the current one, and the walk    *)
(* over the lifeline is carried by one token, or by none after the         *)
(* transport queue refused a report.                                       *)
(***************************************************************************)
THEOREM OneWalkAtATime == Spec => []OneWalk
<1>1. WalkInv => OneWalk
  BY DEF WalkInv
<1> QED BY <1>1, WalkInvariant, PTL

-------------------------------------------------------------------------------
(* The queue of events *)

QueueInv ==
  /\ Len(ccQueue) <= CcQueueSize
  /\ excuse \in {"none", "event lost", "reset"}
  /\ commands \in 0 .. MaxCommands

LEMMA EnqueueFits ==
  ASSUME NEW queue \in Seq(Events), Len(queue) <= CcQueueSize, NEW event \in Events
  PROVE  Enqueued(queue, event) \in Seq(Events) /\ Len(Enqueued(queue, event)) <= CcQueueSize
<1>1. Len(queue) \in Nat /\ CcQueueSize \in Nat
  BY LenProperties, CcQueueAssumption
<1>2. Append(queue, event) \in Seq(Events) /\ Len(Append(queue, event)) = Len(queue) + 1
  BY AppendProperties
<1> QED BY <1>1, <1>2 DEF Enqueued, Full

LEMMA QueueNext ==
  ASSUME QueueInv, ccQueue \in Seq(Events), [Next]_vars
  PROVE  QueueInv'
<1>1. Len(ccQueue) <= CcQueueSize /\ CcQueueSize \in Nat
  BY CcQueueAssumption DEF QueueInv
<1>2. ccQueue # <<>> => Tail(ccQueue) \in Seq(Events) /\ Len(Tail(ccQueue)) <= CcQueueSize
  <2>1. ASSUME ccQueue # <<>>
        PROVE  Tail(ccQueue) \in Seq(Events) /\ Len(Tail(ccQueue)) <= CcQueueSize
    <3>1. /\ Tail(ccQueue) \in Seq(Events) /\ Len(ccQueue) \in Nat
          /\ Len(Tail(ccQueue)) = Len(ccQueue) - 1
      BY <2>1, TailSeq
    <3> QED BY <1>1, <3>1
  <2> QED BY <2>1
<1>3. PICK validate : validate = Enqueued(ccQueue, "VALIDATE")
  OBVIOUS
<1>4. validate \in Seq(Events) /\ Len(validate) <= CcQueueSize
  BY <1>1, <1>3, EnqueueFits DEF Events
<1> DEFINE Later ==
        /\ \/ ccQueue' = ccQueue
           \/ \E event \in Events : ccQueue' = Enqueued(ccQueue, event)
           \/ \E event \in Events : ccQueue' = Enqueued(validate, event)
           \/ ccQueue # <<>> /\ ccQueue' = Tail(ccQueue)
           \/ ccQueue # <<>> /\ \E event \in Events : ccQueue' = Enqueued(Tail(ccQueue), event)
           \/ ccQueue' = <<>>
        /\ commands' = commands \/ (commands < MaxCommands /\ commands' = commands + 1)
        /\ excuse' \in {excuse, "none", "event lost"}
<1>5. Later
  <2>1. ASSUME NEW rx, NEW mode, OperationSet(rx, mode) PROVE Later
    BY <2>1 DEF OperationSet, Command, cc_door_lock_mode_hw_change, NotedLoss, Events
  <2>2. ASSUME NEW rx, ConfigurationSet(rx) PROVE Later
    BY <2>2 DEF ConfigurationSet, Command, SaveStatus
  <2>3. ASSUME NEW latch, OutsideDoorHandleState(latch) PROVE Later
    BY <2>3 DEF OutsideDoorHandleState, Command, SaveStatus
  <2>4. ASSUME NEW mode, user_credential_handle_set(mode) PROVE Later
    BY <1>3, <2>4 DEF user_credential_handle_set, Command, cc_door_lock_mode_hw_change,
                      NotedLoss, Events
  <2>5. CASE OtherEvent
    BY <2>5 DEF OtherEvent, Command, Events
  <2>6. CASE PowerLoss
    BY <2>6 DEF PowerLoss
  <2>7. CASE Command /\ UNCHANGED <<ccQueue, saved, excuse>>
    BY <2>7 DEF Command
  <2>8. CASE Engine \/ EventsHandled \/ UNCHANGED vars
    BY <2>8 DEF Engine, EventsHandled, vars, lockVars
  <2>9. CASE OperationSetDone
    BY <2>9 DEF OperationSetDone, Take, SaveStatus
  <2>10. CASE CC_DoorLock_Toggle
    BY <2>10 DEF CC_DoorLock_Toggle, Take, SaveStatus, cc_door_lock_mode_hw_change, Events
  <2>11. CASE ValidationEvent
    BY <2>11 DEF ValidationEvent, Take, Events
  <2> QED BY <2>1, <2>2, <2>3, <2>4, <2>5, <2>6, <2>7, <2>8, <2>9, <2>10, <2>11
         DEF Next, FromOutside, EventHandlerCC
<1>6. Len(ccQueue') <= CcQueueSize
  <2>1. CASE ccQueue' = <<>>
    <3>1. Len(ccQueue') = 0
      BY <2>1
    <3> QED BY <1>1, <3>1
  <2>2. ASSUME NEW queue \in Seq(Events), Len(queue) <= CcQueueSize, NEW event \in Events,
               ccQueue' = Enqueued(queue, event)
        PROVE  Len(ccQueue') <= CcQueueSize
    BY <2>2, EnqueueFits
  <2> QED BY <1>1, <1>2, <1>4, <1>5, <2>1, <2>2
<1>7. commands' \in 0 .. MaxCommands
  <2>1. commands' = commands \/ (commands < MaxCommands /\ commands' = commands + 1)
    BY <1>5
  <2>2. commands \in 0 .. MaxCommands /\ MaxCommands \in Nat
    BY CcQueueAssumption DEF QueueInv
  <2> HIDE DEF Later
  <2> QED BY <2>1, <2>2
<1> QED BY <1>5, <1>6, <1>7 DEF QueueInv

LEMMA QueueInvariant == Spec => []QueueInv
<1>1. Init => QueueInv
  <2> SUFFICES ASSUME Init PROVE QueueInv
    OBVIOUS
  <2>1. ccQueue = <<>> /\ excuse = "reset" /\ commands = 0
    BY DEF Init
  <2>2. Len(ccQueue) = 0
    BY <2>1, EmptySeq
  <2> QED BY <2>1, <2>2, CcQueueAssumption DEF QueueInv
<1>2. BoltInv /\ QueueInv /\ [Next]_vars => QueueInv'
  BY QueueNext DEF BoltInv, LockShape
<1> QED BY <1>1, <1>2, BoltInvariant, PTL DEF Spec

(***************************************************************************)
(* The state of the lock, of the engine and of the two queues keeps its    *)
(* type; in particular neither queue grows past its configured size.       *)
(***************************************************************************)
THEOREM LockTypes == Spec => []LockTypeOK
<1>1. BoltInv /\ WalkInv /\ QueueInv => LockTypeOK
  <2> SUFFICES ASSUME BoltInv, WalkInv, QueueInv PROVE LockTypeOK
    OBVIOUS
  <2>1. task \in Seq(TaskSteps)
    BY TopOfStack DEF WalkInv, ControlInv
  <2>2. status \in [Callbacks -> Reports] /\ ccQueue \in Seq(Events) /\ saved \in Modes
    BY CallbacksAssumption DEF BoltInv, LockShape
  <2> QED BY <2>1, <2>2 DEF LockTypeOK, StatusTypeOK, WalkInv, TransportType, EngineType,
                            HistoryType, QueueInv, TaskSteps
<1> QED BY <1>1, BoltInvariant, WalkInvariant, QueueInvariant, PTL
=============================================================================
