------------------------------- MODULE DoorLock -------------------------------
(***************************************************************************)
(* The Door Lock command class (CC_DoorLock.c), the bolt it moves          *)
(* (hardware/cc_door_lock.c), the queue of command class events, and the   *)
(* keypad that asks for a validation, composed with the True Status Engine *)
(* that tells the lifeline what changed.                                   *)
(*                                                                         *)
(* The lock keeps one set of receive options for both of its reports:      *)
(* rxOption is door_lock_rx_option.  status holds the bolt and the latch   *)
(* ("operation") and the handle configuration ("configuration").           *)
(***************************************************************************)
EXTENDS TrueStatus

CONSTANTS CcQueueSize,  \* ZAF_EVENT_DISTRIBUTOR_SOC_CONFIG_CC_QUEUE_SIZE
          MaxCommands   \* bound on what comes from outside

ASSUME CcQueueAssumption == CcQueueSize \in Nat \ {0} /\ MaxCommands \in Nat

VARIABLES ccQueue,   \* m_CCEventQueue
          saved,     \* the bolt in the condition field of the stored cc_door_lock_data_t
          excuse,    \* history: why the bolt may differ from saved with no event queued
          commands   \* commands, entries and power losses so far

lockVars == <<ccQueue, saved, excuse, commands>>
vars == <<statusVars, lockVars>>

Modes == {"secured", "unsecure"}
Opposite(mode) == IF mode = "secured" THEN "unsecure" ELSE "secured"
Events == {"HW_OPERATION_DONE", "TOGGLE", "VALIDATE", "VALIDATE_VALID", "VALIDATE_INVALID",
           "OTHER"}

LockCallbacks == {"operation", "configuration"}
LockReports == [bolt : Modes, latch : {"open", "closed"}] \cup [handles : BOOLEAN]

ASSUME CallbacksAssumption == Callbacks = LockCallbacks /\ Reports = LockReports

bolt == status["operation"].bolt
outsideDoorHandleMode == status["configuration"].handles

LockTypeOK ==
  /\ StatusTypeOK
  /\ ccQueue \in Seq(Events) /\ Len(ccQueue) <= CcQueueSize
  /\ saved \in Modes
  /\ excuse \in {"none", "event lost", "reset"}
  /\ commands \in 0 .. MaxCommands

\* The first start: there is no stored data, and reset opens the bolt and stores condition 0,
\* which means a locked bolt.
Init ==
  /\ StatusInit
  /\ status = [operation |-> [bolt |-> "unsecure", latch |-> "closed"],
               configuration |-> [handles |-> TRUE]]
  /\ ccQueue = <<>> /\ saved = "secured" /\ excuse = "reset"
  /\ commands = 0

-------------------------------------------------------------------------------
\* Mutant of Enqueued: the limit of the queue is not respected.
Enqueued_NoLimit(queue, event) == Append(queue, event)

\* zaf_event_distributor_enqueue_cc_event; its answer is ignored by every caller.
Enqueued(queue, event) == IF Full(queue, CcQueueSize) THEN queue ELSE Append(queue, event)

\* cc_door_lock_mode_hw_change with the events queued before it.
cc_door_lock_mode_hw_change(mode, queue) ==
  /\ status' = [status EXCEPT !["operation"].bolt = mode]
  /\ ccQueue' = Enqueued(queue, "HW_OPERATION_DONE")

\* A bolt that moved, no done event being queued and the queue being full.
NotedLoss(queue) ==
  IF Full(queue, CcQueueSize) /\ "HW_OPERATION_DONE" \notin ToSet(queue)
  THEN "event lost" ELSE excuse

\* Mutant of SaveStatus: the event is consumed and nothing is written.
SaveStatus_NoWrite(mode) == saved' = saved /\ excuse' = "none"

SaveStatus(mode) == saved' = mode /\ excuse' = "none"

\* doorlock_clear_rxopt
Cleared == [node |-> NoNode, multicast |-> FALSE, statusUpdate |-> FALSE]

Command == Idle /\ commands < MaxCommands /\ commands' = commands + 1

\* DOOR_LOCK_OPERATION_SET; one for the mode the lock is in changes nothing.
OperationSet(rx, mode) ==
  /\ Command
  /\ bolt # mode
  /\ cc_door_lock_mode_hw_change(mode, ccQueue)
  /\ excuse' = NotedLoss(ccQueue)
  /\ rxOption' = rx
  /\ UNCHANGED <<transportVars, engineVars, task, historyVars, saved>>

\* DOOR_LOCK_CONFIGURATION_SET with other handles than the ones in use.
ConfigurationSet(rx) ==
  /\ Command
  /\ status' = [status EXCEPT !["configuration"].handles = ~@]
  /\ SaveStatus(bolt)
  /\ rxOption' = rx
  /\ ZAF_TSE_Trigger("configuration", rx)
  /\ UNCHANGED <<transportVars, task, ccQueue>>

\* CC_DoorLock_SetOutsideDoorHandleState and CC_DoorLock_ClearOutsideDoorHandleState.
OutsideDoorHandleState(latch) ==
  /\ Command
  /\ outsideDoorHandleMode
  /\ status' = [status EXCEPT !["operation"].latch = latch]
  /\ SaveStatus(bolt)
  /\ rxOption' = Cleared
  /\ ZAF_TSE_Trigger("operation", Cleared)
  /\ UNCHANGED <<transportVars, task, ccQueue>>

\* user_credential_handle_set: the code is sent to be validated, and the bolt moves at once when
\* the code would be accepted as a new one.
user_credential_handle_set(mode) ==
  LET queue == Enqueued(ccQueue, "VALIDATE") IN
  /\ Command
  /\ \/ cc_door_lock_mode_hw_change(mode, queue) /\ excuse' = NotedLoss(queue)
     \/ ccQueue' = queue /\ UNCHANGED <<status, excuse>>
  /\ UNCHANGED <<transportVars, engineVars, rxOption, task, historyVars, saved>>

\* An event of another command class, for instance the start of a credential learn session.
OtherEvent ==
  /\ Command
  /\ ccQueue' = Enqueued(ccQueue, "OTHER")
  /\ UNCHANGED <<statusVars, saved, excuse>>

\* The power fails; init restores the bolt from the stored condition and closes the latch.
PowerLoss ==
  /\ commands < MaxCommands /\ commands' = commands + 1
  /\ txQueue' = <<>> /\ busy' = FALSE /\ paused' = FALSE /\ air' = NoFrame
  /\ slot' = [i \in 1 .. Triggers |-> Free] /\ current' = 0 /\ timer' = "off"
  /\ status' = [status EXCEPT !["operation"] = [bolt |-> saved, latch |-> "closed"]]
  /\ rxOption' = Cleared /\ task' = <<>> /\ ccQueue' = <<>>
  /\ owed' = [c \in Callbacks |-> {}] /\ skipped' = owed' /\ refused' = {}
  /\ excuse' = "none"
  /\ UNCHANGED saved

-------------------------------------------------------------------------------
(* EventHandlerCC takes events until the queue is empty. *)

HandlingCC == Idle \/ Running("EventHandlerCC")
Loop == <<"EventHandlerCC">>

Take(event) == HandlingCC /\ ccQueue # <<>> /\ Head(ccQueue) = event

\* cc_door_lock_operation_set_done
OperationSetDone ==
  /\ Take("HW_OPERATION_DONE")
  /\ ccQueue' = Tail(ccQueue)
  /\ SaveStatus(bolt)
  /\ ZAF_TSE_Trigger("operation", rxOption)
  /\ IF rxOption.statusUpdate
     THEN zaf_transport_tx([to |-> rxOption.node, by |-> NoCallback], Loop)
     ELSE task' = Loop /\ UNCHANGED txQueue
  /\ UNCHANGED <<busy, paused, air, rxOption, status, commands>>

CC_DoorLock_Toggle ==
  /\ Take("TOGGLE")
  /\ cc_door_lock_mode_hw_change(Opposite(bolt), Tail(ccQueue))
  /\ SaveStatus(Opposite(bolt))
  /\ rxOption' = Cleared
  /\ task' = Loop
  /\ UNCHANGED <<transportVars, engineVars, historyVars, commands>>

\* The validation finds a stored credential of an active user or it does not, and
\* the application turns a valid one into a toggle.
ValidationEvent ==
  /\ \/ /\ Take("VALIDATE")
        /\ \E answer \in {"VALIDATE_VALID", "VALIDATE_INVALID"} :
             ccQueue' = Enqueued(Tail(ccQueue), answer)
     \/ Take("VALIDATE_VALID") /\ ccQueue' = Enqueued(Tail(ccQueue), "TOGGLE")
     \/ Take("VALIDATE_INVALID") /\ ccQueue' = Tail(ccQueue)
     \/ Take("OTHER") /\ ccQueue' = Tail(ccQueue)
  /\ task' = Loop
  /\ UNCHANGED <<transportVars, engineVars, rxOption, status, historyVars, saved, excuse,
                 commands>>

EventsHandled ==
  /\ Running("EventHandlerCC") /\ ccQueue = <<>>
  /\ task' = Return
  /\ UNCHANGED <<transportVars, engineVars, rxOption, status, historyVars, lockVars>>

EventHandlerCC ==
  OperationSetDone \/ CC_DoorLock_Toggle \/ ValidationEvent \/ EventsHandled

-------------------------------------------------------------------------------
RemoteOptions == [node : Nodes, multicast : BOOLEAN, statusUpdate : BOOLEAN]

FromOutside ==
  \/ \E rx \in RemoteOptions, mode \in Modes : OperationSet(rx, mode)
  \/ \E rx \in RemoteOptions : ConfigurationSet(rx)
  \/ \E latch \in {"open", "closed"} : OutsideDoorHandleState(latch)
  \/ \E mode \in Modes : user_credential_handle_set(mode)
  \/ OtherEvent
  \/ PowerLoss
  \/ Command /\ UNCHANGED <<ccQueue, saved, excuse>>
     /\ (zaf_transport_pause \/ \E n \in Nodes : Reply(n))

Engine ==
  (TaskStep \/ TransmissionDone \/ TimerExpires \/ ZAF_TSE_TimerCallback
     \/ zaf_transport_resume) /\ UNCHANGED lockVars

Next == FromOutside \/ Engine \/ EventHandlerCC

(***************************************************************************)
(* Each handler of the application task is served once its event is        *)
(* pending, the timer runs out, the protocol answers every frame it took,  *)
(* and a firmware update that paused the queue ends.                       *)
(***************************************************************************)
Fairness ==
  /\ WF_vars(TaskStep /\ UNCHANGED lockVars)
  /\ WF_vars(TransmissionDone /\ UNCHANGED lockVars)
  /\ WF_vars(TimerExpires /\ UNCHANGED lockVars)
  /\ WF_vars(ZAF_TSE_TimerCallback /\ UNCHANGED lockVars)
  /\ WF_vars(zaf_transport_resume /\ UNCHANGED lockVars)
  /\ WF_vars(EventHandlerCC)

Spec == Init /\ [][Next]_vars /\ Fairness

-------------------------------------------------------------------------------
(***************************************************************************)
(* A walk over the lifeline is carried by one token: the timer, a report   *)
(* in the queue or in the air, or the callback that goes on with it.       *)
(***************************************************************************)
Tokens ==
  Cardinality({i \in 1 .. Len(txQueue) : txQueue[i].by # NoCallback})
    + Cardinality({i \in 1 .. Len(task) : task[i] = "ZAF_TSE_TXCallback"})
    + (IF air # NoFrame /\ air.by # NoCallback THEN 1 ELSE 0)
    + (IF timer # "off" THEN 1 ELSE 0)

(***************************************************************************)
(* ZAF_TSE.c: there is a current trigger exactly when some trigger is      *)
(* stored, its walk has exactly one token, and it has none only when the   *)
(* transport queue refused a report (the engine then stands still).        *)
(***************************************************************************)
OneWalk ==
  /\ current = 0 <=> \A i \in 1 .. Triggers : slot[i] = Free
  /\ current # 0 => slot[current] # Free
  /\ Tokens = IF current = 0 \/ (Tokens = 0 /\ "queue" \in refused) THEN 0 ELSE 1

(***************************************************************************)
(* The transport queue never sleeps on a frame: when the task is idle, a   *)
(* queued frame waits for the frame in the air or for the resume.          *)
(***************************************************************************)
QueueServed == Idle /\ txQueue # <<>> => air # NoFrame \/ paused

(***************************************************************************)
(* The stored bolt is the real one, or the event that stores it is queued. *)
(* The exceptions: the event queue refused that event, and reset stored a  *)
(* locked bolt while it opened it.                                         *)
(***************************************************************************)
SavedOrPending ==
  saved # bolt => "HW_OPERATION_DONE" \in ToSet(ccQueue) \/ excuse # "none"

(***************************************************************************)
(* Every node that a change is to be reported to is handed a report of the *)
(* state the lock is then in, unless the transport queue, the trigger      *)
(* array or the event queue refused one, or the walk took the node for the *)
(* source and passed it.                                                   *)
(***************************************************************************)
OwedGetsReport ==
  \A c \in LockCallbacks, n \in Nodes :
    n \in owed[c] ~>
      (n \notin owed[c] \/ n \in skipped[c] \/ refused # {} \/ excuse = "event lost")

(***************************************************************************)
(* CC_DoorLock.c says of the end of an Operation Set that it informs       *)
(* Lifeline destinations about new status: every lifeline node but the one *)
(* that asked, as long as nothing is refused.  A Configuration Set that    *)
(* comes before the report overwrites the receive options both share.      *)
(***************************************************************************)
InformsLifeline ==
  \A n \in Nodes :
    n \in owed["operation"] ~>
      (n \notin owed["operation"] \/ refused # {} \/ excuse = "event lost")
===============================================================================
