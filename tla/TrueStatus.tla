------------------------------ MODULE TrueStatus ------------------------------
(***************************************************************************)
(* The transport queue (zaf_transport_tx.c) and the True Status Engine     *)
(* (ZAF_TSE.c) on top of it, which reports a change to every node of the   *)
(* lifeline but the one that asked for it.                                 *)
(*                                                                         *)
(* All of it runs in the application task.  task is the call stack of that *)
(* task: while it is not empty no other handler runs, and each round of a  *)
(* loop or of a callback chain is a step of the model.  The protocol below *)
(* ZAF_Transmit is external: it refuses a frame at once, or takes it and   *)
(* later says that the transmission ended.                                 *)
(***************************************************************************)
EXTENDS Naturals, FiniteSets, SequencesExt

CONSTANTS Nodes,      \* nodes that send commands and receive reports
          NoNode,     \* the source of a local change
          Lifeline,   \* the nodes of the lifeline group, in its order
          Callbacks,  \* the report functions given to ZAF_TSE_Trigger
          Reports,    \* what a report can say
          Triggers,   \* ZAF_TSE_MAXIMUM_SIMULTANEOUS_TRIGGERS
          QueueSize   \* ZAF_TRANSPORT_CONFIG_QUEUE_SIZE

NoCallback == "no callback"
NoFrame == [to |-> NoNode, by |-> NoCallback]

ASSUME LifelineAssumption ==
  /\ NoNode \notin Nodes
  /\ NoCallback \notin Callbacks
  /\ Lifeline \in Seq(Nodes) /\ Len(Lifeline) > 0

ASSUME SizeAssumption == Triggers \in Nat \ {0} /\ QueueSize \in Nat \ {0}

VARIABLES txQueue,   \* transport_queue: frames not yet handed to the protocol
          busy,      \* transport_busy
          paused,    \* transport_queue_paused
          air,       \* the frame the protocol works on, with its callback
          slot,      \* TSE_ResourceArray
          current,   \* index of pCurrentTrigger, 0 for NULL
          timer,     \* zaf_tse_timer
          rxOption,  \* the receive options pData points to, read when a report is sent
          status,    \* what each callback would report now
          task,      \* call stack of the application task, innermost first
          owed,      \* history: the nodes that wait for a callback's report
          skipped,   \* history: the nodes a walk passed over since the callback's trigger
          refused    \* history: "queue" and "trigger" when one turned a report away

transportVars == <<txQueue, busy, paused, air>>
engineVars == <<slot, current, timer>>
historyVars == <<owed, skipped, refused>>
statusVars == <<transportVars, engineVars, rxOption, status, task, historyVars>>

\* What the engine and its clients read of a command's receive options.
RxOptions == [node : Nodes \cup {NoNode}, multicast : BOOLEAN, statusUpdate : BOOLEAN]

\* A frame in the queue; by is the trigger callback that sent it, NoCallback for a reply.
Frames == [to : Nodes, by : Callbacks, says : Reports] \cup [to : Nodes, by : {NoCallback}]

Free == [callback |-> NoCallback, left |-> 0]
ListLen == Len(Lifeline)
Slots == [callback : Callbacks, left : 1 .. ListLen] \cup {Free}

StatusTypeOK ==
  /\ txQueue \in Seq(Frames) /\ Len(txQueue) <= QueueSize
  /\ busy \in BOOLEAN /\ paused \in BOOLEAN
  /\ air \in Frames \cup {NoFrame}
  /\ slot \in [1 .. Triggers -> Slots]
  /\ current \in 0 .. Triggers
  /\ timer \in {"off", "running", "expired"}
  /\ rxOption \in RxOptions
  /\ status \in [Callbacks -> Reports]
  /\ task \in Seq({"transport_tx", "transport_callback", "ZAF_TSE_TXCallback", "EventHandlerCC"})
  /\ owed \in [Callbacks -> SUBSET Nodes] /\ skipped \in [Callbacks -> SUBSET Nodes]
  /\ refused \subseteq {"queue", "trigger"}

\* zaf_transport_init and ZAF_TSE_Init.
StatusInit ==
  /\ txQueue = <<>> /\ busy = FALSE /\ paused = FALSE /\ air = NoFrame
  /\ slot = [i \in 1 .. Triggers |-> Free] /\ current = 0 /\ timer = "off"
  /\ rxOption = [node |-> NoNode, multicast |-> FALSE, statusUpdate |-> FALSE]
  /\ task = <<>>
  /\ owed = [c \in Callbacks |-> {}] /\ skipped = [c \in Callbacks |-> {}] /\ refused = {}

Idle == task = <<>>
Running(step) == task # <<>> /\ Head(task) = step
Return == Tail(task)

-------------------------------------------------------------------------------
(* The transport queue *)

Full(queue, size) == Len(queue) >= size

\* zaf_transport_tx with the frame; rest is what its caller does next.
zaf_transport_tx(frame, rest) ==
  IF Full(txQueue, QueueSize)
  THEN task' = rest /\ UNCHANGED txQueue
  ELSE /\ txQueue' = Append(txQueue, frame)
       /\ task' = IF busy \/ paused THEN rest ELSE <<"transport_tx">> \o rest

\* transport_tx when no frame is left.
QueueEmpty ==
  /\ Running("transport_tx") /\ txQueue = <<>>
  /\ busy' = FALSE
  /\ task' = Return
  /\ UNCHANGED <<txQueue, paused, air, engineVars, rxOption, status, historyVars>>

\* transport_tx: the next frame goes to the protocol, which takes it, or refuses it and has
\* transport_callback called at once.
HandOver ==
  /\ Running("transport_tx") /\ txQueue # <<>>
  /\ busy' = TRUE
  /\ air' = Head(txQueue)
  /\ txQueue' = Tail(txQueue)
  /\ task' \in {Return, <<"transport_callback">> \o Return}
  /\ LET f == Head(txQueue) IN
     owed' = [c \in Callbacks |->
                IF f.by = c /\ f.says = status[c] THEN owed[c] \ {f.to} ELSE owed[c]]
  /\ UNCHANGED <<paused, engineVars, rxOption, status, skipped, refused>>

\* EventHandlerZwCommandStatus: the protocol says that the transmission ended.
TransmissionDone ==
  /\ Idle /\ air # NoFrame
  /\ task' = <<"transport_callback">>
  /\ UNCHANGED <<transportVars, engineVars, rxOption, status, historyVars>>

\* transport_callback: the frame's own callback first, then the next frame unless paused.
transport_callback ==
  /\ Running("transport_callback")
  /\ air' = NoFrame
  /\ busy' = ~paused
  /\ LET next == IF paused THEN Return ELSE <<"transport_tx">> \o Return IN
     task' = IF air.by = NoCallback THEN next ELSE <<"ZAF_TSE_TXCallback">> \o next
  /\ UNCHANGED <<txQueue, paused, engineVars, rxOption, status, historyVars>>

\* A firmware update pauses the queue and its timer resumes it.
zaf_transport_pause ==
  /\ Idle /\ ~paused
  /\ paused' = TRUE
  /\ UNCHANGED <<txQueue, busy, air, engineVars, rxOption, status, task, historyVars>>

\* Mutant of zaf_transport_resume: the frames queued meanwhile are not sent.
zaf_transport_resume_NoSend ==
  /\ Idle /\ paused
  /\ paused' = FALSE
  /\ UNCHANGED <<txQueue, busy, air, engineVars, rxOption, status, task, historyVars>>

zaf_transport_resume ==
  /\ Idle /\ paused
  /\ paused' = FALSE
  /\ task' = IF busy THEN <<>> ELSE <<"transport_tx">>
  /\ UNCHANGED <<txQueue, busy, air, engineVars, rxOption, status, historyVars>>

\* A reply that a command class sends through the queue without a callback.
Reply(n) ==
  /\ Idle
  /\ zaf_transport_tx([to |-> n, by |-> NoCallback], <<>>)
  /\ UNCHANGED <<busy, paused, air, engineVars, rxOption, status, historyVars>>

-------------------------------------------------------------------------------
(* The engine *)

\* The node a trigger has reached in the list.
CurrentNode(s) == Lifeline[ListLen - s.left + 1]

FreeSlots == {i \in 1 .. Triggers : slot[i] = Free}
FirstOf(S) == CHOOSE i \in S : \A j \in S : i <= j

\* ZAF_TSE_Trigger(cb, &rx, true) as a part of its caller's step.
ZAF_TSE_Trigger(cb, rx) ==
  /\ skipped' = [skipped EXCEPT ![cb] = {}]
  /\ IF rx.multicast \/ Lifeline = <<rx.node>>
     THEN /\ owed' = [owed EXCEPT ![cb] = {}]
          /\ UNCHANGED <<engineVars, refused>>
     ELSE /\ owed' = [owed EXCEPT ![cb] = ToSet(Lifeline) \ {rx.node}]
          /\ \/ /\ timer # "off" /\ \E i \in 1 .. Triggers : slot[i].callback = cb
                /\ timer' = "running"
                /\ UNCHANGED <<slot, current, refused>>
             \/ /\ timer = "off" \/ \A i \in 1 .. Triggers : slot[i].callback # cb
                /\ FreeSlots = {}
                /\ refused' = refused \cup {"trigger"}
                /\ UNCHANGED engineVars
             \/ /\ timer = "off" \/ \A i \in 1 .. Triggers : slot[i].callback # cb
                /\ FreeSlots # {}
                /\ LET i == FirstOf(FreeSlots) IN
                   /\ slot' = [slot EXCEPT ![i] = [callback |-> cb, left |-> ListLen]]
                   /\ current' = IF current = 0 THEN i ELSE current
                /\ timer' = IF current = 0 THEN "running" ELSE timer
                /\ UNCHANGED refused

\* InvokeRegisteredCallback for the trigger: its report is made and queued; a refusal of the
\* queue is ignored.
InvokeRegisteredCallback(s, rest) ==
  /\ zaf_transport_tx([to |-> CurrentNode(s), by |-> s.callback, says |-> status[s.callback]],
                      rest)
  /\ refused' = IF Full(txQueue, QueueSize) THEN refused \cup {"queue"} ELSE refused

\* The node the trigger has reached asked for the change and gets no report.
IsSource(s) == rxOption.node = CurrentNode(s)
Skip(s) == skipped' = [skipped EXCEPT ![s.callback] = @ \cup {CurrentNode(s)}]

\* The software timer runs out, in the timer task.
TimerExpires ==
  /\ timer = "running"
  /\ timer' = "expired"
  /\ UNCHANGED <<transportVars, slot, current, rxOption, status, task, historyVars>>

ZAF_TSE_TimerCallback ==
  /\ Idle /\ timer = "expired"
  /\ timer' = "off"
  /\ \/ /\ IsSource(slot[current]) /\ Skip(slot[current])
        /\ task' = <<"ZAF_TSE_TXCallback">>
        /\ UNCHANGED <<txQueue, refused>>
     \/ /\ ~IsSource(slot[current])
        /\ InvokeRegisteredCallback(slot[current], <<>>)
        /\ UNCHANGED skipped
  /\ UNCHANGED <<busy, paused, air, slot, current, rxOption, status, owed>>

\* Mutant of Advanced: the trigger is freed one node early.
Advanced_Early ==
  [slot EXCEPT ![current] = IF @.left <= 2 THEN Free ELSE [@ EXCEPT !.left = @ - 1]]

\* The array after the current trigger has done a node.
Advanced ==
  LET s == slot[current] IN
  [slot EXCEPT ![current] = IF s.left = 1 THEN Free ELSE [s EXCEPT !.left = @ - 1]]

\* Mutant of NextTrigger: the other pending triggers are not looked for.
NextTrigger_NoSearch == IF Advanced[current] # Free THEN current ELSE 0

\* The current trigger, or the next one after it, cyclically, once it is done; 0 if there is none.
NextTrigger ==
  LET pending == {i \in 1 .. Triggers : Advanced[i] # Free}
      distance(i) == (i + Triggers - current - 1) % Triggers
  IN IF Advanced[current] # Free THEN current
     ELSE IF pending = {} THEN 0
     ELSE CHOOSE i \in pending : \A j \in pending : distance(i) <= distance(j)

\* One round of the loop in ZAF_TSE_TXCallback; the node that asked for the change is skipped.
ZAF_TSE_TXCallback ==
  LET next == NextTrigger IN
  /\ Running("ZAF_TSE_TXCallback")
  /\ slot' = Advanced
  /\ current' = next
  /\ \/ /\ next = 0
        /\ task' = Return
        /\ UNCHANGED <<txQueue, skipped, refused>>
     \/ /\ next # 0 /\ IsSource(Advanced[next]) /\ Skip(Advanced[next])
        /\ UNCHANGED <<txQueue, task, refused>>
     \/ /\ next # 0 /\ ~IsSource(Advanced[next])
        /\ InvokeRegisteredCallback(Advanced[next], Return)
        /\ UNCHANGED skipped
  /\ UNCHANGED <<busy, paused, air, timer, rxOption, status, owed>>

\* A step the application task takes inside a handler.
TaskStep == QueueEmpty \/ HandOver \/ transport_callback \/ ZAF_TSE_TXCallback
===============================================================================
