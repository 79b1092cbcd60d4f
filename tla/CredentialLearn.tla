---------------------------- MODULE CredentialLearn ----------------------------
(***************************************************************************)
(* Credential Learn (cc_user_credential_learn.c): a controller or the      *)
(* application opens a session for one credential, the application has its *)
(* reader ask for it, and the data it delivers is stored under the target  *)
(* of the session; a timer, a cancel or an unusable delivery ends it too.  *)
(*                                                                         *)
(* Everything but the reader and the timer runs in the application task.   *)
(* EventDistributor.c takes the notifications that are pending and calls   *)
(* their handlers in the order of its table: round is what is left of the  *)
(* handlers it took.  The handlers of the two event queues go on until     *)
(* their queue is empty.  The users and credentials are the ones           *)
(* CredentialStore implements; an operation on them is one step here.      *)
(***************************************************************************)
EXTENDS Naturals, Sequences, FiniteSets

CONSTANTS Nodes,         \* controllers
          Users,         \* User Unique Identifiers
          Slots,         \* slots of the PIN type, the one that can be learnt
          Codes,         \* PINs that follow the rules of their type
          DefaultCode,   \* the PIN of the application's default user
          CcQueueSize,   \* ZAF_EVENT_DISTRIBUTOR_SOC_CONFIG_CC_QUEUE_SIZE
          AppQueueSize,  \* ZAF_EVENT_DISTRIBUTOR_SOC_CONFIG_APP_QUEUE_SIZE
          MaxCommands    \* bound on what comes from outside

NoCode == "no code"
NoNode == "node 0"
Nobody == 0

ASSUME LearnAssumption ==
  /\ 1 \in Users /\ Nobody \notin Users /\ 1 \in Slots
  /\ DefaultCode \in Codes /\ NoCode \notin Codes /\ NoNode \notin Nodes
  /\ CcQueueSize \in Nat \ {0} /\ AppQueueSize \in Nat \ {0} /\ MaxCommands \in Nat

VARIABLES cl_state,      \* the session
          timer,         \* cl_timeout_timer
          ccQueue,       \* m_CCEventQueue
          appQueue,      \* m_AppEventQueue
          round,         \* the handlers that this round of the task still calls
          users,         \* the users that exist
          credentials,   \* slot |-> its owner and its PIN
          reading,       \* the reader was asked for data and has not delivered it
          session,       \* history: sessions opened so far
          ended,         \* history: session |-> the ways it ended, in order
          lost,          \* history: sessions that a full queue cost an event of theirs
          commands       \* what came from outside so far

database == <<users, credentials>>
history == <<session, ended, lost>>
vars == <<cl_state, timer, ccQueue, appQueue, round, database, reading, history, commands>>

Sessions == 1 .. MaxCommands
Targets == [operation : {"ADD", "MODIFY"}, user : Users, slot : Slots]

NoTarget == [operation |-> "ADD", user |-> Nobody, slot |-> 0]
NoSession == [in_progress |-> FALSE, target |-> NoTarget, source |-> NoNode]

NoCredential == [user |-> Nobody, code |-> NoCode]
Credentials == [user : Users, code : Codes]

\* The statuses that end a session, and its end without a report.
Ends == {"TIMEOUT", "SUCCESS", "ENDED_NOT_DUE_TO_TIMEOUT", "silent"}

Notices == {"LEARN_START", "LEARN_STEP_START", "LEARN_SUCCESS", "LEARN_FAILED",
            "LEARN_TIMEOUT", "LEARN_CANCEL_REMOTE", "LEARN_CANCEL_LOCAL", "LEARN_STEP_RETRY"}
Events == [name : Notices] \cup [name : {"LEARN_START_REQUEST"}, target : Targets]
            \cup [name : {"LEARN_READ_DONE"}, code : Codes \cup {NoCode}]
Notice(name) == [name |-> name]

AppEvents == {"CREDENTIAL_LEARN_START", "LEARNMODE_FINISHED"}

Handlers == {"TIMER", "ZWRX", "ZWCOMMANDSTATUS", "APP", "CC"}

\* g_aEventHandlerTable: the pending handlers, in the order of the table.
HandlerTable(pending) ==
  LET entry(handler) == IF handler \in pending THEN <<handler>> ELSE <<>>
  IN entry("TIMER") \o entry("ZWRX") \o entry("ZWCOMMANDSTATUS") \o entry("APP") \o entry("CC")

LearnTypeOK ==
  /\ cl_state \in [in_progress : BOOLEAN, target : Targets \cup {NoTarget},
                   source : Nodes \cup {NoNode}]
  /\ timer \in {"off", "running", "expired"}
  /\ ccQueue \in Seq(Events) /\ Len(ccQueue) <= CcQueueSize
  /\ appQueue \in Seq(AppEvents) /\ Len(appQueue) <= AppQueueSize
  /\ round \in Seq(Handlers)
  /\ users \subseteq Users
  /\ credentials \in [Slots -> Credentials \cup {NoCredential}]
  /\ reading \in BOOLEAN /\ session \in 0 .. commands
  /\ ended \in [Sessions -> Seq(Ends)]
  /\ lost \subseteq Sessions
  /\ commands \in 0 .. MaxCommands

\* init, with the default user and its PIN in the database.
Init ==
  /\ cl_state = NoSession /\ timer = "off"
  /\ ccQueue = <<>> /\ appQueue = <<>> /\ round = <<>>
  /\ users = {1}
  /\ credentials = [s \in Slots |-> IF s = 1 THEN [user |-> 1, code |-> DefaultCode]
                                    ELSE NoCredential]
  /\ reading = FALSE /\ session = 0 /\ ended = [s \in Sessions |-> <<>>] /\ lost = {}
  /\ commands = 0

FromOutside == commands < MaxCommands /\ commands' = commands + 1

-------------------------------------------------------------------------------
(* The task and its queues *)

Full(queue, size) == Len(queue) >= size

\* Mutant of Enqueued: the limit of the queue is not respected.
Enqueued_NoLimit(queue, size, event) == Append(queue, event)

Enqueued(queue, size, event) == IF Full(queue, size) THEN queue ELSE Append(queue, event)

\* zaf_event_distributor_enqueue_cc_event; every caller here ignores its answer.
EnqueuedCc(queue, event) == Enqueued(queue, CcQueueSize, event)

\* The current session loses an event it needs when it is put in a full queue.
Noted(queue, size) ==
  IF Full(queue, size) /\ cl_state.in_progress THEN lost \cup {session} ELSE lost

Pending ==
  (IF timer = "expired" THEN {"TIMER"} ELSE {})
    \cup (IF appQueue # <<>> THEN {"APP"} ELSE {})
    \cup (IF ccQueue # <<>> THEN {"CC"} ELSE {})

\* EventDistributorDistribute: the pending handlers are called in the order of the table.
EventDistributorDistribute ==
  /\ round = <<>>
  /\ \E arrivals \in SUBSET {"ZWRX", "ZWCOMMANDSTATUS"} :
       /\ arrivals = {} \/ commands < MaxCommands
       /\ Pending \cup arrivals # {}
       /\ round' = HandlerTable(Pending \cup arrivals)
  /\ UNCHANGED <<cl_state, timer, ccQueue, appQueue, database, reading, history, commands>>

Turn(handler) == round # <<>> /\ Head(round) = handler

\* A handler that has nothing left to do returns.
HandlerReturns ==
  /\ \/ Turn("TIMER") /\ timer # "expired"
     \/ Turn("ZWRX") \/ Turn("ZWCOMMANDSTATUS")
     \/ Turn("APP") /\ appQueue = <<>>
     \/ Turn("CC") /\ ccQueue = <<>>
  /\ round' = Tail(round)
  /\ UNCHANGED <<cl_state, timer, ccQueue, appQueue, database, reading, history, commands>>

-------------------------------------------------------------------------------
(* The session *)

\* Mutant of credential_learn_reset: the timer is left running.
credential_learn_reset_TimerRuns(status) ==
  /\ cl_state' = NoSession /\ UNCHANGED timer
  /\ ended' = IF cl_state.in_progress
              THEN [ended EXCEPT ![session] = Append(@, status)] ELSE ended
  /\ UNCHANGED <<session, lost>>

\* credential_learn_reset after a report of the status; TimerStop takes back an expiry too.
credential_learn_reset(status) ==
  /\ cl_state' = NoSession /\ timer' = "off"
  /\ ended' = IF cl_state.in_progress
              THEN [ended EXCEPT ![session] = Append(@, status)] ELSE ended
  /\ UNCHANGED <<session, lost>>

\* The database agrees with the request, whose user exists.
IsConsistentWithDatabase(t) ==
  /\ t.user \in users
  /\ t.operation = "MODIFY" <=> credentials[t.slot].user = t.user

\* Mutant of LearnStart: a running session is overwritten.
LearnStart_NoCheck(target, source, queue) ==
  IF ~IsConsistentWithDatabase(target)
  THEN /\ ccQueue' = EnqueuedCc(queue, Notice("LEARN_FAILED"))
       /\ UNCHANGED <<cl_state, history>>
  ELSE /\ cl_state' = [in_progress |-> TRUE, target |-> target, source |-> source]
       /\ session' = session + 1
       /\ ccQueue' = EnqueuedCc(queue, Notice("LEARN_START"))
       /\ lost' = IF Full(queue, CcQueueSize) THEN lost \cup {session'} ELSE lost
       /\ UNCHANGED ended

\* CC_UserCredential_CredentialLearnStart_handler, for a target that names a user and a slot.
LearnStart(target, source, queue) ==
  \/ /\ cl_state.in_progress
     /\ ccQueue' = queue
     /\ UNCHANGED <<cl_state, history>>
  \/ /\ ~cl_state.in_progress /\ ~IsConsistentWithDatabase(target)
     /\ ccQueue' = EnqueuedCc(queue, Notice("LEARN_FAILED"))
     /\ UNCHANGED <<cl_state, history>>
  \/ /\ ~cl_state.in_progress /\ IsConsistentWithDatabase(target)
     /\ cl_state' = [in_progress |-> TRUE, target |-> target, source |-> source]
     /\ session' = session + 1
     /\ ccQueue' = EnqueuedCc(queue, Notice("LEARN_START"))
     /\ lost' = IF Full(queue, CcQueueSize) THEN lost \cup {session'} ELSE lost
     /\ UNCHANGED ended

\* credential_learn_timer_timeout_callback
TimeoutCallback ==
  /\ Turn("TIMER") /\ timer = "expired"
  /\ ccQueue' = EnqueuedCc(ccQueue, Notice("LEARN_TIMEOUT"))
  /\ credential_learn_reset("TIMEOUT")
  /\ round' = Tail(round)
  /\ UNCHANGED <<appQueue, database, reading, commands>>

\* The timer runs out, in the timer task.
TimerExpires ==
  /\ timer = "running"
  /\ timer' = "expired"
  /\ UNCHANGED <<cl_state, ccQueue, appQueue, round, database, reading, history, commands>>

-------------------------------------------------------------------------------
(* Frames *)

Frame == Turn("ZWRX") /\ FromOutside /\ UNCHANGED <<appQueue, round, reading>>

CredentialLearnStart(node, target) ==
  /\ Frame
  /\ LearnStart(target, node, ccQueue)
  /\ UNCHANGED <<timer, database>>

\* CC_UserCredential_CredentialLearnCancel_handler: only the node that started the session.
CredentialLearnCancel(node) ==
  /\ Frame
  /\ cl_state.in_progress /\ node = cl_state.source
  /\ ccQueue' = EnqueuedCc(ccQueue, Notice("LEARN_CANCEL_REMOTE"))
  /\ credential_learn_reset("ENDED_NOT_DUE_TO_TIMEOUT")
  /\ UNCHANGED database

\* Each command that changes the database leaves the session alone.
DatabaseFrame == Frame /\ UNCHANGED <<cl_state, timer, ccQueue, history>>

UserAdd(u) ==
  /\ DatabaseFrame
  /\ users' = users \cup {u}
  /\ UNCHANGED credentials

\* The user is deleted with its credentials.
UserDelete(u) ==
  /\ DatabaseFrame
  /\ u \in users /\ users' = users \ {u}
  /\ credentials' = [s \in Slots |-> IF credentials[s].user = u THEN NoCredential
                                     ELSE credentials[s]]

Duplicate(slot, code) ==
  \E s \in Slots \ {slot} : credentials[s].user \in users /\ credentials[s].code = code

\* User Credential Association Set to another user.
AssociationSet(slot, u) ==
  /\ DatabaseFrame
  /\ credentials[slot] # NoCredential /\ u \in users
  /\ credentials' = [credentials EXCEPT ![slot].user = u]
  /\ UNCHANGED users

\* Credential Set that adds a credential, and one that deletes it.
CredentialSet(slot, u, code) ==
  /\ DatabaseFrame
  /\ credentials[slot] = NoCredential /\ u \in users /\ ~Duplicate(slot, code)
  /\ credentials' = [credentials EXCEPT ![slot] = [user |-> u, code |-> code]]
  /\ UNCHANGED users

CredentialDelete(slot) ==
  /\ DatabaseFrame
  /\ credentials' = [credentials EXCEPT ![slot] = NoCredential]
  /\ UNCHANGED users

\* Leaving or securely joining a network: reset empties the database and keeps the session.
NetworkReset ==
  /\ Turn("ZWCOMMANDSTATUS") /\ FromOutside
  /\ users' = {} /\ credentials' = [s \in Slots |-> NoCredential]
  /\ appQueue' = Enqueued(appQueue, AppQueueSize, "LEARNMODE_FINISHED")
  /\ UNCHANGED <<cl_state, timer, ccQueue, round, reading, history>>

-------------------------------------------------------------------------------
(* Events of the application *)

\* request_credential_from_user: the reader is set to work and the step begins.
RequestCredentialFromUser ==
  /\ Turn("APP") /\ appQueue # <<>> /\ Head(appQueue) = "CREDENTIAL_LEARN_START"
  /\ appQueue' = Tail(appQueue)
  /\ ccQueue' = EnqueuedCc(ccQueue, Notice("LEARN_STEP_START"))
  /\ lost' = Noted(ccQueue, CcQueueSize)
  /\ reading' = TRUE
  /\ UNCHANGED <<cl_state, timer, round, database, session, ended, commands>>

\* initialize_user_credential_database
LearnModeFinished ==
  /\ Turn("APP") /\ appQueue # <<>> /\ Head(appQueue) = "LEARNMODE_FINISHED"
  /\ appQueue' = Tail(appQueue)
  /\ IF users = {}
     THEN /\ users' = {1}
          /\ credentials' = IF credentials[1] # NoCredential THEN credentials
                            ELSE [credentials EXCEPT ![1] = [user |-> 1, code |-> DefaultCode]]
     ELSE UNCHANGED database
  /\ UNCHANGED <<cl_state, timer, ccQueue, round, reading, history, commands>>

-------------------------------------------------------------------------------
(* Events of the command class *)

Take(name) == Turn("CC") /\ ccQueue # <<>> /\ Head(ccQueue).name = name
Rest == Tail(ccQueue)

\* user_credential_app_event_handler looks at the session as it now is.
LearnStartEvent ==
  /\ Take("LEARN_START")
  /\ \/ /\ cl_state.in_progress
        /\ appQueue' = Enqueued(appQueue, AppQueueSize, "CREDENTIAL_LEARN_START")
        /\ lost' = Noted(appQueue, AppQueueSize)
        /\ ccQueue' = Rest
     \/ /\ ~cl_state.in_progress
        /\ ccQueue' = EnqueuedCc(Rest, Notice("LEARN_CANCEL_LOCAL"))
        /\ UNCHANGED <<appQueue, lost>>
  /\ UNCHANGED <<cl_state, timer, round, database, reading, session, ended, commands>>

\* The application may open a session itself, unless the node is excluded.
LearnStartRequestEvent ==
  /\ Take("LEARN_START_REQUEST")
  /\ \/ LearnStart(Head(ccQueue).target, NoNode, Rest)
     \/ ccQueue' = Rest /\ UNCHANGED <<cl_state, history>>
  /\ UNCHANGED <<timer, appQueue, round, database, reading, commands>>

\* Mutant of LearnStepStartEvent: the timer of the step is not started.
LearnStepStartEvent_NoTimer ==
  /\ Take("LEARN_STEP_START")
  /\ ccQueue' = Rest
  /\ UNCHANGED <<cl_state, timer, appQueue, round, database, reading, history, commands>>

\* Without a session the timeout is 0, and the timer expires at once.
LearnStepStartEvent ==
  /\ Take("LEARN_STEP_START")
  /\ ccQueue' = Rest
  /\ timer' = IF cl_state.in_progress THEN "running" ELSE "expired"
  /\ UNCHANGED <<cl_state, appQueue, round, database, reading, history, commands>>

\* Mutant of Storable: modify_credential takes a credential of any user.
Storable_AnyOwner(t, code) ==
  /\ ~Duplicate(t.slot, code)
  /\ IF t.operation = "ADD" THEN credentials[t.slot] = NoCredential
     ELSE credentials[t.slot] # NoCredential

\* validate_new_credential_data, and the checks of add_credential and modify_credential;
\* nothing asks whether the user still exists.
Storable(t, code) ==
  /\ ~Duplicate(t.slot, code)
  /\ IF t.operation = "ADD" THEN credentials[t.slot] = NoCredential
     ELSE credentials[t.slot].user = t.user /\ credentials[t.slot].code # code

\* A delivery is stored for the session in progress, or the database refuses it.
LearnReadDoneEvent ==
  LET code == Head(ccQueue).code
      t == cl_state.target
  IN /\ Take("LEARN_READ_DONE")
     /\ \/ /\ code = NoCode \/ ~cl_state.in_progress
           /\ ccQueue' = Rest
           /\ credential_learn_reset("silent")
           /\ UNCHANGED credentials
        \/ /\ code # NoCode /\ cl_state.in_progress /\ Storable(t, code)
           /\ credentials' = [credentials EXCEPT ![t.slot] = [user |-> t.user, code |-> code]]
           /\ ccQueue' = EnqueuedCc(Rest, Notice("LEARN_SUCCESS"))
           /\ credential_learn_reset("SUCCESS")
        \/ /\ code # NoCode /\ cl_state.in_progress
           /\ ccQueue' = EnqueuedCc(Rest, Notice("LEARN_FAILED"))
           /\ credential_learn_reset("ENDED_NOT_DUE_TO_TIMEOUT")
           /\ UNCHANGED credentials
     /\ UNCHANGED <<appQueue, round, users, reading, commands>>

LearnStepRetryEvent ==
  /\ Take("LEARN_STEP_RETRY")
  /\ ccQueue' = Rest
  /\ timer' = IF cl_state.in_progress THEN "running" ELSE timer
  /\ UNCHANGED <<cl_state, appQueue, round, database, reading, history, commands>>

LearnCancelLocalEvent ==
  /\ Take("LEARN_CANCEL_LOCAL")
  /\ ccQueue' = Rest
  /\ IF cl_state.in_progress THEN credential_learn_reset("ENDED_NOT_DUE_TO_TIMEOUT")
     ELSE UNCHANGED <<cl_state, timer, history>>
  /\ UNCHANGED <<appQueue, round, database, reading, commands>>

\* Nothing in the sample reacts to these.
OtherEvent ==
  /\ \E name \in {"LEARN_SUCCESS", "LEARN_FAILED", "LEARN_TIMEOUT", "LEARN_CANCEL_REMOTE"} :
       Take(name)
  /\ ccQueue' = Rest
  /\ UNCHANGED <<cl_state, timer, appQueue, round, database, reading, history, commands>>

-------------------------------------------------------------------------------
(* The application's reader and buttons, at any time *)

FromReader(event) ==
  /\ FromOutside
  /\ ccQueue' = EnqueuedCc(ccQueue, event)
  /\ UNCHANGED <<cl_state, timer, appQueue, round, database, history>>

Deliver(code) ==
  /\ reading /\ reading' = FALSE
  /\ FromReader([name |-> "LEARN_READ_DONE", code |-> code])

ReaderNotices ==
  /\ reading /\ UNCHANGED reading
  /\ \E name \in {"LEARN_STEP_RETRY", "LEARN_CANCEL_LOCAL"} : FromReader(Notice(name))

StartRequest(target) ==
  /\ UNCHANGED reading
  /\ FromReader([name |-> "LEARN_START_REQUEST", target |-> target])

\* The power fails: the database is what is left, and init runs again.
PowerLoss ==
  /\ FromOutside
  /\ credential_learn_reset("silent")
  /\ ccQueue' = <<>> /\ appQueue' = <<>> /\ round' = <<>> /\ reading' = FALSE
  /\ UNCHANGED database

-------------------------------------------------------------------------------
Frames ==
  \/ \E n \in Nodes, t \in Targets : CredentialLearnStart(n, t)
  \/ \E n \in Nodes : CredentialLearnCancel(n)
  \/ \E u \in Users : UserAdd(u) \/ UserDelete(u)
  \/ \E s \in Slots, u \in Users : AssociationSet(s, u)
  \/ \E s \in Slots, u \in Users, c \in Codes : CredentialSet(s, u, c)
  \/ \E s \in Slots : CredentialDelete(s)
  \/ NetworkReset

Task ==
  \/ EventDistributorDistribute \/ HandlerReturns
  \/ TimeoutCallback
  \/ RequestCredentialFromUser \/ LearnModeFinished
  \/ LearnStartEvent \/ LearnStartRequestEvent \/ LearnStepStartEvent \/ LearnReadDoneEvent
  \/ LearnStepRetryEvent \/ LearnCancelLocalEvent \/ OtherEvent

Outside ==
  \/ Frames
  \/ \E c \in Codes \cup {NoCode} : Deliver(c)
  \/ ReaderNotices
  \/ \E t \in Targets : StartRequest(t)
  \/ PowerLoss

Next == Task \/ TimerExpires \/ Outside

\* The application task keeps serving its notifications, and a started timer expires.
Spec == Init /\ [][Next]_vars /\ WF_vars(Task) /\ WF_vars(TimerExpires)

-------------------------------------------------------------------------------
(***************************************************************************)
(* Whoever opened a session hears of its end once: every session that is   *)
(* over ended in exactly one way, and the one in progress in none.         *)
(***************************************************************************)
EndsOnce ==
  \A s \in Sessions :
    Len(ended[s]) = IF s < session \/ (s = session /\ ~cl_state.in_progress) THEN 1 ELSE 0

\* A timer is only running for a session: no session can be cut short by one it did not start.
TimerOfSession == timer = "running" => cl_state.in_progress

\* A queue holds an event that leads to the start of the timer.
CcLeads(queue) ==
  \E i \in 1 .. Len(queue) : queue[i].name \in {"LEARN_START", "LEARN_STEP_START"}
AppLeads(queue) == \E i \in 1 .. Len(queue) : queue[i] = "CREDENTIAL_LEARN_START"

(***************************************************************************)
(* A session in progress is never stranded: its timer runs or has expired, *)
(* or an event that leads to the start of the timer or to the end of the   *)
(* session is queued.  The exception is an event lost to a full queue.     *)
(***************************************************************************)
NeverStranded ==
  cl_state.in_progress =>
    timer # "off" \/ CcLeads(ccQueue) \/ AppLeads(appQueue) \/ session \in lost

(***************************************************************************)
(* A delivery never takes a credential from its owner, even when the       *)
(* target of the session was moved to another user meanwhile, and touches  *)
(* no slot but the target's.                                               *)
(***************************************************************************)
DeliveryKeepsOwners ==
  [][Take("LEARN_READ_DONE") =>
       \A s \in Slots :
         credentials'[s] # credentials[s] =>
           /\ s = cl_state.target.slot
           /\ credentials[s].user \in {Nobody, credentials'[s].user}]_vars

(***************************************************************************)
(* Every session ends, unless a full queue refused one of its events: the  *)
(* timer is then never started, and every later Learn Start is answered    *)
(* with ALREADY_IN_PROGRESS.                                               *)
(***************************************************************************)
SessionEnds ==
  \A s \in Sessions :
    (cl_state.in_progress /\ session = s) ~>
      (~(cl_state.in_progress /\ session = s) \/ s \in lost)

(***************************************************************************)
(* cc_user_credential_validation.c: the associated UUID must reference an  *)
(* existing user.  The user is looked up when the session starts and not   *)
(* when the credential is stored.                                          *)
(***************************************************************************)
EveryOwnerExists ==
  \A s \in Slots : credentials[s] # NoCredential => credentials[s].user \in users
===============================================================================
