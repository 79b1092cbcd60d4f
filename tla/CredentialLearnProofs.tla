------------------------- MODULE CredentialLearnProofs -------------------------
(***************************************************************************)
(* Theorems about the learn sessions, for any number of controllers,       *)
(* users, slots and codes, any queue sizes and any number of commands.     *)
(***************************************************************************)
EXTENDS CredentialLearn, TableLemmas, SequenceTheorems, TLAPS

-------------------------------------------------------------------------------
(* The inductive invariant *)

\* The types the session and its queues need; of a session in progress the target is known.
Shapes ==
  /\ cl_state \in [in_progress : BOOLEAN, target : Targets \cup {NoTarget},
                   source : Nodes \cup {NoNode}]
  /\ cl_state.in_progress => cl_state.target \in Targets
  /\ timer \in {"off", "running", "expired"}
  /\ ccQueue \in Seq(Events)
  /\ appQueue \in Seq(AppEvents)
  /\ credentials \in [Slots -> Credentials \cup {NoCredential}]
  /\ session \in Nat
  /\ ended \in [Sessions -> Seq(Ends)]

LearnInv == Shapes /\ TimerOfSession /\ EndsOnce /\ NeverStranded

(***************************************************************************)
(* What a step can do to the session: leave it alone, open it or end it.   *)
(* A step that leaves it alone starts no timer without a session, and      *)
(* takes away no event that leads to the timer but for another such event  *)
(* or for the timer itself.                                                *)
(***************************************************************************)
Leads == CcLeads(ccQueue) \/ AppLeads(appQueue) \/ session \in lost

Keeps ==
  /\ UNCHANGED <<cl_state, session, ended>>
  /\ timer' = "running" => timer = "running" \/ cl_state.in_progress
  /\ cl_state.in_progress /\ timer' = "off" => timer = "off" /\ (Leads => Leads')

Opens ==
  /\ ~cl_state.in_progress /\ cl_state'.in_progress
  /\ session' = session + 1 /\ UNCHANGED <<timer, ended>>
  /\ Leads'

Closes == \E status \in Ends : credential_learn_reset(status)

Effect == Shapes' /\ (Keeps \/ Opens \/ Closes)

-------------------------------------------------------------------------------
(* Queues *)

\* A queue that takes an event keeps the ones it holds; so does a full one that refuses it.
LEMMA EnqueueCc ==
  ASSUME NEW queue \in Seq(Events), NEW event \in Events
  PROVE  /\ EnqueuedCc(queue, event) \in Seq(Events)
         /\ CcLeads(queue) => CcLeads(EnqueuedCc(queue, event))
         /\ ~Full(queue, CcQueueSize) /\ event.name \in {"LEARN_START", "LEARN_STEP_START"}
              => CcLeads(EnqueuedCc(queue, event))
<1>1. CASE Full(queue, CcQueueSize)
  BY <1>1 DEF EnqueuedCc, Enqueued
<1>2. CASE ~Full(queue, CcQueueSize)
  <2> DEFINE longer == Append(queue, event)
  <2>1. EnqueuedCc(queue, event) = longer
    BY <1>2 DEF EnqueuedCc, Enqueued
  <2>2. /\ longer \in Seq(Events) /\ Len(longer) = Len(queue) + 1
        /\ \A i \in 1 .. Len(queue) : longer[i] = queue[i]
        /\ longer[Len(queue) + 1] = event
    BY AppendProperties
  <2>3. Len(queue) \in Nat
    BY LenProperties
  <2> HIDE DEF longer
  <2> QED BY <2>1, <2>2, <2>3 DEF CcLeads
<1> QED BY <1>1, <1>2

LEMMA EnqueueApp ==
  ASSUME NEW queue \in Seq(AppEvents), NEW event \in AppEvents
  PROVE  /\ Enqueued(queue, AppQueueSize, event) \in Seq(AppEvents)
         /\ AppLeads(queue) => AppLeads(Enqueued(queue, AppQueueSize, event))
         /\ ~Full(queue, AppQueueSize) /\ event = "CREDENTIAL_LEARN_START"
              => AppLeads(Enqueued(queue, AppQueueSize, event))
<1>1. CASE Full(queue, AppQueueSize)
  BY <1>1 DEF Enqueued
<1>2. CASE ~Full(queue, AppQueueSize)
  <2> DEFINE longer == Append(queue, event)
  <2>1. Enqueued(queue, AppQueueSize, event) = longer
    BY <1>2 DEF Enqueued
  <2>2. /\ longer \in Seq(AppEvents) /\ Len(longer) = Len(queue) + 1
        /\ \A i \in 1 .. Len(queue) : longer[i] = queue[i]
        /\ longer[Len(queue) + 1] = event
    BY AppendProperties
  <2>3. Len(queue) \in Nat
    BY LenProperties
  <2> HIDE DEF longer
  <2> QED BY <2>1, <2>2, <2>3 DEF AppLeads
<1> QED BY <1>1, <1>2

\* Taking an event that leads nowhere keeps the ones that lead to the timer.
LEMMA TakeCc ==
  ASSUME NEW queue \in Seq(Events), queue # <<>>
  PROVE  /\ Tail(queue) \in Seq(Events) /\ Head(queue) \in Events
         /\ CcLeads(queue) /\ Head(queue).name \notin {"LEARN_START", "LEARN_STEP_START"}
              => CcLeads(Tail(queue))
<1>1. /\ Tail(queue) \in Seq(Events) /\ Head(queue) \in Events
      /\ Len(Tail(queue)) = Len(queue) - 1
      /\ \A i \in 1 .. Len(Tail(queue)) : Tail(queue)[i] = queue[i + 1]
  BY HeadTailProperties
<1>2. Len(queue) \in Nat /\ Head(queue) = queue[1]
  BY LenProperties
<1>3. ASSUME CcLeads(queue), Head(queue).name \notin {"LEARN_START", "LEARN_STEP_START"}
      PROVE  CcLeads(Tail(queue))
  <2>1. PICK i \in 1 .. Len(queue) : queue[i].name \in {"LEARN_START", "LEARN_STEP_START"}
    BY <1>3 DEF CcLeads
  <2>2. i - 1 \in 1 .. Len(Tail(queue)) /\ Tail(queue)[i - 1] = queue[i]
    BY <1>1, <1>2, <1>3, <2>1
  <2> QED BY <2>1, <2>2 DEF CcLeads
<1> QED BY <1>1, <1>3

LEMMA TakeApp ==
  ASSUME NEW queue \in Seq(AppEvents), queue # <<>>
  PROVE  /\ Tail(queue) \in Seq(AppEvents)
         /\ AppLeads(queue) /\ Head(queue) # "CREDENTIAL_LEARN_START" => AppLeads(Tail(queue))
<1>1. /\ Tail(queue) \in Seq(AppEvents)
      /\ Len(Tail(queue)) = Len(queue) - 1
      /\ \A i \in 1 .. Len(Tail(queue)) : Tail(queue)[i] = queue[i + 1]
  BY HeadTailProperties
<1>2. Len(queue) \in Nat /\ Head(queue) = queue[1]
  BY LenProperties
<1>3. ASSUME AppLeads(queue), Head(queue) # "CREDENTIAL_LEARN_START"
      PROVE  AppLeads(Tail(queue))
  <2>1. PICK i \in 1 .. Len(queue) : queue[i] = "CREDENTIAL_LEARN_START"
    BY <1>3 DEF AppLeads
  <2>2. i - 1 \in 1 .. Len(Tail(queue)) /\ Tail(queue)[i - 1] = queue[i]
    BY <1>1, <1>2, <1>3, <2>1
  <2> QED BY <2>1, <2>2 DEF AppLeads
<1> QED BY <1>1, <1>3

\* What the events that carry something carry.
LEMMA EventFields ==
  /\ \A name \in Notices : Notice(name) \in Events /\ Notice(name).name = name
  /\ \A target \in Targets :
       [name |-> "LEARN_START_REQUEST", target |-> target] \in Events
  /\ \A code \in Codes \cup {NoCode} : [name |-> "LEARN_READ_DONE", code |-> code] \in Events
  /\ \A event \in Events :
       /\ event.name = "LEARN_START_REQUEST" => event.target \in Targets
       /\ event.name = "LEARN_READ_DONE" => event.code \in Codes \cup {NoCode}
<1>1. \A name \in Notices : Notice(name) \in Events /\ Notice(name).name = name
  BY DEF Events, Notice
<1>2. \A target \in Targets : [name |-> "LEARN_START_REQUEST", target |-> target] \in Events
  BY DEF Events
<1>3. \A code \in Codes \cup {NoCode} : [name |-> "LEARN_READ_DONE", code |-> code] \in Events
  BY DEF Events
<1>4. ASSUME NEW event \in Events
      PROVE  /\ event.name = "LEARN_START_REQUEST" => event.target \in Targets
             /\ event.name = "LEARN_READ_DONE" => event.code \in Codes \cup {NoCode}
  BY DEF Events, Notices
<1> QED BY <1>1, <1>2, <1>3, <1>4

-------------------------------------------------------------------------------
(* The effect of each action *)

\* Ending the session leaves a type-correct session behind.
LEMMA ResetShapes ==
  ASSUME Shapes, NEW status \in Ends, credential_learn_reset(status)
  PROVE  /\ cl_state' = NoSession /\ timer' = "off"
         /\ session' \in Nat /\ ended' \in [Sessions -> Seq(Ends)]
<1>1. cl_state' = NoSession /\ timer' = "off" /\ session' \in Nat
  BY DEF credential_learn_reset, Shapes
<1>2. \A s \in Sessions : Append(ended[s], status) \in Seq(Ends)
  BY AppendProperties DEF Shapes
<1>3. ended' = ended \/ ended' = [ended EXCEPT ![session] = Append(ended[session], status)]
  BY DEF credential_learn_reset
<1>4. ended' \in [Sessions -> Seq(Ends)]
  <2>1. ended \in [Sessions -> Seq(Ends)]
    BY DEF Shapes
  <2>2. CASE session \in Sessions
    BY <1>2, <1>3, <2>1, <2>2
  <2>3. CASE session \notin Sessions
    BY <1>3, <2>1, <2>3
  <2> QED BY <2>2, <2>3
<1> QED BY <1>1, <1>4

LEMMA ResetEffect ==
  ASSUME Shapes, NEW status \in Ends, credential_learn_reset(status),
         ccQueue' \in Seq(Events), appQueue' \in Seq(AppEvents),
         credentials' \in [Slots -> Credentials \cup {NoCredential}]
  PROVE  Effect
<1>1. /\ cl_state' = NoSession /\ timer' = "off"
      /\ session' \in Nat /\ ended' \in [Sessions -> Seq(Ends)]
  BY ResetShapes
<1>2. Shapes'
  BY <1>1 DEF Shapes, NoSession
<1> QED BY <1>2 DEF Effect, Closes

LEMMA LearnStartEffect ==
  ASSUME Shapes, NEW target \in Targets, NEW source \in Nodes \cup {NoNode},
         NEW queue \in Seq(Events), LearnStart(target, source, queue),
         CcLeads(ccQueue) => CcLeads(queue),
         UNCHANGED <<timer, appQueue, credentials>>
  PROVE  Effect
<1>1. CASE cl_state.in_progress /\ ccQueue' = queue /\ UNCHANGED <<cl_state, history>>
  <2>1. Shapes'
    BY <1>1 DEF Shapes, history
  <2>2. Keeps
    BY <1>1 DEF Keeps, Leads, history
  <2> QED BY <2>1, <2>2 DEF Effect
<1>2. CASE /\ ~cl_state.in_progress
           /\ ccQueue' = EnqueuedCc(queue, Notice("LEARN_FAILED"))
           /\ UNCHANGED <<cl_state, history>>
  <2>1. ccQueue' \in Seq(Events)
    BY <1>2, EventFields, EnqueueCc DEF Notices
  <2>2. Shapes'
    BY <1>2, <2>1 DEF Shapes, history
  <2>3. Keeps
    BY <1>2 DEF Keeps, history
  <2> QED BY <2>2, <2>3 DEF Effect
<1>3. CASE /\ ~cl_state.in_progress
           /\ cl_state' = [in_progress |-> TRUE, target |-> target, source |-> source]
           /\ session' = session + 1
           /\ ccQueue' = EnqueuedCc(queue, Notice("LEARN_START"))
           /\ lost' = IF Full(queue, CcQueueSize) THEN lost \cup {session'} ELSE lost
           /\ UNCHANGED ended
  <2>1. Notice("LEARN_START") \in Events /\ Notice("LEARN_START").name = "LEARN_START"
    BY EventFields DEF Notices
  <2>2. ccQueue' \in Seq(Events) /\ (~Full(queue, CcQueueSize) => CcLeads(ccQueue'))
    BY <1>3, <2>1, EnqueueCc
  <2>3. Shapes'
    BY <1>3, <2>2 DEF Shapes
  <2>4. Leads'
    BY <1>3, <2>2 DEF Leads
  <2> QED BY <1>3, <2>3, <2>4 DEF Effect, Opens
<1> QED BY <1>1, <1>2, <1>3 DEF LearnStart

\* The task goes through its rounds and the timer runs out.
LEMMA RoundEffect ==
  ASSUME Shapes,
         \/ EventDistributorDistribute \/ HandlerReturns \/ TimerExpires
         \/ UNCHANGED vars
  PROVE  Effect
<1>1. /\ UNCHANGED <<cl_state, ccQueue, appQueue, credentials, history>>
      /\ timer' = timer \/ timer' = "expired"
  BY DEF EventDistributorDistribute, HandlerReturns, TimerExpires, vars, database
<1>2. Shapes'
  BY <1>1 DEF Shapes, history
<1>3. Keeps
  BY <1>1 DEF Keeps, Leads, history
<1> QED BY <1>2, <1>3 DEF Effect

\* A command of a controller: it opens a session, cancels it, or changes the database.
LEMMA FramesEffect ==
  ASSUME Shapes, Frames
  PROVE  Effect
<1>1. ASSUME NEW n \in Nodes, NEW t \in Targets, CredentialLearnStart(n, t) PROVE Effect
  <2>1. ccQueue \in Seq(Events)
    BY DEF Shapes
  <2> QED BY <1>1, <2>1, LearnStartEffect DEF CredentialLearnStart, Frame, database
<1>2. ASSUME NEW n \in Nodes, CredentialLearnCancel(n) PROVE Effect
  <2>1. ccQueue' \in Seq(Events)
    BY <1>2, EventFields, EnqueueCc DEF CredentialLearnCancel, Notices, Shapes
  <2> QED BY <1>2, <2>1, ResetEffect DEF CredentialLearnCancel, Frame, database, Shapes, Ends
<1>3. ASSUME UNCHANGED <<cl_state, timer, ccQueue, history>>,
             appQueue' \in Seq(AppEvents), AppLeads(appQueue) => AppLeads(appQueue'),
             credentials' \in [Slots -> Credentials \cup {NoCredential}]
      PROVE  Effect
  <2>1. Shapes'
    BY <1>3 DEF Shapes, history
  <2>2. Keeps
    BY <1>3 DEF Keeps, Leads, history
  <2> QED BY <2>1, <2>2 DEF Effect
<1>4. ASSUME NEW u \in Users, UserAdd(u) \/ UserDelete(u) PROVE Effect
  <2>1. credentials' \in [Slots -> Credentials \cup {NoCredential}]
    BY <1>4 DEF UserAdd, UserDelete, Shapes
  <2> QED BY <1>3, <1>4, <2>1 DEF UserAdd, UserDelete, DatabaseFrame, Frame, Shapes
<1>5. ASSUME NEW s \in Slots, NEW u \in Users, AssociationSet(s, u) PROVE Effect
  <2>1. credentials[s] \in Credentials
    BY <1>5 DEF AssociationSet, Shapes
  <2>2. [credentials[s] EXCEPT !.user = u] \in Credentials
    BY <2>1 DEF Credentials
  <2>3. credentials' = [credentials EXCEPT ![s] = [@ EXCEPT !.user = u]]
    BY <1>5 DEF AssociationSet
  <2>4. credentials' \in [Slots -> Credentials \cup {NoCredential}]
    BY <2>2, <2>3 DEF Shapes
  <2> QED BY <1>3, <1>5, <2>4 DEF AssociationSet, DatabaseFrame, Frame, Shapes
<1>6. ASSUME NEW s \in Slots, NEW u \in Users, NEW c \in Codes, CredentialSet(s, u, c)
      PROVE  Effect
  <2>1. credentials' \in [Slots -> Credentials \cup {NoCredential}]
    BY <1>6 DEF CredentialSet, Shapes, Credentials
  <2> QED BY <1>3, <1>6, <2>1 DEF CredentialSet, DatabaseFrame, Frame, Shapes
<1>7. ASSUME NEW s \in Slots, CredentialDelete(s) PROVE Effect
  <2>1. credentials' \in [Slots -> Credentials \cup {NoCredential}]
    BY <1>7 DEF CredentialDelete, Shapes
  <2> QED BY <1>3, <1>7, <2>1 DEF CredentialDelete, DatabaseFrame, Frame, Shapes
<1>8. CASE NetworkReset
  <2>1. credentials' \in [Slots -> Credentials \cup {NoCredential}]
    BY <1>8 DEF NetworkReset
  <2>2. appQueue' \in Seq(AppEvents) /\ (AppLeads(appQueue) => AppLeads(appQueue'))
    BY <1>8, EnqueueApp DEF NetworkReset, Shapes, AppEvents
  <2> QED BY <1>3, <1>8, <2>1, <2>2 DEF NetworkReset
<1> QED BY <1>1, <1>2, <1>4, <1>5, <1>6, <1>7, <1>8 DEF Frames

\* The handlers of the timer and of the application's events.
LEMMA HandlersEffect ==
  ASSUME Shapes, TimeoutCallback \/ RequestCredentialFromUser \/ LearnModeFinished
  PROVE  Effect
<1>1. CASE TimeoutCallback
  <2>1. ccQueue' \in Seq(Events)
    BY <1>1, EventFields, EnqueueCc DEF TimeoutCallback, Notices, Shapes
  <2> QED BY <1>1, <2>1, ResetEffect DEF TimeoutCallback, database, Shapes, Ends
<1>2. CASE RequestCredentialFromUser
  <2>1. /\ Notice("LEARN_STEP_START") \in Events
        /\ Notice("LEARN_STEP_START").name = "LEARN_STEP_START"
    BY EventFields DEF Notices
  <2>2. /\ ccQueue' \in Seq(Events) /\ (CcLeads(ccQueue) => CcLeads(ccQueue'))
        /\ ~Full(ccQueue, CcQueueSize) => CcLeads(ccQueue')
    BY <1>2, <2>1, EnqueueCc DEF RequestCredentialFromUser, Shapes
  <2>3. appQueue' \in Seq(AppEvents)
    BY <1>2, TakeApp DEF RequestCredentialFromUser, Shapes
  <2>4. Shapes'
    BY <1>2, <2>2, <2>3 DEF RequestCredentialFromUser, Shapes, database
  <2>5. cl_state.in_progress => Leads'
    BY <1>2, <2>2 DEF RequestCredentialFromUser, Leads, Noted
  <2>6. Keeps
    BY <1>2, <2>5 DEF RequestCredentialFromUser, Keeps
  <2> QED BY <2>4, <2>6 DEF Effect
<1>3. CASE LearnModeFinished
  <2>1. appQueue' \in Seq(AppEvents) /\ (AppLeads(appQueue) => AppLeads(appQueue'))
    BY <1>3, TakeApp DEF LearnModeFinished, Shapes
  <2>2. credentials' \in [Slots -> Credentials \cup {NoCredential}]
    <3>1. [user |-> 1, code |-> DefaultCode] \in Credentials
      BY LearnAssumption DEF Credentials
    <3> QED BY <1>3, <3>1 DEF LearnModeFinished, Shapes, database
  <2>3. Shapes'
    BY <1>3, <2>1, <2>2 DEF LearnModeFinished, Shapes, history
  <2>4. Keeps
    BY <1>3, <2>1 DEF LearnModeFinished, Keeps, Leads, history
  <2> QED BY <2>3, <2>4 DEF Effect
<1> QED BY <1>1, <1>2, <1>3

\* LEARN_START and LEARN_STEP_START hand the session on to the next event and to the timer.
LEMMA LeadingEventEffect ==
  ASSUME Shapes, LearnStartEvent \/ LearnStepStartEvent
  PROVE  Effect
<1>1. ccQueue \in Seq(Events) /\ ccQueue # <<>> /\ Tail(ccQueue) \in Seq(Events)
  BY TakeCc DEF Shapes, LearnStartEvent, LearnStepStartEvent, Take
<1>2. CASE LearnStartEvent /\ cl_state.in_progress
  <2>1. /\ appQueue' \in Seq(AppEvents)
        /\ ~Full(appQueue, AppQueueSize) => AppLeads(appQueue')
    BY <1>2, EnqueueApp DEF LearnStartEvent, Shapes, AppEvents
  <2>2. Shapes'
    BY <1>1, <1>2, <2>1 DEF LearnStartEvent, Rest, Shapes, database
  <2>3. Leads'
    BY <1>2, <2>1 DEF LearnStartEvent, Leads, Noted
  <2> QED BY <1>2, <2>2, <2>3 DEF Effect, Keeps, LearnStartEvent
<1>3. CASE LearnStartEvent /\ ~cl_state.in_progress
  <2>1. ccQueue' \in Seq(Events)
    BY <1>1, <1>3, EventFields, EnqueueCc DEF LearnStartEvent, Rest, Notices
  <2>2. Shapes'
    BY <1>3, <2>1 DEF LearnStartEvent, Shapes, database
  <2> QED BY <1>3, <2>2 DEF Effect, Keeps, LearnStartEvent
<1>4. CASE LearnStepStartEvent
  <2>1. Shapes'
    BY <1>1, <1>4 DEF LearnStepStartEvent, Rest, Shapes, database, history
  <2>2. Keeps
    BY <1>4 DEF LearnStepStartEvent, Keeps, history
  <2> QED BY <2>1, <2>2 DEF Effect
<1> QED BY <1>2, <1>3, <1>4

LEMMA OtherEventsEffect ==
  ASSUME Shapes,
         \/ LearnStartRequestEvent \/ LearnReadDoneEvent \/ LearnStepRetryEvent
         \/ LearnCancelLocalEvent \/ OtherEvent
  PROVE  Effect
<1>1. /\ ccQueue \in Seq(Events) /\ ccQueue # <<>>
      /\ Head(ccQueue).name \notin {"LEARN_START", "LEARN_STEP_START"}
  BY DEF Shapes, LearnStartRequestEvent, LearnReadDoneEvent, LearnStepRetryEvent,
         LearnCancelLocalEvent, OtherEvent, Take
<1>2. /\ Rest \in Seq(Events) /\ Head(ccQueue) \in Events
      /\ CcLeads(ccQueue) => CcLeads(Rest)
  BY <1>1, TakeCc DEF Rest
<1>3. ASSUME ccQueue' = Rest, UNCHANGED <<cl_state, appQueue, credentials, history>>,
             timer' = timer \/ (timer' = "running" /\ cl_state.in_progress)
      PROVE  Effect
  <2>1. Shapes'
    BY <1>2, <1>3 DEF Shapes, history
  <2>2. Keeps
    BY <1>2, <1>3 DEF Keeps, Leads, history
  <2> QED BY <2>1, <2>2 DEF Effect
<1>4. CASE LearnStartRequestEvent
  <2>1. CASE ccQueue' = Rest /\ UNCHANGED <<cl_state, history>>
    BY <1>3, <1>4, <2>1 DEF LearnStartRequestEvent, database
  <2>2. CASE LearnStart(Head(ccQueue).target, NoNode, Rest)
    <3>1. Head(ccQueue).target \in Targets
      BY <1>2, <1>4, EventFields DEF LearnStartRequestEvent, Take
    <3> QED BY <1>2, <1>4, <2>2, <3>1, LearnStartEffect DEF LearnStartRequestEvent, database
  <2> QED BY <1>4, <2>1, <2>2 DEF LearnStartRequestEvent
<1>5. CASE LearnReadDoneEvent
  <2> DEFINE code == Head(ccQueue).code
             t == cl_state.target
  <2>1. code \in Codes \cup {NoCode}
    BY <1>2, <1>5, EventFields DEF LearnReadDoneEvent, Take
  <2>2. Notice("LEARN_SUCCESS") \in Events /\ Notice("LEARN_FAILED") \in Events
    BY EventFields DEF Notices
  <2>3. ccQueue' \in Seq(Events)
    BY <1>2, <1>5, <2>2, EnqueueCc DEF LearnReadDoneEvent
  <2>4. credentials' \in [Slots -> Credentials \cup {NoCredential}]
    <3>1. CASE UNCHANGED credentials
      BY <3>1 DEF Shapes
    <3>2. CASE /\ code # NoCode /\ cl_state.in_progress
               /\ credentials' = [credentials EXCEPT
                                    ![t.slot] = [user |-> t.user, code |-> code]]
      <4>1. [user |-> t.user, code |-> code] \in Credentials
        BY <2>1, <3>2 DEF Shapes, Targets, Credentials
      <4> QED BY <3>2, <4>1 DEF Shapes
    <3> QED BY <1>5, <3>1, <3>2 DEF LearnReadDoneEvent
  <2>5. \E status \in Ends : credential_learn_reset(status)
    BY <1>5 DEF LearnReadDoneEvent, Ends
  <2>6. appQueue' \in Seq(AppEvents)
    BY <1>5 DEF LearnReadDoneEvent, Shapes
  <2> QED BY <2>3, <2>4, <2>5, <2>6, ResetEffect
<1>6. CASE LearnStepRetryEvent
  BY <1>3, <1>6 DEF LearnStepRetryEvent, database
<1>7. CASE LearnCancelLocalEvent
  <2>1. CASE cl_state.in_progress
    BY <1>2, <1>7, <2>1, ResetEffect DEF LearnCancelLocalEvent, database, Shapes, Ends
  <2>2. CASE ~cl_state.in_progress
    BY <1>3, <1>7, <2>2 DEF LearnCancelLocalEvent, database
  <2> QED BY <2>1, <2>2
<1>8. CASE OtherEvent
  BY <1>3, <1>8 DEF OtherEvent, database
<1> QED BY <1>4, <1>5, <1>6, <1>7, <1>8

\* The reader, the buttons, the power.
LEMMA OutsideEffect ==
  ASSUME Shapes, Outside
  PROVE  Effect
<1>1. ASSUME NEW event \in Events, FromReader(event) PROVE Effect
  <2>1. ccQueue' \in Seq(Events) /\ (CcLeads(ccQueue) => CcLeads(ccQueue'))
    BY <1>1, EnqueueCc DEF FromReader, Shapes
  <2>2. Shapes'
    BY <1>1, <2>1 DEF FromReader, Shapes, database, history
  <2>3. Keeps
    BY <1>1, <2>1 DEF FromReader, Keeps, Leads, history
  <2> QED BY <2>2, <2>3 DEF Effect
<1>2. ASSUME NEW c \in Codes \cup {NoCode}, Deliver(c) PROVE Effect
  BY <1>1, <1>2, EventFields DEF Deliver
<1>3. CASE ReaderNotices
  <2>1. Notice("LEARN_STEP_RETRY") \in Events /\ Notice("LEARN_CANCEL_LOCAL") \in Events
    BY EventFields DEF Notices
  <2> QED BY <1>1, <1>3, <2>1 DEF ReaderNotices
<1>4. ASSUME NEW t \in Targets, StartRequest(t) PROVE Effect
  BY <1>1, <1>4, EventFields DEF StartRequest
<1>5. CASE PowerLoss
  <2>1. ccQueue' \in Seq(Events) /\ appQueue' \in Seq(AppEvents)
    BY <1>5 DEF PowerLoss
  <2> QED BY <1>5, <2>1, ResetEffect DEF PowerLoss, database, Shapes, Ends
<1> QED BY <1>2, <1>3, <1>4, <1>5, FramesEffect DEF Outside

LEMMA StepEffect == Shapes /\ [Next]_vars => Effect
<1> SUFFICES ASSUME Shapes, [Next]_vars PROVE Effect
  OBVIOUS
<1>1. CASE Task
  BY <1>1, RoundEffect, HandlersEffect, LeadingEventEffect, OtherEventsEffect, Zenon DEF Task
<1>2. CASE TimerExpires \/ UNCHANGED vars
  BY <1>2, RoundEffect
<1>3. CASE Outside
  BY <1>3, OutsideEffect
<1> QED BY <1>1, <1>2, <1>3 DEF Next

-------------------------------------------------------------------------------
(* The effects preserve the invariant *)

LEMMA EndsOncePreserved == LearnInv /\ Effect => EndsOnce'
<1> SUFFICES ASSUME LearnInv, Effect, NEW s \in Sessions
             PROVE  Len(ended'[s]) = IF s < session' \/ (s = session' /\ ~cl_state'.in_progress)
                                     THEN 1 ELSE 0
  BY DEF EndsOnce, Sessions
<1>1. Len(ended[s]) = IF s < session \/ (s = session /\ ~cl_state.in_progress) THEN 1 ELSE 0
  BY DEF LearnInv, EndsOnce
<1>2. s \in Nat /\ session \in Nat
  BY LearnAssumption DEF Sessions, LearnInv, Shapes
<1>3. CASE Keeps
  BY <1>1, <1>3 DEF Keeps
<1>4. CASE Opens
  BY <1>1, <1>2, <1>4 DEF Opens
<1>5. ASSUME NEW status \in Ends, credential_learn_reset(status)
      PROVE  Len(ended'[s]) = IF s < session' \/ (s = session' /\ ~cl_state'.in_progress)
                              THEN 1 ELSE 0
  <2>1. session' = session /\ ~cl_state'.in_progress
    BY <1>5 DEF credential_learn_reset, NoSession
  <2>2. CASE cl_state.in_progress /\ s = session
    <3>1. ended'[s] = Append(ended[s], status)
      BY <1>5, <2>2 DEF credential_learn_reset, LearnInv, Shapes
    <3>2. Len(ended'[s]) = Len(ended[s]) + 1
      BY <3>1, AppendProperties DEF LearnInv, Shapes
    <3> QED BY <1>1, <1>2, <2>1, <2>2, <3>2
  <2>3. CASE ~(cl_state.in_progress /\ s = session)
    <3>1. ended'[s] = ended[s]
      BY <1>5, <2>3 DEF credential_learn_reset, LearnInv, Shapes
    <3> QED BY <1>1, <1>2, <2>1, <2>3, <3>1
  <2> QED BY <2>2, <2>3
<1> QED BY <1>3, <1>4, <1>5 DEF Effect, Closes

LEMMA LearnInvInit == Init => LearnInv
<1> SUFFICES ASSUME Init PROVE LearnInv
  OBVIOUS
<1>1. Shapes
  <2>1. [user |-> 1, code |-> DefaultCode] \in Credentials
    BY LearnAssumption DEF Credentials
  <2>2. credentials \in [Slots -> Credentials \cup {NoCredential}]
    BY <2>1 DEF Init
  <2> QED BY <2>2 DEF Init, Shapes, NoSession
<1>2. EndsOnce
  <2>1. \A s \in Sessions : s \in Nat /\ s > 0
    BY LearnAssumption DEF Sessions
  <2> QED BY <2>1 DEF Init, EndsOnce
<1> QED BY <1>1, <1>2 DEF LearnInv, Init, TimerOfSession, NeverStranded, NoSession

LEMMA LearnInvStep == LearnInv /\ [Next]_vars => LearnInv'
<1> SUFFICES ASSUME LearnInv, [Next]_vars PROVE LearnInv'
  OBVIOUS
<1>1. Effect
  BY StepEffect DEF LearnInv
<1>2. EndsOnce'
  BY <1>1, EndsOncePreserved
<1>3. TimerOfSession'
  <2>1. CASE Keeps
    BY <2>1 DEF Keeps, LearnInv, TimerOfSession
  <2>2. CASE Opens
    BY <2>2 DEF Opens, TimerOfSession
  <2>3. CASE Closes
    BY <2>3 DEF Closes, credential_learn_reset, TimerOfSession
  <2> QED BY <1>1, <2>1, <2>2, <2>3 DEF Effect
<1>4. NeverStranded'
  <2>1. CASE Keeps
    BY <2>1 DEF Keeps, Leads, LearnInv, NeverStranded
  <2>2. CASE Opens
    BY <2>2 DEF Opens, Leads, NeverStranded
  <2>3. CASE Closes
    BY <2>3 DEF Closes, credential_learn_reset, NoSession, NeverStranded
  <2> QED BY <1>1, <2>1, <2>2, <2>3 DEF Effect
<1> QED BY <1>1, <1>2, <1>3, <1>4 DEF Effect, LearnInv

LEMMA LearnInvariant == Spec => []LearnInv
<1> QED BY LearnInvInit, LearnInvStep, PTL DEF Spec

(***************************************************************************)
(* cc_user_credential_learn.c: of every session that is over exactly one   *)
(* end was reported or silently taken, and of the current one none.        *)
(***************************************************************************)
THEOREM SessionsEndOnce == Spec => []EndsOnce
<1>1. LearnInv => EndsOnce
  BY DEF LearnInv
<1> QED BY <1>1, LearnInvariant, PTL

(***************************************************************************)
(* credential_learn_reset stops the timer on every way out: no running     *)
(* timer is left for the next session.                                     *)
(***************************************************************************)
THEOREM TimerBelongsToSession == Spec => []TimerOfSession
<1>1. LearnInv => TimerOfSession
  BY DEF LearnInv
<1> QED BY <1>1, LearnInvariant, PTL

(***************************************************************************)
(* The hand-over from LEARN_START to the application and back to           *)
(* LEARN_STEP_START and the timer never drops a session, but for an event  *)
(* that a full queue refused.                                              *)
(***************************************************************************)
THEOREM NoSessionStranded == Spec => []NeverStranded
<1>1. LearnInv => NeverStranded
  BY DEF LearnInv
<1> QED BY <1>1, LearnInvariant, PTL

-------------------------------------------------------------------------------
(* Deliveries *)

\* What DeliveryKeepsOwners says of one step.
TakesFromNobody ==
  \A s \in Slots :
    credentials'[s] # credentials[s] =>
      /\ s = cl_state.target.slot
      /\ credentials[s].user \in {Nobody, credentials'[s].user}

\* While a delivery waits to be handled, the database changes by nothing but its handler.
LEMMA OnlyDeliveryWrites ==
  ASSUME [Next]_vars, Take("LEARN_READ_DONE")
  PROVE  UNCHANGED credentials \/ LearnReadDoneEvent
<1> USE DEF database
<1>1. CASE Task
  <2>1. CASE EventDistributorDistribute \/ HandlerReturns \/ TimeoutCallback
             \/ RequestCredentialFromUser
    BY <2>1 DEF EventDistributorDistribute, HandlerReturns, TimeoutCallback,
                RequestCredentialFromUser
  <2>2. CASE LearnModeFinished
    BY <2>2 DEF LearnModeFinished, Take, Turn
  <2>3. CASE LearnStartEvent \/ LearnStartRequestEvent \/ LearnStepStartEvent
             \/ LearnStepRetryEvent \/ LearnCancelLocalEvent \/ OtherEvent
    BY <2>3 DEF LearnStartEvent, LearnStartRequestEvent, LearnStepStartEvent,
                LearnStepRetryEvent, LearnCancelLocalEvent, OtherEvent
  <2> QED BY <1>1, <2>1, <2>2, <2>3 DEF Task
<1>2. CASE TimerExpires \/ UNCHANGED vars
  BY <1>2 DEF TimerExpires, vars
<1>3. CASE Frames
  <2>1. Turn("ZWRX") \/ Turn("ZWCOMMANDSTATUS")
    BY <1>3 DEF Frames, CredentialLearnStart, CredentialLearnCancel, UserAdd, UserDelete,
                AssociationSet, CredentialSet, CredentialDelete, DatabaseFrame, Frame,
                NetworkReset
  <2> QED BY <2>1 DEF Take, Turn
<1>4. ASSUME NEW event, FromReader(event) PROVE UNCHANGED credentials
  BY <1>4 DEF FromReader
<1>5. CASE Outside /\ ~Frames
  BY <1>4, <1>5 DEF Outside, Deliver, ReaderNotices, StartRequest, PowerLoss
<1> QED BY <1>1, <1>2, <1>3, <1>5 DEF Next

LEMMA DeliveryStep ==
  LearnInv /\ [Next]_vars => [Take("LEARN_READ_DONE") => TakesFromNobody]_vars
<1> SUFFICES ASSUME LearnInv, [Next]_vars, Take("LEARN_READ_DONE")
             PROVE  TakesFromNobody
  OBVIOUS
<1>1. CASE UNCHANGED credentials
  BY <1>1 DEF TakesFromNobody
<1>2. CASE LearnReadDoneEvent /\ ~UNCHANGED credentials
  <2> DEFINE t == cl_state.target
             code == Head(ccQueue).code
  <2>1. /\ cl_state.in_progress /\ Storable(t, code)
        /\ credentials' = [credentials EXCEPT ![t.slot] = [user |-> t.user, code |-> code]]
    BY <1>2 DEF LearnReadDoneEvent
  <2>2. t.slot \in Slots /\ credentials \in [Slots -> Credentials \cup {NoCredential}]
    BY <2>1 DEF LearnInv, Shapes, Targets
  <2>3. \A s \in Slots : s # t.slot => credentials'[s] = credentials[s]
    BY <2>1, <2>2
  <2>4. credentials'[t.slot].user = t.user
    BY <2>1, <2>2
  <2>5. credentials[t.slot].user \in {Nobody, t.user}
    BY <2>1 DEF Storable, NoCredential
  <2> QED BY <2>3, <2>4, <2>5 DEF TakesFromNobody
<1> QED BY <1>1, <1>2, OnlyDeliveryWrites

(***************************************************************************)
(* CC_UserCredential_learn_event_handler, LEARN_READ_DONE: whatever        *)
(* happened to the target of the session since it was checked, and even if *)
(* the delivery was meant for an earlier session, it takes no credential   *)
(* from its owner and changes no other slot.                               *)
(***************************************************************************)
THEOREM DeliveriesKeepOwners == Spec => DeliveryKeepsOwners
<1> QED BY LearnInvariant, DeliveryStep, PTL DEF Spec, DeliveryKeepsOwners, TakesFromNobody

-------------------------------------------------------------------------------
(* Types and limits *)

\* A session is opened by a frame or by a queued request, and each of them came from outside:
\* the sessions so far and the queued requests are at most as many as the commands so far.
Requests == {event \in Events : event.name = "LEARN_START_REQUEST"}
Asked(queue) == Occurrences(queue, Requests)

Accounts ==
  /\ Len(ccQueue) <= CcQueueSize
  /\ lost \subseteq Sessions
  /\ session + Asked(ccQueue) <= commands
  /\ cl_state.in_progress => session > 0

Others ==
  /\ Len(appQueue) <= AppQueueSize
  /\ round \in Seq(Handlers)
  /\ users \subseteq Users
  /\ reading \in BOOLEAN
  /\ commands \in 0 .. MaxCommands

LEMMA EnqueueCcFits ==
  ASSUME NEW queue \in Seq(Events), Len(queue) <= CcQueueSize, NEW event \in Events
  PROVE  /\ EnqueuedCc(queue, event) \in Seq(Events)
         /\ Len(EnqueuedCc(queue, event)) <= CcQueueSize
         /\ Asked(EnqueuedCc(queue, event)) \in Nat /\ Asked(queue) \in Nat
         /\ Asked(EnqueuedCc(queue, event)) <= Asked(queue) + 1
         /\ event.name # "LEARN_START_REQUEST" => Asked(EnqueuedCc(queue, event)) <= Asked(queue)
<1>1. Len(queue) \in Nat /\ CcQueueSize \in Nat /\ Asked(queue) \in Nat
  BY LenProperties, LearnAssumption, OccurrencesType DEF Asked
<1>2. CASE Full(queue, CcQueueSize)
  BY <1>1, <1>2 DEF EnqueuedCc, Enqueued
<1>3. CASE ~Full(queue, CcQueueSize)
  <2>1. EnqueuedCc(queue, event) = Append(queue, event)
    BY <1>3 DEF EnqueuedCc, Enqueued
  <2>2. Append(queue, event) \in Seq(Events) /\ Len(Append(queue, event)) = Len(queue) + 1
    BY AppendProperties
  <2>3. Asked(Append(queue, event)) = Asked(queue) + IF event \in Requests THEN 1 ELSE 0
    BY OccurrencesAppend DEF Asked
  <2>4. event \in Requests <=> event.name = "LEARN_START_REQUEST"
    BY DEF Requests
  <2>5. Len(Append(queue, event)) <= CcQueueSize
    BY <1>1, <1>3, <2>2 DEF Full
  <2> QED BY <1>1, <2>1, <2>2, <2>3, <2>4, <2>5
<1> QED BY <1>2, <1>3

LEMMA EnqueueAppFits ==
  ASSUME NEW queue \in Seq(AppEvents), Len(queue) <= AppQueueSize, NEW event \in AppEvents
  PROVE  Len(Enqueued(queue, AppQueueSize, event)) <= AppQueueSize
<1>1. Len(queue) \in Nat /\ AppQueueSize \in Nat
  BY LenProperties, LearnAssumption
<1>2. Len(Append(queue, event)) = Len(queue) + 1
  BY AppendProperties
<1> QED BY <1>1, <1>2 DEF Enqueued, Full

LEMMA RestFits ==
  ASSUME Shapes, Accounts, ccQueue # <<>>
  PROVE  /\ Rest \in Seq(Events) /\ Len(Rest) <= CcQueueSize
         /\ Asked(Rest) \in Nat /\ Asked(ccQueue) \in Nat
         /\ Asked(Rest) <= Asked(ccQueue)
         /\ Head(ccQueue).name = "LEARN_START_REQUEST" => Asked(ccQueue) = Asked(Rest) + 1
<1>1. ccQueue \in Seq(Events)
  BY DEF Shapes
<1>2. /\ Rest \in Seq(Events) /\ Len(ccQueue) \in Nat /\ Len(Rest) = Len(ccQueue) - 1
      /\ Head(ccQueue) \in Events
  BY <1>1, TailSeq DEF Rest
<1>3. Asked(Rest) \in Nat /\ Asked(ccQueue) \in Nat
  BY <1>1, <1>2, OccurrencesType DEF Asked
<1>4. Asked(ccQueue) = Asked(Rest) + IF Head(ccQueue) \in Requests THEN 1 ELSE 0
  BY <1>1, OccurrencesTail DEF Asked, Rest
<1>5. Head(ccQueue).name = "LEARN_START_REQUEST" => Head(ccQueue) \in Requests
  BY <1>2 DEF Requests
<1>6. Len(Rest) <= CcQueueSize
  BY <1>2, LearnAssumption DEF Accounts
<1> QED BY <1>2, <1>3, <1>4, <1>5, <1>6

\* Steps that open no session, each request they queue being paid for by a command.
LEMMA AccountsKept ==
  ASSUME Shapes, Accounts, commands \in 0 .. MaxCommands,
         cl_state' = cl_state \/ cl_state' = NoSession, session' = session,
         lost' = lost \/ (cl_state.in_progress /\ lost' = lost \cup {session}),
         Len(ccQueue') <= CcQueueSize, Asked(ccQueue') \in Nat, Asked(ccQueue) \in Nat,
         \/ Asked(ccQueue') <= Asked(ccQueue) /\ commands' \in {commands, commands + 1}
         \/ Asked(ccQueue') <= Asked(ccQueue) + 1 /\ commands' = commands + 1
  PROVE  Accounts'
<1>1. session \in Nat /\ commands \in Nat /\ MaxCommands \in Nat /\ commands <= MaxCommands
      /\ session + Asked(ccQueue) <= commands
  BY LearnAssumption DEF Shapes, Accounts
<1>2. session' + Asked(ccQueue') <= commands'
  BY <1>1
<1>3. lost' \subseteq Sessions
  <2>1. cl_state.in_progress => session > 0
    BY DEF Accounts
  <2>2. cl_state.in_progress => session \in Sessions
    BY <1>1, <2>1 DEF Sessions
  <2> QED BY <2>2 DEF Accounts
<1>4. cl_state'.in_progress => session' > 0
  BY DEF Accounts, NoSession
<1> QED BY <1>2, <1>3, <1>4 DEF Accounts

LEMMA LearnStartAccounts ==
  ASSUME Shapes, Accounts, NEW target, NEW source, NEW queue \in Seq(Events),
         Len(queue) <= CcQueueSize, LearnStart(target, source, queue),
         commands' \in Nat, commands' <= MaxCommands, session + Asked(queue) + 1 <= commands'
  PROVE  Accounts'
<1>1. session \in Nat /\ MaxCommands \in Nat /\ Asked(queue) \in Nat
  BY LearnAssumption, OccurrencesType DEF Shapes, Asked
<1>2. /\ Notice("LEARN_FAILED") \in Events /\ Notice("LEARN_START") \in Events
      /\ Notice("LEARN_FAILED").name # "LEARN_START_REQUEST"
      /\ Notice("LEARN_START").name # "LEARN_START_REQUEST"
  BY EventFields DEF Notices
<1>3. Len(ccQueue') <= CcQueueSize /\ Asked(ccQueue') \in Nat /\ Asked(ccQueue') <= Asked(queue)
  <2>1. CASE ccQueue' = queue
    BY <1>1, <2>1
  <2>2. CASE ccQueue' = EnqueuedCc(queue, Notice("LEARN_FAILED"))
    BY <1>1, <1>2, <2>2, EnqueueCcFits
  <2>3. CASE ccQueue' = EnqueuedCc(queue, Notice("LEARN_START"))
    BY <1>1, <1>2, <2>3, EnqueueCcFits
  <2> QED BY <2>1, <2>2, <2>3 DEF LearnStart
<1>4. CASE UNCHANGED <<cl_state, history>>
  BY <1>1, <1>3, <1>4 DEF Accounts, history
<1>5. CASE /\ session' = session + 1
           /\ lost' = IF Full(queue, CcQueueSize) THEN lost \cup {session'} ELSE lost
  <2>1. session' \in Sessions /\ session' + Asked(ccQueue') <= commands' /\ session' > 0
    BY <1>1, <1>3, <1>5 DEF Sessions
  <2>2. lost' \subseteq Sessions
    BY <1>5, <2>1 DEF Accounts
  <2> QED BY <1>3, <2>1, <2>2 DEF Accounts
<1> QED BY <1>4, <1>5 DEF LearnStart

\* The events that the handlers and the reader put in the queue.
LEMMA NoticesFit ==
  ASSUME NEW queue \in Seq(Events), Len(queue) <= CcQueueSize, NEW name \in Notices
  PROVE  /\ Len(EnqueuedCc(queue, Notice(name))) <= CcQueueSize
         /\ Asked(EnqueuedCc(queue, Notice(name))) \in Nat /\ Asked(queue) \in Nat
         /\ Asked(EnqueuedCc(queue, Notice(name))) <= Asked(queue)
<1>1. Notice(name) \in Events /\ Notice(name).name # "LEARN_START_REQUEST"
  BY EventFields DEF Notices
<1> QED BY <1>1, EnqueueCcFits

LEMMA ResetAccounts ==
  ASSUME NEW status, credential_learn_reset(status)
  PROVE  cl_state' = NoSession /\ session' = session /\ lost' = lost
BY DEF credential_learn_reset

LEMMA TaskAccounts ==
  ASSUME Shapes, Accounts, commands \in 0 .. MaxCommands, Task
  PROVE  Accounts'
<1>1. /\ ccQueue \in Seq(Events) /\ Len(ccQueue) <= CcQueueSize /\ Asked(ccQueue) \in Nat
      /\ commands \in Nat /\ session \in Nat /\ commands <= MaxCommands
  BY LearnAssumption, OccurrencesType DEF Shapes, Accounts, Asked
<1>2. CASE EventDistributorDistribute \/ HandlerReturns \/ LearnModeFinished
  BY <1>1, <1>2, AccountsKept DEF EventDistributorDistribute, HandlerReturns,
                                  LearnModeFinished, history
<1>3. CASE TimeoutCallback
  <2>1. ccQueue' = EnqueuedCc(ccQueue, Notice("LEARN_TIMEOUT")) /\ commands' = commands
        /\ cl_state' = NoSession /\ session' = session /\ lost' = lost
    BY <1>3, ResetAccounts DEF TimeoutCallback
  <2> QED BY <1>1, <2>1, NoticesFit, AccountsKept DEF Notices
<1>4. CASE RequestCredentialFromUser
  <2>1. /\ ccQueue' = EnqueuedCc(ccQueue, Notice("LEARN_STEP_START")) /\ commands' = commands
        /\ cl_state' = cl_state /\ session' = session
        /\ lost' = lost \/ (cl_state.in_progress /\ lost' = lost \cup {session})
    BY <1>4 DEF RequestCredentialFromUser, Noted
  <2> QED BY <1>1, <2>1, NoticesFit, AccountsKept DEF Notices
<1>5. ASSUME ccQueue # <<>>, commands' = commands, session' = session,
             cl_state' = cl_state \/ cl_state' = NoSession,
             lost' = lost \/ (cl_state.in_progress /\ lost' = lost \cup {session}),
             \/ ccQueue' = Rest
             \/ \E name \in Notices : ccQueue' = EnqueuedCc(Rest, Notice(name))
      PROVE  Accounts'
  <2>1. /\ Rest \in Seq(Events) /\ Len(Rest) <= CcQueueSize
        /\ Asked(Rest) \in Nat /\ Asked(Rest) <= Asked(ccQueue)
    BY <1>5, RestFits
  <2>2. Len(ccQueue') <= CcQueueSize /\ Asked(ccQueue') \in Nat /\ Asked(ccQueue') <= Asked(Rest)
    BY <1>5, <2>1, NoticesFit
  <2>3. Asked(ccQueue') <= Asked(ccQueue)
    BY <1>1, <2>1, <2>2
  <2> QED BY <1>1, <1>5, <2>2, <2>3, AccountsKept
<1>6. CASE LearnStartEvent
  BY <1>5, <1>6 DEF LearnStartEvent, Take, Noted, Notices
<1>7. CASE LearnStartRequestEvent
  <2>1. /\ ccQueue # <<>> /\ Head(ccQueue).name = "LEARN_START_REQUEST" /\ commands' = commands
    BY <1>7 DEF LearnStartRequestEvent, Take
  <2>2. CASE ccQueue' = Rest /\ UNCHANGED <<cl_state, history>>
    BY <1>5, <2>1, <2>2 DEF history
  <2>3. CASE LearnStart(Head(ccQueue).target, NoNode, Rest)
    <3>1. /\ Rest \in Seq(Events) /\ Len(Rest) <= CcQueueSize /\ Asked(Rest) \in Nat
          /\ Asked(ccQueue) = Asked(Rest) + 1
      BY <2>1, RestFits
    <3>2. session + Asked(Rest) + 1 <= commands
      BY <1>1, <3>1 DEF Accounts
    <3> QED BY <1>1, <2>1, <2>3, <3>1, <3>2, LearnStartAccounts
  <2> QED BY <1>7, <2>2, <2>3 DEF LearnStartRequestEvent
<1>8. CASE LearnStepStartEvent \/ LearnStepRetryEvent \/ OtherEvent
  BY <1>5, <1>8 DEF LearnStepStartEvent, LearnStepRetryEvent, OtherEvent, Take, history
<1>9. CASE LearnReadDoneEvent
  <2>1. ccQueue # <<>> /\ commands' = commands
    BY <1>9 DEF LearnReadDoneEvent, Take
  <2>2. \/ ccQueue' = Rest
        \/ \E name \in Notices : ccQueue' = EnqueuedCc(Rest, Notice(name))
    BY <1>9 DEF LearnReadDoneEvent, Notices
  <2>3. cl_state' = NoSession /\ session' = session /\ lost' = lost
    BY <1>9, ResetAccounts DEF LearnReadDoneEvent
  <2> QED BY <1>5, <2>1, <2>2, <2>3
<1>10. CASE LearnCancelLocalEvent
  <2>1. /\ ccQueue # <<>> /\ commands' = commands /\ ccQueue' = Rest
        /\ session' = session /\ lost' = lost
        /\ cl_state' = cl_state \/ cl_state' = NoSession
    BY <1>10, ResetAccounts DEF LearnCancelLocalEvent, Take, history
  <2> QED BY <1>5, <2>1
<1> QED BY <1>2, <1>3, <1>4, <1>6, <1>7, <1>8, <1>9, <1>10 DEF Task

LEMMA OutsideAccounts ==
  ASSUME Shapes, Accounts, commands \in 0 .. MaxCommands,
         TimerExpires \/ Outside \/ UNCHANGED vars
  PROVE  Accounts'
<1>1. /\ ccQueue \in Seq(Events) /\ Len(ccQueue) <= CcQueueSize /\ Asked(ccQueue) \in Nat
      /\ commands \in Nat /\ session \in Nat /\ MaxCommands \in Nat
  BY LearnAssumption, OccurrencesType DEF Shapes, Accounts, Asked
<1>2. CASE TimerExpires \/ UNCHANGED vars
  BY <1>1, <1>2, AccountsKept DEF TimerExpires, vars, history
<1>3. ASSUME NEW n, NEW t, CredentialLearnStart(n, t) PROVE Accounts'
  <2>1. commands < MaxCommands /\ commands' = commands + 1 /\ LearnStart(t, n, ccQueue)
    BY <1>3 DEF CredentialLearnStart, Frame, FromOutside
  <2>2. commands' \in Nat /\ commands' <= MaxCommands /\ session + Asked(ccQueue) + 1 <= commands'
    BY <1>1, <2>1 DEF Accounts
  <2> QED BY <1>1, <2>1, <2>2, LearnStartAccounts
<1>4. ASSUME NEW n, CredentialLearnCancel(n) PROVE Accounts'
  <2>1. /\ ccQueue' = EnqueuedCc(ccQueue, Notice("LEARN_CANCEL_REMOTE"))
        /\ commands' = commands + 1
        /\ cl_state' = NoSession /\ session' = session /\ lost' = lost
    BY <1>4, ResetAccounts DEF CredentialLearnCancel, Frame, FromOutside
  <2> QED BY <1>1, <2>1, NoticesFit, AccountsKept DEF Notices
<1>5. ASSUME UNCHANGED <<cl_state, ccQueue, history>>, FromOutside PROVE Accounts'
  BY <1>1, <1>5, AccountsKept DEF FromOutside, history
<1>6. CASE Frames
  BY <1>3, <1>4, <1>5, <1>6 DEF Frames, UserAdd, UserDelete, AssociationSet, CredentialSet,
     CredentialDelete, NetworkReset, DatabaseFrame, Frame
<1>7. ASSUME NEW event \in Events, FromReader(event) PROVE Accounts'
  <2>1. /\ Len(ccQueue') <= CcQueueSize /\ Asked(ccQueue') \in Nat
        /\ Asked(ccQueue') <= Asked(ccQueue) + 1
    BY <1>1, <1>7, EnqueueCcFits DEF FromReader
  <2> QED BY <1>1, <1>7, <2>1, AccountsKept DEF FromReader, FromOutside, history
<1>8. CASE ReaderNotices
  <2>1. Notice("LEARN_STEP_RETRY") \in Events /\ Notice("LEARN_CANCEL_LOCAL") \in Events
    BY EventFields DEF Notices
  <2> QED BY <1>7, <1>8, <2>1 DEF ReaderNotices
<1>9. ASSUME NEW c \in Codes \cup {NoCode}, Deliver(c) PROVE Accounts'
  BY <1>7, <1>9, EventFields DEF Deliver
<1>10. ASSUME NEW t \in Targets, StartRequest(t) PROVE Accounts'
  BY <1>7, <1>10, EventFields DEF StartRequest
<1>11. CASE PowerLoss
  <2>1. /\ ccQueue' = <<>> /\ commands' = commands + 1
        /\ cl_state' = NoSession /\ session' = session /\ lost' = lost
    BY <1>11, ResetAccounts DEF PowerLoss, FromOutside
  <2>2. Len(ccQueue') <= CcQueueSize
    <3>1. \A size \in Nat : 0 <= size
      OBVIOUS
    <3> QED BY <2>1, <3>1, EmptySeq, LearnAssumption, Zenon
  <2>3. Asked(ccQueue') = 0
    <3>1. Places(ccQueue', Requests) = {}
      BY <2>1 DEF Places
    <3> QED BY <3>1, FS_EmptySet DEF Asked, Occurrences
  <2> QED BY <1>1, <2>1, <2>2, <2>3, AccountsKept
<1> QED BY <1>2, <1>6, <1>8, <1>9, <1>10, <1>11 DEF Outside

LEMMA OthersStep ==
  ASSUME Shapes, Others, [Next]_vars
  PROVE  Others'
<1>1. /\ appQueue \in Seq(AppEvents) /\ Len(appQueue) <= AppQueueSize /\ AppQueueSize \in Nat
      /\ round \in Seq(Handlers) /\ users \subseteq Users /\ commands \in 0 .. MaxCommands
  BY LearnAssumption DEF Shapes, Others
\* What a step can do to them.
<1>2. /\ commands' = commands \/ FromOutside
      /\ \/ appQueue' = appQueue
         \/ appQueue # <<>> /\ appQueue' = Tail(appQueue)
         \/ \E event \in AppEvents : appQueue' = Enqueued(appQueue, AppQueueSize, event)
         \/ appQueue' = <<>>
      /\ \/ round' = round
         \/ round # <<>> /\ round' = Tail(round)
         \/ \E pending : round' = HandlerTable(pending)
         \/ round' = <<>>
      /\ users' \in {users, {}, {1}} \/ (\E u \in Users : users' \in {users \cup {u}, users \ {u}})
      /\ reading' \in {reading, TRUE, FALSE}
  BY DEF Next, Task, Outside, Frames, vars, EventDistributorDistribute, HandlerReturns,
         TimeoutCallback, RequestCredentialFromUser, LearnModeFinished, LearnStartEvent,
         LearnStartRequestEvent, LearnStepStartEvent, LearnReadDoneEvent,
         LearnStepRetryEvent, LearnCancelLocalEvent, OtherEvent, TimerExpires,
         CredentialLearnStart, CredentialLearnCancel, UserAdd, UserDelete, AssociationSet,
         CredentialSet, CredentialDelete, NetworkReset, DatabaseFrame, Frame, Deliver,
         ReaderNotices, StartRequest, FromReader, PowerLoss, Turn,
         database, AppEvents
<1>3. Len(appQueue') <= AppQueueSize
  <2>1. CASE appQueue # <<>> /\ appQueue' = Tail(appQueue)
    <3>1. Len(appQueue) \in Nat /\ Len(appQueue') = Len(appQueue) - 1
      BY <1>1, <2>1, TailSeq
    <3> QED BY <1>1, <3>1
  <2>2. CASE appQueue' = <<>>
    <3>1. \A size \in Nat : 0 <= size
      OBVIOUS
    <3> QED BY <1>1, <2>2, <3>1, EmptySeq, Zenon
  <2> QED BY <1>1, <1>2, <2>1, <2>2, EnqueueAppFits
<1>4. round' \in Seq(Handlers)
  <2>1. \A pending : HandlerTable(pending) \in Seq(Handlers)
    <3> SUFFICES ASSUME NEW pending PROVE HandlerTable(pending) \in Seq(Handlers)
      OBVIOUS
    <3> DEFINE entry(h) == IF h \in pending THEN <<h>> ELSE <<>>
    <3>1. \A h \in Handlers : entry(h) \in Seq(Handlers)
      OBVIOUS
    <3>2. /\ entry("TIMER") \in Seq(Handlers) /\ entry("ZWRX") \in Seq(Handlers)
          /\ entry("ZWCOMMANDSTATUS") \in Seq(Handlers)
          /\ entry("APP") \in Seq(Handlers) /\ entry("CC") \in Seq(Handlers)
      BY <3>1 DEF Handlers
    <3>3. HandlerTable(pending) = entry("TIMER") \o entry("ZWRX") \o entry("ZWCOMMANDSTATUS")
                                    \o entry("APP") \o entry("CC")
      BY DEF HandlerTable
    <3> HIDE DEF entry
    <3> QED BY <3>2, <3>3, ConcatProperties
  <2>2. CASE round # <<>> /\ round' = Tail(round)
    BY <1>1, <2>2, TailSeq
  <2>3. <<>> \in Seq(Handlers)
    BY EmptySeq
  <2> QED BY <1>1, <1>2, <2>1, <2>2, <2>3, Zenon
<1>5. users' \subseteq Users /\ reading' \in BOOLEAN
  BY <1>1, <1>2, LearnAssumption DEF Others
<1>6. commands' \in 0 .. MaxCommands
  BY <1>1, <1>2, LearnAssumption DEF FromOutside
<1> QED BY <1>3, <1>4, <1>5, <1>6 DEF Others

LEMMA LimitsInvariant == Spec => [](Accounts /\ Others)
<1>1. Init => Accounts /\ Others
  <2> SUFFICES ASSUME Init PROVE Accounts /\ Others
    OBVIOUS
  <2>1. /\ ccQueue = <<>> /\ appQueue = <<>> /\ round = <<>> /\ users = {1} /\ reading = FALSE
        /\ session = 0 /\ lost = {} /\ commands = 0 /\ ~cl_state.in_progress
    BY DEF Init, NoSession
  <2>2. Len(ccQueue) = 0 /\ Len(appQueue) = 0 /\ round \in Seq(Handlers)
    BY <2>1, EmptySeq
  <2>3. Asked(ccQueue) = 0
    <3>1. Places(ccQueue, Requests) = {}
      BY <2>1 DEF Places
    <3> QED BY <3>1, FS_EmptySet DEF Asked, Occurrences
  <2>4. Accounts
    <3>1. \A size \in Nat : 0 <= size
      OBVIOUS
    <3>2. Len(ccQueue) <= CcQueueSize
      BY <2>2, <3>1, LearnAssumption, Zenon
    <3>3. session + Asked(ccQueue) <= commands
      BY <2>1, <2>3
    <3> QED BY <2>1, <3>2, <3>3 DEF Accounts
  <2>5. Others
    <3>1. \A size \in Nat : 0 <= size /\ 0 \in 0 .. size
      OBVIOUS
    <3>2. Len(appQueue) <= AppQueueSize /\ commands \in 0 .. MaxCommands
      BY <2>1, <2>2, <3>1, LearnAssumption, Zenon
    <3>3. users \subseteq Users /\ reading \in BOOLEAN
      BY <2>1, LearnAssumption
    <3> QED BY <2>2, <3>2, <3>3 DEF Others
  <2> QED BY <2>4, <2>5
<1>2. LearnInv /\ Accounts /\ Others /\ [Next]_vars => (Accounts /\ Others)'
  <2> SUFFICES ASSUME LearnInv, Accounts, Others, [Next]_vars PROVE (Accounts /\ Others)'
    OBVIOUS
  <2>1. Shapes /\ commands \in 0 .. MaxCommands
    BY DEF LearnInv, Others
  <2>2. Accounts'
    BY <2>1, TaskAccounts, OutsideAccounts DEF Next
  <2> QED BY <2>1, <2>2, OthersStep
<1> QED BY <1>1, <1>2, LearnInvariant, PTL DEF Spec

(***************************************************************************)
(* The state of a learn session keeps its type, neither event queue grows  *)
(* past its size, and no session is opened that nothing from outside asked *)
(* for: each frame and each queued request of the application opens one at *)
(* most.                                                                   *)
(***************************************************************************)
THEOREM LearnTypes == Spec => []LearnTypeOK
<1>1. LearnInv /\ Accounts /\ Others => LearnTypeOK
  <2> SUFFICES ASSUME LearnInv, Accounts, Others PROVE LearnTypeOK
    OBVIOUS
  <2>1. session \in 0 .. commands
    <3>1. Asked(ccQueue) \in Nat /\ session \in Nat /\ commands \in Nat
      BY OccurrencesType, LearnAssumption DEF LearnInv, Shapes, Others, Asked
    <3> QED BY <3>1 DEF Accounts
  <2> QED BY <2>1 DEF LearnTypeOK, LearnInv, Shapes, Accounts, Others
<1> QED BY <1>1, LearnInvariant, LimitsInvariant, PTL
=============================================================================
