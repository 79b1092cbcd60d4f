--------------------------- MODULE SchedulesProofs ---------------------------
(***************************************************************************)
(* Schedules and the User database: the schedule commands leave the         *)
(* database as sound as it is alone, no schedule outlives its user, every   *)
(* stored schedule has passed validation, and a step changes no other       *)
(* user's schedules.                                                        *)
(***************************************************************************)
EXTENDS Schedules, UserStoreProofs, ScheduleTimeLemmas

------------------------------------------------------------------------------
(* The User database below *)

\* To the User database a schedule command is a stuttering step.
LEMMA UserStep == [NextSchedules]_allVars => [Next]_vars
<1> SUFFICES ASSUME [NextSchedules]_allVars PROVE [Next]_vars
  OBVIOUS
<1>1. ASSUME NEW target, NEW state, EnableSet(target, state) \/ EnableGet(target)
      PROVE  [Next]_vars
  BY <1>1 DEF EnableSet, EnableGet, Receive, userVars
<1>0. ASSUME NEW type, NEW action, NEW target, NEW slot, NEW s, NEW metadata_length,
             \/ ScheduleSet(type, action, target, slot, s, metadata_length)
             \/ ScheduleGet(type, target, slot)
      PROVE  [Next]_vars
  BY <1>0 DEF ScheduleSet, ScheduleGet, Receive, userVars
<1>2. CASE ReadSchedule \/ WriteSchedule
  BY <1>2 DEF ReadSchedule, WriteSchedule, userVars
<1>3. ASSUME NEW uid \in UserIds, DeleteUser(uid) PROVE [Next]_vars
  BY <1>3 DEF DeleteUser, Next
<1>4. CASE OtherUserOperations
  BY <1>4 DEF OtherUserOperations, Next
<1>5. CASE LearnModeReset
  BY <1>5 DEF LearnModeReset, Next
<1>6. CASE PowerLossAnywhere
  BY <1>6 DEF PowerLossAnywhere, Next
<1>7. CASE UNCHANGED allVars
  BY <1>7 DEF allVars, vars
<1> QED
  BY <1>0, <1>1, <1>2, <1>3, <1>4, <1>5, <1>6, <1>7, Zenon DEF NextSchedules

(***************************************************************************)
(* The device with schedules uses the User database only as UserStore says: *)
(* what is proved of the database holds in the device.                      *)
(***************************************************************************)
THEOREM SchedulesUseUserStore == SpecSchedules => Spec
<1>1. InitSchedules => Init
  BY DEF InitSchedules
<1> QED BY <1>1, UserStep, PTL DEF SpecSchedules, Spec

------------------------------------------------------------------------------
(* No schedule outlives its user *)

\* Storing a zeroed file, or leaving the files alone, schedules nobody.
LEMMA NobodyNew ==
    ASSUME schedule = [offset \in Offsets |-> schedule[offset]],
           UNCHANGED schedule \/ \E uid \in UserIds : Store(uid, Zeroed)
    PROVE  /\ schedule' = [offset \in Offsets |-> schedule'[offset]]
           /\ \A uid \in UserIds : Scheduled(uid)' => Scheduled(uid)
<1>1. CASE UNCHANGED schedule
  BY <1>1 DEF Scheduled
<1>2. ASSUME NEW uid \in UserIds, Store(uid, Zeroed)
      PROVE  /\ schedule' = [offset \in Offsets |-> schedule'[offset]]
             /\ \A u \in UserIds : Scheduled(u)' => Scheduled(u)
  <2>1. schedule' = [schedule EXCEPT ![uid - 1] = Zeroed]
    BY <1>2 DEF Store, FileOf
  <2>2. \A u \in UserIds : u - 1 \in Offsets
    BY TargetsAssumption, BoundsAssumption DEF Offsets
  <2>3. ASSUME NEW u \in UserIds, Scheduled(u)' PROVE Scheduled(u)
    <3>1. schedule'[u - 1] # Zeroed /\ schedule'[u - 1] # NoFile
      BY <2>3 DEF Scheduled, Zeroed, Unoccupied, app_sch_get_schedule_count
    <3>2. schedule'[u - 1] = IF u - 1 = uid - 1 THEN Zeroed ELSE schedule[u - 1]
      BY <2>1, <2>2
    <3> QED BY <3>1, <3>2 DEF Scheduled
  <2> QED BY <2>1, <2>3
<1> QED BY <1>1, <1>2

LEMMA OrphanInvInit == InitSchedules => OrphanInv
<1> SUFFICES ASSUME InitSchedules PROVE OrphanInv
  OBVIOUS
<1>1. \A uid \in UserIds : ~Scheduled(uid)
  <2>1. \A uid \in UserIds : uid - 1 \in Offsets
    BY TargetsAssumption, BoundsAssumption DEF Offsets
  <2> QED BY <2>1 DEF InitSchedules, Scheduled
<1>2. pc = "off" /\ command = NoCommand
  BY DEF InitSchedules, Init
<1>3. schedule = [offset \in Offsets |-> schedule[offset]]
  BY DEF InitSchedules
<1> QED BY <1>1, <1>2, <1>3 DEF OrphanInv, NoOrphans, DeletesUnscheduled, CommandOK

\* Steps of a database in use that change neither the table nor the numbers.
LEMMA QuietOrphan ==
    ASSUME OrphanInv, UNCHANGED <<table, number, n_users>>,
           UNCHANGED schedule \/ \E uid \in UserIds : Store(uid, Zeroed),
           pc \notin {"off", "number"}, pc' \notin {"off", "number"},
           DeletesUnscheduled', CommandOK'
    PROVE  OrphanInv'
<1>1. /\ schedule' = [offset \in Offsets |-> schedule'[offset]]
      /\ \A uid \in UserIds : Scheduled(uid)' => Scheduled(uid)
  BY NobodyNew DEF OrphanInv
<1>2. \A uid \in UserIds : Listed(uid) => Listed(uid)'
  BY DEF Listed, Count, HasEntry
<1>3. NoOrphans'
  BY <1>1, <1>2 DEF OrphanInv, NoOrphans
<1> QED BY <1>1, <1>3 DEF OrphanInv

LEMMA ReceiveOrphan ==
    ASSUME OrphanInv, NEW c, NEW accepted, Receive(c, accepted),
           accepted => "target" \in DOMAIN c /\ validate_target(c.target)
    PROVE  OrphanInv'
<1>1. /\ pc = "idle" /\ UNCHANGED <<schedule, table, number, n_users, pc, call>>
      /\ command' = NoCommand \/ (accepted /\ command' = c)
  BY DEF Receive, Ready, Fail, Finish, userVars, vars
<1>2. CommandOK'
  BY <1>1 DEF CommandOK, validate_target, TableReadable, Exists, Entries
<1>3. DeletesUnscheduled'
  BY <1>1 DEF DeletesUnscheduled
<1> QED BY <1>1, <1>2, <1>3, QuietOrphan

\* A command under way has a user, so it has one of the identifiers in use.
LEMMA TargetInUse ==
    ASSUME TableInv, CommandOK, command # NoCommand
    PROVE  /\ pc = "idle" /\ command.target.id \in UserIds
           /\ n_users \notin {0, UNSET} /\ HasEntry(table, command.target.id)
<1>1. pc = "idle" /\ TableReadable /\ Exists(command.target.id)
  BY DEF CommandOK
<1>2. PICK i \in Entries : table[i].unique_identifier = command.target.id
  BY <1>1 DEF Exists
<1>3. n_users = Len(table) /\ i \in 1 .. Len(table) /\ table[i] \in Descriptor
  BY <1>1, ReadableEntries DEF TableInv
<1>4. n_users \in 0 .. MaxUsers /\ n_users # 0
  BY <1>1, <1>3, InUse DEF TableInv
<1>5. command.target.id \in UserIds
  BY <1>2, <1>3 DEF Descriptor
<1>6. n_users # UNSET
  BY <1>4, BoundsAssumption DEF UNSET
<1> QED BY <1>1, <1>2, <1>3, <1>4, <1>5, <1>6 DEF HasEntry

LEMMA ReadScheduleOrphan ==
    ASSUME TableInv, OrphanInv, "io" \notin Faults, ReadSchedule
    PROVE  OrphanInv'
<1>1. /\ command # NoCommand /\ UNCHANGED <<table, number, n_users, pc, call>>
      /\ Store(command.target.id, Zeroed)
      /\ \/ command' = NoCommand
         \/ command' = [command EXCEPT !.step = "write"]
  BY DEF ReadSchedule, StoreFails, WriteFails, Succeed, Finish, userVars, vars
<1>2. pc = "idle" /\ command.target.id \in UserIds
  BY <1>1, TargetInUse DEF OrphanInv
<1>3. CommandOK'
  <2>1. \/ command' = NoCommand
        \/ "target" \in DOMAIN command' /\ command'.target = command.target
    BY <1>1 DEF OrphanInv, CommandOK
  <2> QED BY <1>1, <2>1 DEF OrphanInv, CommandOK, TableReadable, Exists, Entries
<1>4. DeletesUnscheduled'
  BY <1>1, <1>2 DEF DeletesUnscheduled
<1> QED BY <1>1, <1>2, <1>3, <1>4, QuietOrphan

LEMMA WriteScheduleOrphan ==
    ASSUME TableInv, OrphanInv, "io" \notin Faults, WriteSchedule
    PROVE  OrphanInv'
<1>1. /\ command # NoCommand /\ UNCHANGED <<table, number, n_users, pc, call>>
      /\ Store(command.target.id, Updated) /\ command' = NoCommand
  BY DEF WriteSchedule, StoreFails, WriteFails, Succeed, Finish, userVars, vars
<1>2. PICK uid \in UserIds :
        /\ uid = command.target.id
        /\ pc = "idle" /\ n_users \notin {0, UNSET} /\ HasEntry(table, uid)
  BY <1>1, TargetInUse DEF OrphanInv
<1>3. \A u \in UserIds : u = uid \/ Listed(u) => Listed(u)'
  BY <1>1, <1>2 DEF Listed, Count, HasEntry
<1>4. schedule' = [schedule EXCEPT ![uid - 1] = Updated]
  BY <1>1, <1>2 DEF Store, FileOf
<1>5. /\ schedule' = [offset \in Offsets |-> schedule'[offset]]
      /\ \A u \in UserIds : u # uid => (Scheduled(u)' => Scheduled(u))
  <2>1. \A u \in UserIds : u \in Nat
    BY IdsAssumption
  <2>2. \A u \in UserIds : u - 1 \in Offsets /\ (u # uid => u - 1 # uid - 1)
    BY <1>2, <2>1, TargetsAssumption, BoundsAssumption DEF Offsets
  <2>3. schedule = [offset \in Offsets |-> schedule[offset]]
    BY DEF OrphanInv
  <2>4. ASSUME NEW u \in UserIds, u # uid PROVE schedule'[u - 1] = schedule[u - 1]
    BY <1>4, <2>2, <2>3, <2>4
  <2>5. schedule' = [offset \in Offsets |-> schedule'[offset]]
    BY <1>4, <2>3
  <2> QED BY <2>4, <2>5 DEF Scheduled, Zeroed, NoFile, Unoccupied, app_sch_get_schedule_count
<1>6. NoOrphans'
  BY <1>3, <1>5 DEF OrphanInv, NoOrphans
<1>7. number' \notin {0, UNSET} /\ number' = n_users'
  BY <1>1, <1>2 DEF OrphanInv
<1>8. DeletesUnscheduled' /\ CommandOK'
  BY <1>1, <1>2 DEF DeletesUnscheduled, CommandOK
<1> QED BY <1>1, <1>2, <1>5, <1>6, <1>7, <1>8 DEF OrphanInv

LEMMA DeleteUserOrphan ==
    ASSUME TableInv, OrphanInv, "io" \notin Faults, NEW uid \in UserIds, DeleteUser(uid)
    PROVE  OrphanInv'
<1>1. /\ pc = "idle" /\ command' = NoCommand
      /\ UNCHANGED <<table, number, n_users>>
  BY DEF DeleteUser, delete_user, files, ram
<1>2. CASE pc' # "table"
  <2>1. pc' = "idle" /\ UNCHANGED schedule
    BY <1>2 DEF DeleteUser, delete_user, Return
  <2> QED BY <1>1, <2>1, QuietOrphan DEF DeletesUnscheduled, CommandOK
<1>3. CASE pc' = "table"
  <2>1. /\ call' = [operation |-> "delete", index |-> IndexOf(uid), uid |-> uid]
        /\ Exists(uid)
    BY <1>3 DEF DeleteUser, delete_user, Return
  <2>2. Store(uid, Zeroed)
    BY <1>3 DEF DeleteUser, user_changed, StoreFails, WriteFails
  <2>3. ~Scheduled(uid)'
    <3>1. schedule' = [schedule EXCEPT ![uid - 1] = Zeroed]
      BY <2>2 DEF Store, FileOf
    <3>2. schedule = [offset \in Offsets |-> schedule[offset]] /\ uid - 1 \in Offsets
      BY TargetsAssumption, BoundsAssumption DEF OrphanInv, Offsets
    <3>3. schedule'[uid - 1] = Zeroed
      BY <3>1, <3>2
    <3> QED BY <3>3 DEF Scheduled, Zeroed, Unoccupied, app_sch_get_schedule_count
  <2>4. table'[call'.index].unique_identifier = uid /\ call'.uid = uid
    BY <1>1, <2>1, IndexOfFound
  <2>5. DeletesUnscheduled'
    BY <2>3, <2>4 DEF DeletesUnscheduled, Scheduled
  <2> QED BY <1>1, <1>3, <2>2, <2>5, QuietOrphan DEF CommandOK
<1> QED BY <1>2, <1>3

LEMMA WriteTableAddOrphan ==
    ASSUME TableInv, OrphanInv, "io" \notin Faults, WriteTableAdd,
           command = NoCommand, UNCHANGED <<schedule, command>>
    PROVE  OrphanInv'
<1>1. /\ pc = "table" /\ call.operation = "add" /\ pc' = "number"
      /\ n_users' = n_users + 1 /\ UNCHANGED <<number, call>>
  BY DEF WriteTableAdd, WriteFails
<1>2. PICK index \in 1 .. n_users + 1 :
        table' = Written(table, InsertAt(ReadTable, index, NewDescriptor), ChunkEntries)
  BY DEF WriteTableAdd, WriteFails
<1>3. n_users \in 0 .. MaxUsers /\ number = n_users /\ n_users' \notin {0, UNSET}
  <2>1. n_users \in 0 .. MaxUsers /\ n_users < MaxUsers
    BY <1>1, InUse DEF TableInv, CallOK, Adding
  <2> QED BY <1>1, <2>1, BoundsAssumption DEF OrphanInv, UNSET
<1>4. ASSUME NEW u \in UserIds, Scheduled(u)' PROVE Listed(u)'
  <2>1. n_users # 0 /\ HasEntry(table, u)
    BY <1>1, <1>4 DEF Scheduled, OrphanInv, NoOrphans, Listed, Count
  <2>2. PICK i \in 1 .. Len(table) : table[i].unique_identifier = u
    BY <2>1 DEF HasEntry
  <2>3. n_users = Len(table)
    BY <1>1, <2>1 DEF TableInv, CallOK, Adding, TableReadable, ReadSucceeds
  <2> DEFINE new == InsertAt(table, index, NewDescriptor)
  <2>4. NewDescriptor \in Descriptor /\ table \in Seq(Descriptor)
    BY <1>1, WritingCall DEF TableInv, TypeOK, NewDescriptor, Descriptor
  <2>5. /\ Len(new) = Len(table) + 1
        /\ \A j \in 1 .. Len(table) + 1 :
             new[j] = IF j < index THEN table[j]
                      ELSE IF j = index THEN NewDescriptor ELSE table[j - 1]
    BY <2>3, <2>4, InsertAtProperties
  <2>6. table' = table \/ table' = new
    BY <1>2, <2>1, WrittenOldOrNew DEF ReadTable
  <2> HIDE DEF new
  <2>7. HasEntry(new, u)
    <3>1. Len(table) \in Nat /\ index \in 1 .. Len(table) + 1
      BY <2>3, <2>4, LenProperties
    <3>2. CASE i < index
      <4>1. new[i].unique_identifier = u /\ i \in 1 .. Len(new)
        BY <2>2, <2>5, <3>1, <3>2
      <4> QED BY <4>1 DEF HasEntry
    <3>3. CASE ~(i < index)
      <4>1. new[i + 1].unique_identifier = u /\ i + 1 \in 1 .. Len(new)
        BY <2>2, <2>5, <3>1, <3>3
      <4> QED BY <4>1 DEF HasEntry
    <3> QED BY <3>2, <3>3
  <2>8. HasEntry(table', u)
    BY <2>1, <2>6, <2>7
  <2> QED BY <1>1, <1>3, <2>8 DEF Listed, Count, HasEntry
<1>5. NoOrphans'
  BY <1>4 DEF NoOrphans
<1>6. number' \in {0, UNSET} => \A u \in UserIds : ~Scheduled(u)'
  BY <1>1 DEF OrphanInv, Scheduled
<1> QED BY <1>1, <1>5, <1>6 DEF OrphanInv, DeletesUnscheduled, CommandOK

LEMMA WriteTableDeleteOrphan ==
    ASSUME TableInv, OrphanInv, "io" \notin Faults, WriteTableDelete,
           command = NoCommand, UNCHANGED <<schedule, command>>
    PROVE  OrphanInv'
<1>1. /\ pc = "table" /\ call.operation = "delete" /\ pc' = "number"
      /\ n_users' = n_users - 1 /\ UNCHANGED <<number, call>>
      /\ table' = IF n_users = 1 THEN table
                  ELSE Written(table, Without(table, call.index), ChunkEntries)
  BY DEF WriteTableDelete, WriteFails
<1>2. /\ n_users \in 1 .. MaxUsers /\ n_users = Len(table)
      /\ call.index \in 1 .. Len(table) /\ table \in Seq(Descriptor)
  <2>1. TableReadable /\ call.index \in Entries
    BY <1>1 DEF TableInv, CallOK, Deleting
  <2>2. n_users = Len(table) /\ call.index \in 1 .. Len(table) /\ n_users \in 0 .. MaxUsers
    BY <1>1, <2>1, ReadableEntries, InUse DEF TableInv
  <2> QED BY <2>2 DEF TableInv, TypeOK
<1>3. ~Scheduled(call.uid) /\ table[call.index].unique_identifier = call.uid
  BY <1>1 DEF OrphanInv, DeletesUnscheduled
<1>4. ASSUME NEW u \in UserIds, Scheduled(u)' PROVE Listed(u)'
  <2>1. u # call.uid /\ HasEntry(table, u)
    BY <1>3, <1>4 DEF Scheduled, OrphanInv, NoOrphans, Listed
  <2>2. PICK i \in 1 .. Len(table) : table[i].unique_identifier = u
    BY <2>1 DEF HasEntry
  <2>3. i # call.index
    BY <1>3, <2>1, <2>2
  <2>4. n_users # 1
    BY <1>2, <2>2, <2>3
  <2> DEFINE new == Without(table, call.index)
  <2>5. /\ Len(new) = Len(table) - 1
        /\ \A j \in 1 .. Len(table) - 1 :
             new[j] = IF j < call.index THEN table[j] ELSE table[j + 1]
    BY <1>2, RemoveAtProperties DEF Without
  <2>6. table' = table \/ table' = new
    BY <1>1, WrittenOldOrNew
  <2> HIDE DEF new
  <2>7. HasEntry(new, u)
    <3>1. CASE i < call.index
      <4>1. new[i].unique_identifier = u /\ i \in 1 .. Len(new)
        BY <1>2, <2>2, <2>5, <3>1
      <4> QED BY <4>1 DEF HasEntry
    <3>2. CASE ~(i < call.index)
      <4>1. new[i - 1].unique_identifier = u /\ i - 1 \in 1 .. Len(new)
        BY <1>2, <2>2, <2>3, <2>5, <3>2
      <4> QED BY <4>1 DEF HasEntry
    <3> QED BY <3>1, <3>2
  <2>8. HasEntry(table', u)
    BY <2>1, <2>6, <2>7
  <2>9. n_users' \notin {0, UNSET}
    <3>1. n_users' = n_users - 1
      BY <1>1
    <3>2. n_users \in 1 .. MaxUsers
      BY <1>2
    <3> QED BY <2>4, <3>1, <3>2, BoundsAssumption DEF UNSET
  <2> QED BY <1>1, <2>8, <2>9 DEF Listed, Count, HasEntry
<1>5. NoOrphans'
  BY <1>4 DEF NoOrphans
<1>6. number' \in {0, UNSET} => \A u \in UserIds : ~Scheduled(u)'
  BY <1>1 DEF OrphanInv, Scheduled
<1>7. DeletesUnscheduled'
  BY <1>1, <1>3 DEF DeletesUnscheduled, Scheduled
<1> QED BY <1>1, <1>5, <1>6, <1>7 DEF OrphanInv, CommandOK


LEMMA WriteNumberOrphan ==
    ASSUME TableInv, OrphanInv, "io" \notin Faults, WriteNumber,
           command = NoCommand, UNCHANGED <<schedule, command>>
    PROVE  OrphanInv'
<1>1. /\ pc = "number" /\ pc' = "idle" /\ number' = n_users /\ UNCHANGED <<n_users, table>>
  BY DEF WriteNumber, WriteFails, Return
<1>2. /\ \A u \in UserIds : Scheduled(u)' => Scheduled(u)
      /\ \A u \in UserIds : Listed(u) => Listed(u)'
  BY <1>1 DEF Scheduled, Listed, Count, HasEntry
<1>3. NoOrphans'
  BY <1>2 DEF OrphanInv, NoOrphans
<1>4. number' \in {0, UNSET} => \A u \in UserIds : ~Scheduled(u)'
  BY <1>1, <1>2 DEF OrphanInv, NoOrphans, Listed, Count
<1> QED BY <1>1, <1>3, <1>4 DEF OrphanInv, DeletesUnscheduled, CommandOK

LEMMA InitDatabaseOrphan ==
    ASSUME TableInv, OrphanInv, "io" \notin Faults, init_database,
           command = NoCommand, UNCHANGED <<schedule, command>>
    PROVE  OrphanInv'
<1>1. pc = "off" /\ pc' = "idle" /\ UNCHANGED table /\ n_users' = number'
      /\ (number' = number \/ (number = UNSET /\ number' = 0))
  BY DEF init_database, factory_reset, WriteFails, Return, files
<1>2. \A u \in UserIds : Scheduled(u)' => Scheduled(u)
  BY DEF Scheduled
<1>3. number' \in {0, UNSET} => \A u \in UserIds : ~Scheduled(u)'
  BY <1>1, <1>2 DEF OrphanInv
<1>4. NoOrphans'
  BY <1>1, <1>2, <1>3 DEF OrphanInv, NoOrphans, Listed, Count, HasEntry
<1> QED BY <1>1, <1>3, <1>4 DEF OrphanInv, DeletesUnscheduled, CommandOK

LEMMA PowerLossOrphan ==
    ASSUME OrphanInv, PowerLossAnywhere
    PROVE  OrphanInv'
<1>1. pc' = "off" /\ command' = NoCommand /\ UNCHANGED <<schedule, table, number>>
  BY DEF PowerLossAnywhere, PowerLoss, files
<1>2. \A u \in UserIds : Scheduled(u)' => Scheduled(u)
  BY <1>1 DEF Scheduled
<1>3. number' \in {0, UNSET} => \A u \in UserIds : ~Scheduled(u)'
  BY <1>1, <1>2 DEF OrphanInv
<1>4. NoOrphans'
  BY <1>1, <1>2, <1>3 DEF OrphanInv, NoOrphans, Listed, Count, HasEntry
<1> QED BY <1>1, <1>3, <1>4 DEF OrphanInv, DeletesUnscheduled, CommandOK

LEMMA OtherUserOperationsOrphan ==
    ASSUME TableInv, OrphanInv, "io" \notin Faults, OtherUserOperations
    PROVE  OrphanInv'
<1>0. command = NoCommand /\ UNCHANGED <<schedule, command>>
  BY DEF OtherUserOperations
<1>1. ASSUME UNCHANGED <<table, number, n_users>>, pc \in {"idle", "object", "name"},
             pc' \in {"idle", "object", "name"} \/ (pc' = "table" /\ call'.operation = "add")
      PROVE  OrphanInv'
  BY <1>0, <1>1, QuietOrphan DEF DeletesUnscheduled, CommandOK
<1>2. ASSUME NEW user \in User, add_user(user) PROVE OrphanInv'
  BY <1>1, <1>2 DEF add_user, Return, files, ram
<1>3. ASSUME NEW stored, NEW newName, modify_user(stored, newName) PROVE OrphanInv'
  BY <1>1, <1>3 DEF modify_user, Return, files, ram
<1>4. ASSUME NEW uid, NEW data, modify_user_object(uid, data) PROVE OrphanInv'
  BY <1>3, <1>4 DEF modify_user_object
<1>5. CASE WriteObject
  BY <1>1, <1>5 DEF WriteObject, Return, ram
<1>6. CASE WriteName
  BY <1>1, <1>6 DEF WriteName, Return, ram
<1>7. CASE WriteTableAdd
  BY <1>0, <1>7, WriteTableAddOrphan
<1>8. CASE WriteTableDelete
  BY <1>0, <1>8, WriteTableDeleteOrphan
<1>9. CASE WriteNumber
  BY <1>0, <1>9, WriteNumberOrphan
<1>10. CASE init_database
  BY <1>0, <1>10, InitDatabaseOrphan
<1> QED
  BY <1>2, <1>3, <1>4, <1>5, <1>6, <1>7, <1>8, <1>9, <1>10 DEF OtherUserOperations

LEMMA CommandsOrphan ==
    ASSUME OrphanInv, NEW target, NEW state, NEW type, NEW action, NEW slot, NEW s,
           NEW metadata_length,
           \/ EnableSet(target, state)
           \/ EnableGet(target)
           \/ ScheduleSet(type, action, target, slot, s, metadata_length)
           \/ ScheduleGet(type, target, slot)
    PROVE  OrphanInv'
<1>1. CASE EnableSet(target, state)
  BY <1>1, ReceiveOrphan DEF EnableSet
<1>2. CASE EnableGet(target)
  BY <1>2, ReceiveOrphan DEF EnableGet
<1>3. CASE ScheduleSet(type, action, target, slot, s, metadata_length)
  <2> DEFINE c == [operation |-> "ScheduleSet", step |-> "read", type |-> type,
                   action |-> action, target |-> target, slot |-> slot, schedule |-> s,
                   metadata_length |-> metadata_length]
  <2>1. Receive(c, ValidSet(c) /\ HasEffect(c))
    BY <1>3 DEF ScheduleSet
  <2>2. "target" \in DOMAIN c
    OBVIOUS
  <2>3. ValidSet(c) => validate_target(c.target)
    BY DEF ValidSet
  <2> HIDE DEF c
  <2> QED BY <2>1, <2>2, <2>3, ReceiveOrphan
<1>4. CASE ScheduleGet(type, target, slot)
  <2> DEFINE c == [operation |-> "ScheduleGet", step |-> "read", type |-> type,
                   target |-> target, slot |-> slot]
  <2>1. Receive(c, ValidGet(c))
    BY <1>4 DEF ScheduleGet
  <2>2. "target" \in DOMAIN c
    OBVIOUS
  <2>3. ValidGet(c) => validate_target(c.target)
    BY DEF ValidGet
  <2> HIDE DEF c
  <2> QED BY <2>1, <2>2, <2>3, ReceiveOrphan
<1> QED BY <1>1, <1>2, <1>3, <1>4

LEMMA OrphanInvStep ==
    ASSUME TableInv, OrphanInv, "io" \notin Faults, ~LearnModeResets,
           [NextSchedules]_allVars
    PROVE  OrphanInv'
<1>1. ASSUME NEW target, NEW state, EnableSet(target, state) \/ EnableGet(target)
      PROVE  OrphanInv'
  BY <1>1, CommandsOrphan
<1>2. ASSUME NEW type, NEW action, NEW target, NEW slot, NEW s, NEW metadata_length,
             \/ ScheduleSet(type, action, target, slot, s, metadata_length)
             \/ ScheduleGet(type, target, slot)
      PROVE  OrphanInv'
  BY <1>2, CommandsOrphan
<1>3. CASE ReadSchedule
  BY <1>3, ReadScheduleOrphan
<1>4. CASE WriteSchedule
  BY <1>4, WriteScheduleOrphan
<1>5. ASSUME NEW uid \in UserIds, DeleteUser(uid) PROVE OrphanInv'
  BY <1>5, DeleteUserOrphan
<1>6. CASE OtherUserOperations
  BY <1>6, OtherUserOperationsOrphan
<1>7. CASE PowerLossAnywhere
  BY <1>7, PowerLossOrphan
<1>8. CASE UNCHANGED allVars
  <2>1. UNCHANGED <<schedule, command, table, number, n_users, pc, call>>
    BY <1>8 DEF allVars
  <2> QED
    BY <2>1 DEF OrphanInv, NoOrphans, DeletesUnscheduled, CommandOK, Scheduled, Listed,
                Count, HasEntry, TableReadable, Exists, Entries
<1>9. ~LearnModeReset
  BY DEF LearnModeReset
<1> QED
  BY <1>1, <1>2, <1>3, <1>4, <1>5, <1>6, <1>7, <1>8, <1>9, Zenon DEF NextSchedules

(***************************************************************************)
(* Power may be lost at any moment: as long as NVM writes succeed and learn *)
(* mode does not reset the database, no schedule outlives its user, because *)
(* CC_UserCredential_delete_user calls user_changed before it writes the    *)
(* table.  Both conditions are needed: user_changed ignores a failed write, *)
(* and the run schedules_learn shows what a reset does.                     *)
(***************************************************************************)
THEOREM NoScheduleOutlivesItsUser ==
    ASSUME "io" \notin Faults, ~LearnModeResets
    PROVE  SpecSchedules => []NoOrphans
<1>1. InitSchedules => TableInv /\ OrphanInv
  BY TableInvInit, OrphanInvInit DEF InitSchedules
<1>2. (TableInv /\ OrphanInv) /\ [NextSchedules]_allVars => (TableInv /\ OrphanInv)'
  BY UserStep, TableInvStep, OrphanInvStep
<1>3. OrphanInv => NoOrphans
  BY DEF OrphanInv
<1> QED BY <1>1, <1>2, <1>3, PTL DEF SpecSchedules

------------------------------------------------------------------------------
(* What the schedule files hold *)

\* The schedules of a type that pass validation.
Accepted(type) == {s \in Inputs(type) : app_sch_validate_schedule_data(type, s)}

\* A file as the handlers write it: occupied slots hold accepted schedules.
SoundFile(file) ==
    /\ file.scheduling_active \in BOOLEAN
    /\ \A type \in Types : \A slot \in 1 .. app_sch_get_schedule_count(type) :
         \/ file.slots[type][slot] = Unoccupied
         \/ \E s \in Accepted(type) : file.slots[type][slot] = Occupied(s)

Steps == {"read", "write"}

\* The commands that get past validation; a Get has no second step.
EnableCommand(c) ==
    \E step \in Steps, target \in Targets, state \in BOOLEAN :
        \/ c = [operation |-> "EnableSet", step |-> step, target |-> target, state |-> state]
        \/ c = [operation |-> "EnableGet", step |-> "read", target |-> target]

SetCommand(c) ==
    \E step \in Steps, target \in Targets, type \in Types, action \in {"erase", "modify"},
       slot \in Nat, metadata_length \in MetadataLengths :
         \E s \in Inputs(type) :
           /\ action = "modify" => /\ slot \in 1 .. app_sch_get_schedule_count(type)
                                   /\ s \in Accepted(type)
           /\ c = [operation |-> "ScheduleSet", step |-> step, type |-> type,
                   action |-> action, target |-> target, slot |-> slot, schedule |-> s,
                   metadata_length |-> metadata_length]

GetCommand(c) ==
    \E target \in Targets, type \in Types, slot \in Nat :
        c = [operation |-> "ScheduleGet", step |-> "read", type |-> type,
             target |-> target, slot |-> slot]

KnownCommand(c) == EnableCommand(c) \/ SetCommand(c) \/ GetCommand(c)

(***************************************************************************)
(* The inductive invariant: the data of a command under way have passed     *)
(* validation, and only such data ever get into a file.                     *)
(***************************************************************************)
FileInv ==
    /\ schedule = [offset \in Offsets |-> schedule[offset]]
    /\ \A offset \in Offsets : schedule[offset] # NoFile => SoundFile(schedule[offset])
    /\ command # NoCommand => /\ KnownCommand(command)
                              /\ pc = "idle" /\ validate_target(command.target)

\* The next step of a command that has one is the same command.
LEMMA NextStep ==
    ASSUME KnownCommand(command), ~NeedsNoWrite \/ EraseAllOfType
    PROVE  /\ KnownCommand([command EXCEPT !.step = "write"])
           /\ [command EXCEPT !.step = "write"].target = command.target
<1> DEFINE c == command
<1>0. "write" \in Steps
  BY DEF Steps
<1>1. CASE EnableCommand(c)
  <2>1. PICK step \in Steps, target \in Targets, state \in BOOLEAN :
          c = [operation |-> "EnableSet", step |-> step, target |-> target, state |-> state]
    BY <1>1 DEF EnableCommand, NeedsNoWrite, EraseAllOfType
  <2>2. [c EXCEPT !.step = "write"]
          = [operation |-> "EnableSet", step |-> "write", target |-> target, state |-> state]
    BY <2>1
  <2> QED BY <1>0, <2>1, <2>2 DEF EnableCommand, KnownCommand
<1>2. CASE SetCommand(c)
  <2>1. PICK step \in Steps, target \in Targets, type \in Types,
             action \in {"erase", "modify"}, slot \in Nat,
             metadata_length \in MetadataLengths :
               \E s \in Inputs(type) :
                 /\ action = "modify" => /\ slot \in 1 .. app_sch_get_schedule_count(type)
                                         /\ s \in Accepted(type)
                 /\ c = [operation |-> "ScheduleSet", step |-> step, type |-> type,
                         action |-> action, target |-> target, slot |-> slot,
                         schedule |-> s, metadata_length |-> metadata_length]
    BY <1>2 DEF SetCommand
  <2>0. PICK s \in Inputs(type) :
               /\ action = "modify" => /\ slot \in 1 .. app_sch_get_schedule_count(type)
                                       /\ s \in Accepted(type)
               /\ c = [operation |-> "ScheduleSet", step |-> step, type |-> type,
                       action |-> action, target |-> target, slot |-> slot, schedule |-> s,
                       metadata_length |-> metadata_length]
    BY <2>1
  <2> DEFINE d == [operation |-> "ScheduleSet", step |-> "write", type |-> type,
                   action |-> action, target |-> target, slot |-> slot, schedule |-> s,
                   metadata_length |-> metadata_length]
  <2>2. [c EXCEPT !.step = "write"] = d /\ d.target = c.target
    BY <2>0
  <2>3. SetCommand(d)
    BY <1>0, <2>0 DEF SetCommand
  <2> HIDE DEF d
  <2> QED BY <2>2, <2>3 DEF KnownCommand
<1>3. ~GetCommand(c)
  BY DEF GetCommand, NeedsNoWrite, EraseAllOfType
<1> QED BY <1>1, <1>2, <1>3 DEF KnownCommand

LEMMA ZeroedSound == SoundFile(Zeroed) /\ Zeroed # NoFile
<1>1. Zeroed.scheduling_active = FALSE
  BY DEF Zeroed
<1>2. ASSUME NEW type \in Types, NEW slot \in 1 .. app_sch_get_schedule_count(type)
      PROVE  Zeroed.slots[type][slot] = Unoccupied
  BY DEF Zeroed
<1>3. "slots" \in DOMAIN Zeroed /\ "slots" \notin DOMAIN NoFile
  BY DEF Zeroed, NoFile
<1> QED BY <1>1, <1>2, <1>3 DEF SoundFile

\* What a command writes back holds nothing that validation refuses.
LEMMA UpdatedSound ==
    ASSUME KnownCommand(command), command.step = "write"
    PROVE  SoundFile(Updated)
<1>1. CASE EnableCommand(command)
  <2>1. PICK state \in BOOLEAN : command.operation = "EnableSet" /\ command.state = state
    BY <1>1 DEF EnableCommand
  <2>2. Updated = [Zeroed EXCEPT !.scheduling_active = state]
    BY <2>1 DEF Updated
  <2>3. Updated.scheduling_active = state /\ Updated.slots = Zeroed.slots
    BY <2>2 DEF Zeroed
  <2> QED BY <2>3, ZeroedSound DEF SoundFile
<1>2. CASE SetCommand(command)
  <2>1. PICK type, action, slot, s :
               /\ type \in Types /\ action \in {"erase", "modify"}
               /\ action = "modify" => /\ slot \in 1 .. app_sch_get_schedule_count(type)
                                       /\ s \in Accepted(type)
               /\ command.operation = "ScheduleSet" /\ command.type = type
               /\ command.action = action /\ command.slot = slot /\ command.schedule = s
    BY <1>2 DEF SetCommand
  <2>2. CASE action = "erase"
    BY <2>1, <2>2, ZeroedSound DEF Updated
  <2>3. CASE action = "modify"
    <3>1. Updated = [Zeroed EXCEPT !.scheduling_active = TRUE,
                                   !.slots[type][slot] = Occupied(s)]
      BY <2>1, <2>3 DEF Updated
    <3> DEFINE new == [Zeroed.slots EXCEPT ![type] = [@ EXCEPT ![slot] = Occupied(s)]]
    <3>2. Updated.scheduling_active = TRUE /\ Updated.slots = new
      BY <3>1 DEF Zeroed
    <3>3. ASSUME NEW t \in Types, NEW n \in 1 .. app_sch_get_schedule_count(t)
          PROVE  new[t][n] = IF t = type /\ n = slot THEN Occupied(s) ELSE Unoccupied
      <4>1. new[t] = IF t = type THEN [Zeroed.slots[type] EXCEPT ![slot] = Occupied(s)]
                     ELSE Zeroed.slots[t]
        BY DEF Zeroed
      <4>2. Zeroed.slots[t] = [i \in 1 .. app_sch_get_schedule_count(t) |-> Unoccupied]
        BY DEF Zeroed
      <4> HIDE DEF new
      <4>3. CASE t = type
        BY <4>1, <4>2, <4>3
      <4>4. CASE t # type
        BY <4>1, <4>2, <4>4
      <4> QED BY <4>3, <4>4
    <3> HIDE DEF new
    <3> QED BY <2>1, <2>3, <3>2, <3>3 DEF SoundFile
  <2> QED BY <2>1, <2>2, <2>3
<1>3. ~GetCommand(command)
  BY DEF GetCommand
<1> QED BY <1>1, <1>2, <1>3 DEF KnownCommand

\* The files stay sound when a sound one is stored.
LEMMA StoreSound ==
    ASSUME FileInv, NEW uid, NEW file, SoundFile(file),
           Store(uid, file) \/ UNCHANGED schedule
    PROVE  /\ schedule' = [offset \in Offsets |-> schedule'[offset]]
           /\ \A offset \in Offsets : schedule'[offset] # NoFile => SoundFile(schedule'[offset])
<1>1. CASE Store(uid, file)
  <2>1. \A offset \in Offsets :
          schedule'[offset] = file \/ schedule'[offset] = schedule[offset]
    BY <1>1 DEF Store, FileInv
  <2>2. schedule' = [offset \in Offsets |-> schedule'[offset]]
    BY <1>1 DEF Store, FileInv
  <2> QED BY <2>1, <2>2 DEF FileInv
<1>2. CASE UNCHANGED schedule
  BY <1>2 DEF FileInv
<1> QED BY <1>1, <1>2

LEMMA FileInvInit == InitSchedules => FileInv
  BY DEF InitSchedules, FileInv, NoCommand

LEMMA ReceiveFile ==
    ASSUME FileInv, NEW c, NEW accepted, Receive(c, accepted),
           accepted => KnownCommand(c) /\ validate_target(c.target)
    PROVE  FileInv'
<1>1. /\ pc = "idle" /\ UNCHANGED <<schedule, table, n_users, pc>>
      /\ command' = NoCommand \/ (accepted /\ command' = c)
  BY DEF Receive, Ready, Fail, Finish, userVars, vars
<1>2. accepted => validate_target(c.target)'
  BY <1>1 DEF validate_target, TableReadable, Exists, Entries
<1> QED BY <1>1, <1>2 DEF FileInv

LEMMA CommandsFile ==
    ASSUME FileInv, NEW target \in Targets, NEW type \in Types,
           NEW slot \in 0 .. app_sch_get_schedule_count(type) + 1,
           \/ \E state \in BOOLEAN : EnableSet(target, state)
           \/ EnableGet(target)
           \/ \E action \in {"erase", "modify", "reserved"}, s \in Inputs(type),
                 metadata_length \in MetadataLengths :
                   ScheduleSet(type, action, target, slot, s, metadata_length)
           \/ ScheduleGet(type, target, slot)
    PROVE  FileInv'
<1>0. app_sch_get_schedule_count(type) \in Nat /\ "read" \in Steps
  BY PerUserAssumption DEF app_sch_get_schedule_count, Steps
<1>1. ASSUME NEW state \in BOOLEAN, EnableSet(target, state) PROVE FileInv'
  <2> DEFINE c == [operation |-> "EnableSet", step |-> "read", target |-> target,
                   state |-> state]
  <2>1. Receive(c, validate_target(target))
    BY <1>1 DEF EnableSet
  <2>2. KnownCommand(c) /\ c.target = target
    BY <1>0 DEF KnownCommand, EnableCommand
  <2> HIDE DEF c
  <2> QED BY <2>1, <2>2, ReceiveFile
<1>2. CASE EnableGet(target)
  <2> DEFINE c == [operation |-> "EnableGet", step |-> "read", target |-> target]
  <2>1. Receive(c, validate_target(target))
    BY <1>2 DEF EnableGet
  <2>2. KnownCommand(c) /\ c.target = target
    BY <1>0 DEF KnownCommand, EnableCommand
  <2> HIDE DEF c
  <2> QED BY <2>1, <2>2, ReceiveFile
<1>3. ASSUME NEW action \in {"erase", "modify", "reserved"}, NEW s \in Inputs(type),
             NEW metadata_length \in MetadataLengths,
             ScheduleSet(type, action, target, slot, s, metadata_length)
      PROVE  FileInv'
  <2> DEFINE c == [operation |-> "ScheduleSet", step |-> "read", type |-> type,
                   action |-> action, target |-> target, slot |-> slot, schedule |-> s,
                   metadata_length |-> metadata_length]
  <2>1. Receive(c, ValidSet(c) /\ HasEffect(c))
    BY <1>3 DEF ScheduleSet
  <2>2. /\ ValidSet(c) => /\ validate_target(c.target)
                          /\ slot <= app_sch_get_schedule_count(type)
                          /\ action # "erase" => app_sch_validate_schedule_data(type, s)
        /\ HasEffect(c) => action = "erase" \/ (action = "modify" /\ slot # 0)
    BY DEF ValidSet, HasEffect, app_sch_validate_schedule_slot
  <2>3. ASSUME ValidSet(c), HasEffect(c) PROVE KnownCommand(c)
    <3>1. action \in {"erase", "modify"} /\ slot \in Nat
      BY <1>0, <2>2, <2>3
    <3>2. action = "modify" => /\ slot \in 1 .. app_sch_get_schedule_count(type)
                               /\ s \in Accepted(type)
      BY <1>0, <2>2, <2>3 DEF Accepted
    <3> QED BY <1>0, <3>1, <3>2 DEF KnownCommand, SetCommand
  <2> HIDE DEF c
  <2> QED BY <2>1, <2>2, <2>3, ReceiveFile
<1>4. CASE ScheduleGet(type, target, slot)
  <2> DEFINE c == [operation |-> "ScheduleGet", step |-> "read", type |-> type,
                   target |-> target, slot |-> slot]
  <2>1. Receive(c, ValidGet(c))
    BY <1>4 DEF ScheduleGet
  <2>2. ValidGet(c) => validate_target(c.target)
    BY DEF ValidGet
  <2>3. KnownCommand(c)
    BY <1>0 DEF KnownCommand, GetCommand
  <2> HIDE DEF c
  <2> QED BY <2>1, <2>2, <2>3, ReceiveFile
<1> QED BY <1>1, <1>2, <1>3, <1>4

\* A step of a command under way keeps the files sound.
LEMMA UnderWayFile ==
    ASSUME FileInv, ReadSchedule \/ WriteSchedule
    PROVE  FileInv'
<1>1. /\ command # NoCommand /\ UNCHANGED <<table, n_users, pc>>
      /\ KnownCommand(command) /\ pc = "idle" /\ validate_target(command.target)
  BY DEF ReadSchedule, WriteSchedule, userVars, vars, FileInv
<1>3. ASSUME command' = NoCommand \/ (/\ command' = [command EXCEPT !.step = "write"]
                                      /\ ~NeedsNoWrite \/ EraseAllOfType),
             NEW file, SoundFile(file),
             Store(command.target.id, file) \/ UNCHANGED schedule
      PROVE  FileInv'
  <2>1. command' # NoCommand => KnownCommand(command') /\ command'.target = command.target
    BY <1>1, <1>3, NextStep
  <2>2. /\ schedule' = [offset \in Offsets |-> schedule'[offset]]
        /\ \A offset \in Offsets : schedule'[offset] # NoFile => SoundFile(schedule'[offset])
    BY <1>3, StoreSound
  <2>3. command' # NoCommand => validate_target(command.target)'
    BY <1>1, <2>1 DEF validate_target, TableReadable, Exists, Entries
  <2> QED BY <1>1, <2>1, <2>2, <2>3 DEF FileInv
<1>4. CASE ReadSchedule
  <2>1. /\ Store(command.target.id, Zeroed) \/ UNCHANGED schedule
        /\ command' = NoCommand \/ (/\ command' = [command EXCEPT !.step = "write"]
                                    /\ ~NeedsNoWrite \/ EraseAllOfType)
    BY <1>4 DEF ReadSchedule, StoreFails, Succeed, Fail, Finish
  <2> QED BY <1>3, <2>1, ZeroedSound
<1>5. CASE WriteSchedule
  <2>1. /\ Store(command.target.id, Updated) \/ UNCHANGED schedule
        /\ command' = NoCommand /\ command.step = "write"
    BY <1>5 DEF WriteSchedule, StoreFails, Succeed, Fail, Finish
  <2>2. SoundFile(Updated)
    BY <1>1, <2>1, UpdatedSound
  <2> QED BY <1>3, <2>1, <2>2
<1> QED BY <1>4, <1>5

LEMMA FileInvStep ==
    ASSUME FileInv, [NextSchedules]_allVars
    PROVE  FileInv'
<1>1. ASSUME NEW uid, NEW file, SoundFile(file), command' = NoCommand,
             Store(uid, file) \/ UNCHANGED schedule
      PROVE  FileInv'
  BY <1>1, StoreSound DEF FileInv
<1>2. ASSUME NEW target \in Targets,
             \/ \E state \in BOOLEAN : EnableSet(target, state)
             \/ EnableGet(target)
             \/ \E type \in Types :
                  \E slot \in 0 .. app_sch_get_schedule_count(type) + 1 :
                     \/ \E action \in {"erase", "modify", "reserved"}, s \in Inputs(type),
                           metadata_length \in MetadataLengths :
                             ScheduleSet(type, action, target, slot, s, metadata_length)
                     \/ ScheduleGet(type, target, slot)
      PROVE  FileInv'
  <2>1. "year_day" \in Types /\ 0 \in 0 .. app_sch_get_schedule_count("year_day") + 1
    BY PerUserAssumption DEF Types, app_sch_get_schedule_count
  <2>2. CASE (\E state \in BOOLEAN : EnableSet(target, state)) \/ EnableGet(target)
    BY <2>1, <2>2, CommandsFile
  <2>3. CASE \E type \in Types :
               \E slot \in 0 .. app_sch_get_schedule_count(type) + 1 :
                  \/ \E action \in {"erase", "modify", "reserved"}, s \in Inputs(type),
                        metadata_length \in MetadataLengths :
                          ScheduleSet(type, action, target, slot, s, metadata_length)
                  \/ ScheduleGet(type, target, slot)
    BY <2>3, CommandsFile
  <2> QED BY <1>2, <2>2, <2>3
<1>3. CASE ReadSchedule \/ WriteSchedule
  BY <1>3, UnderWayFile
<1>4. ASSUME NEW uid \in UserIds, DeleteUser(uid) PROVE FileInv'
  <2>1. /\ command' = NoCommand
        /\ Store(uid, Zeroed) \/ UNCHANGED schedule
    BY <1>4 DEF DeleteUser, user_changed, StoreFails
  <2> QED BY <1>1, <2>1, ZeroedSound
<1>5. CASE OtherUserOperations \/ LearnModeReset \/ PowerLossAnywhere
  <2>1. command' = NoCommand /\ UNCHANGED schedule
    BY <1>5 DEF OtherUserOperations, LearnModeReset, PowerLossAnywhere
  <2> QED BY <1>1, <2>1, ZeroedSound
<1>6. CASE UNCHANGED allVars
  <2>1. UNCHANGED <<schedule, command, table, n_users, pc>>
    BY <1>6 DEF allVars
  <2> QED
    BY <2>1 DEF FileInv, validate_target, TableReadable, Exists, Entries
<1> QED
  BY <1>2, <1>3, <1>4, <1>5, <1>6, Zenon DEF NextSchedules

\* An accepted schedule has a start and an end, or a time of day and days of the week.
LEMMA AcceptedUsable ==
    ASSUME NEW type \in Types, NEW s \in Accepted(type)
    PROVE  IF type = "year_day" THEN Minutes(s.start) < Minutes(s.stop)
           ELSE s.start_hour * 60 + s.start_minute < 1440 /\ s.weekday_mask < 128
<1>1. s \in Inputs(type) /\ app_sch_validate_schedule_data(type, s)
  BY DEF Accepted
<1>2. CASE type = "year_day"
  <2>1. s.start \in TimeStamp /\ s.stop \in TimeStamp
    BY <1>1, <1>2, InputsAssumption DEF Inputs
  <2>2. /\ is_time_stamp_valid(s.start) /\ is_time_stamp_valid(s.stop)
        /\ StartsBefore(s.start, s.stop)
    BY <1>1, <1>2 DEF app_sch_validate_schedule_data, is_time_fence_valid
  <2> QED BY <1>2, <2>1, <2>2, StartsBeforeIsOrder
<1>3. CASE type = "daily_repeating"
  <2>1. s \in DailyRepeating /\ is_daily_repeating_valid(s)
    BY <1>1, <1>3, InputsAssumption DEF Inputs, app_sch_validate_schedule_data
  <2>2. s.start_hour \in Nat /\ s.start_minute \in Nat /\ s.weekday_mask \in Nat
    BY <2>1 DEF DailyRepeating, uint8_t
  <2>3. s.start_hour <= 23 /\ s.start_minute <= 59 /\ s.weekday_mask <= 127
    BY <2>1 DEF is_daily_repeating_valid
  <2>4. s.start_hour * 60 + s.start_minute < 1440 /\ s.weekday_mask < 128
    BY <2>2, <2>3
  <2> QED BY <1>3, <2>4
<1> QED BY <1>2, <1>3 DEF Types

LEMMA FileInvUsable == FileInv => StoredIsUsable
<1> SUFFICES ASSUME FileInv, NEW offset \in Offsets, schedule[offset] # NoFile,
                    NEW type \in Types, NEW slot \in 1 .. app_sch_get_schedule_count(type),
                    schedule[offset].slots[type][slot].occupied
             PROVE  LET s == schedule[offset].slots[type][slot].schedule
                    IN  IF type = "year_day" THEN Minutes(s.start) < Minutes(s.stop)
                        ELSE s.start_hour * 60 + s.start_minute < 1440 /\ s.weekday_mask < 128
  BY DEF StoredIsUsable
<1>1. \/ schedule[offset].slots[type][slot] = Unoccupied
      \/ \E s \in Accepted(type) : schedule[offset].slots[type][slot] = Occupied(s)
  BY DEF FileInv, SoundFile
<1>2. PICK s \in Accepted(type) : schedule[offset].slots[type][slot] = Occupied(s)
  BY <1>1 DEF Unoccupied
<1>3. schedule[offset].slots[type][slot].schedule = s
  BY <1>2 DEF Occupied
<1> QED BY <1>3, AcceptedUsable

LEMMA FileInvTypes == FileInv => ScheduleTypeOK
<1> SUFFICES ASSUME FileInv PROVE ScheduleTypeOK
  OBVIOUS
<1>1. \A type \in Types : Accepted(type) \subseteq Inputs(type)
  BY DEF Accepted
<1>2. ASSUME NEW offset \in Offsets, schedule[offset] # NoFile
      PROVE  /\ schedule[offset].scheduling_active \in BOOLEAN
             /\ \A type \in Types : \A slot \in 1 .. app_sch_get_schedule_count(type) :
                  schedule[offset].slots[type][slot] \in Slot(type)
  BY <1>1, <1>2 DEF FileInv, SoundFile, Slot
<1> QED BY <1>2 DEF FileInv, ScheduleTypeOK

(***************************************************************************)
(* Whatever fails and whenever the power is lost, the schedule files hold   *)
(* records of the right shape and no command outlives the check of its      *)
(* target.                                                                  *)
(***************************************************************************)
THEOREM ScheduleTypes == SpecSchedules => []ScheduleTypeOK
<1>1. FileInv /\ [NextSchedules]_allVars => FileInv'
  BY FileInvStep
<1> QED BY <1>1, FileInvInit, FileInvTypes, PTL DEF SpecSchedules

(***************************************************************************)
(* Every schedule found in a file can be evaluated: validate_and_set_       *)
(* schedule lets no other data through, whatever writes fail, for every     *)
(* number of slots and every frame.                                         *)
(***************************************************************************)
THEOREM StoredSchedulesUsable == SpecSchedules => []StoredIsUsable
<1>1. FileInv /\ [NextSchedules]_allVars => FileInv'
  BY FileInvStep
<1> QED BY <1>1, FileInvInit, FileInvUsable, PTL DEF SpecSchedules

------------------------------------------------------------------------------
(* Whose file a step changes *)

LEMMA StoreChangesOwn ==
    ASSUME FileInv, NEW owner \in {0} \cup UserIds, NEW file,
           Store(owner, file) \/ UNCHANGED schedule,
           NEW uid \in UserIds, schedule'[uid - 1] # schedule[uid - 1]
    PROVE  owner = uid
<1>1. UserIds \subseteq Nat
  BY TargetsAssumption, BoundsAssumption
<1>2. uid - 1 \in Offsets
  BY TargetsAssumption, BoundsAssumption DEF Offsets
<1>3. uid - 1 = owner - 1
  BY <1>2 DEF Store, FileOf, FileInv
<1> QED BY <1>1, <1>3

LEMMA TargetsTyped ==
    ASSUME NEW c, KnownCommand(c)
    PROVE  c.target.id \in {0} \cup UserIds
<1>1. c.target \in Targets
  BY DEF KnownCommand, EnableCommand, SetCommand, GetCommand
<1> QED BY <1>1 DEF Targets

(***************************************************************************)
(* A schedule file is changed only by a command for its user or by the      *)
(* deletion of that user, although user objects move between users.         *)
(***************************************************************************)
THEOREM OnlyOwnSchedule == SpecSchedules => OwnScheduleOnly
<1>1. FileInv /\ [NextSchedules]_allVars => FileInv'
  BY FileInvStep
<1>2. ASSUME FileInv, [NextSchedules]_allVars,
             NEW uid \in UserIds, schedule'[uid - 1] # schedule[uid - 1]
      PROVE  \/ command # NoCommand /\ command.target.id = uid
             \/ call'.operation = "delete" /\ call'.uid = uid
  <2>1. CASE ReadSchedule \/ WriteSchedule
    <3>1. command # NoCommand /\ command.target.id \in {0} \cup UserIds
      BY <1>2, <2>1, TargetsTyped DEF ReadSchedule, WriteSchedule, FileInv
    <3>2. \E file : Store(command.target.id, file) \/ UNCHANGED schedule
      BY <2>1 DEF ReadSchedule, WriteSchedule, StoreFails
    <3> QED BY <1>2, <3>1, <3>2, StoreChangesOwn
  <2>2. ASSUME NEW owner \in UserIds, DeleteUser(owner)
        PROVE  call'.operation = "delete" /\ call'.uid = uid
    <3>1. /\ Store(owner, Zeroed) \/ UNCHANGED schedule
          /\ pc' = "table"
      BY <1>2, <2>2 DEF DeleteUser, user_changed, StoreFails
    <3>2. call'.operation = "delete" /\ call'.uid = owner
      BY <2>2, <3>1 DEF DeleteUser, delete_user, Return
    <3> QED BY <1>2, <3>1, <3>2, StoreChangesOwn
  <2>3. ASSUME NEW target, NEW state, EnableSet(target, state) \/ EnableGet(target)
        PROVE  FALSE
    BY <1>2, <2>3 DEF EnableSet, EnableGet, Receive
  <2>4. ASSUME NEW type, NEW action, NEW target, NEW slot, NEW s, NEW metadata_length,
               \/ ScheduleSet(type, action, target, slot, s, metadata_length)
               \/ ScheduleGet(type, target, slot)
        PROVE  FALSE
    BY <1>2, <2>4 DEF ScheduleSet, ScheduleGet, Receive
  <2>5. ~(OtherUserOperations \/ LearnModeReset \/ PowerLossAnywhere \/ UNCHANGED allVars)
    BY <1>2 DEF OtherUserOperations, LearnModeReset, PowerLossAnywhere, allVars
  <2> QED BY <1>2, <2>1, <2>2, <2>3, <2>4, <2>5, Zenon DEF NextSchedules
<1>3. FileInv /\ [NextSchedules]_allVars
      => [\A uid \in UserIds :
            schedule'[uid - 1] # schedule[uid - 1]
            => \/ command # NoCommand /\ command.target.id = uid
               \/ call'.operation = "delete" /\ call'.uid = uid]_allVars
  BY <1>2
<1> QED BY <1>1, <1>3, FileInvInit, PTL DEF SpecSchedules, OwnScheduleOnly

==============================================================================
