------------------------------ MODULE Schedules ------------------------------
(***************************************************************************)
(* Active Schedules of users: the command handlers of CC_ActiveSchedule.c,  *)
(* the functions of app_schedules.c they call through the registered stubs, *)
(* the NVM access of database_common.c, and the User database below them.   *)
(*                                                                         *)
(* Each user has one schedule file.  A handler validates the command, reads *)
(* the file into a zeroed local copy, changes the copy and writes it back;  *)
(* commands and database operations run to completion in the application    *)
(* task.  As in UserStore an action ends at each NVM write, which may fail, *)
(* and the power may be lost between two of them.                           *)
(*                                                                         *)
(* Left out: metadata (ignored by the application), the branch that erases  *)
(* the schedules of all users (target 0 never passes validate_target), the  *)
(* transmission of the reports.                                             *)
(***************************************************************************)
EXTENDS UserStore, ScheduleTime

CONSTANTS YearDayPerUser,         \* CC_USER_CREDENTIAL_YEAR_DAY_SCHEDULES_PER_USER
          DailyRepeatingPerUser,  \* CC_USER_CREDENTIAL_DAILY_REPEATING_SCHEDULES_PER_USER
          YearDays, Dailies,      \* the schedules that controllers send, valid or not
          MetadataLengths,        \* the metadata lengths they send
          LearnModeResets         \* whether learn mode completes and resets the database

ASSUME PerUserAssumption == YearDayPerUser \in Nat /\ DailyRepeatingPerUser \in Nat

\* UserSet refuses identifiers above the number of supported users.
ASSUME TargetsAssumption == UserIds \subseteq 1 .. MaxUsers

\* The handlers fill these records with bytes and 16-bit words of a frame.
ASSUME InputsAssumption ==
    /\ YearDays \subseteq [start : TimeStamp, stop : TimeStamp]
    /\ Dailies \subseteq DailyRepeating

VARIABLES schedule,   \* files APP_NVM_FILE_SCHEDULE_DATA_BASE + offset
          command,    \* the Active Schedule command under way
          answer      \* status and report of the last command

userVars == vars
allVars == <<n_users, users_buffer_head, number, table, object, name, pc, call, result,
             schedule, command, answer>>

Types == {"year_day", "daily_repeating"}

app_sch_get_schedule_count(type) ==
    IF type = "daily_repeating" THEN DailyRepeatingPerUser ELSE YearDayPerUser

Inputs(type) == IF type = "daily_repeating" THEN Dailies ELSE YearDays

\* year_day_nvm_t and daily_repeating_nvm_t
Unoccupied == [occupied |-> FALSE]
Occupied(s) == [occupied |-> TRUE, schedule |-> s]

\* schedule_metadata_nvm_t, zeroed: the local copy every function starts with
Zeroed == [scheduling_active |-> FALSE,
           slots |-> [type \in Types |->
                        [slot \in 1 .. app_sch_get_schedule_count(type) |-> Unoccupied]]]

NoFile == [scheduling_active |-> FALSE]
NoCommand == [operation |-> "none"]
NoAnswer == [status |-> "none"]

InitSchedules ==
    /\ Init
    /\ schedule = [offset \in Offsets |-> NoFile]
    /\ command = NoCommand
    /\ answer = NoAnswer

------------------------------------------------------------------------------
(* Validation *)

\* Mutant of FileOf: the schedule file goes with the User object.
FileOf_ObjectOffset(uid) == IF Exists(uid) THEN table[IndexOf(uid)].object_offset ELSE uid - 1

FileOf(uid) == uid - 1

(***************************************************************************)
(* validate_target and app_sch_validate_target: a target of the registered  *)
(* command class, an identifier below the number of users, and a user that  *)
(* u3c_nvm_get_user_offset_from_id finds.                                   *)
(***************************************************************************)
validate_target(target) ==
    /\ target.cc = "user_credential"
    /\ target.id < MaxUsers
    /\ TableReadable
    /\ Exists(target.id)

\* app_sch_validate_schedule_slot: slot 0 passes.
app_sch_validate_schedule_slot(type, slot) == slot <= app_sch_get_schedule_count(type)

\* Mutant of ValidSet: the data of a schedule is not looked at.
ValidSet_NoData(c) ==
    /\ validate_target(c.target)
    /\ app_sch_validate_schedule_slot(c.type, c.slot)

\* validate_and_set_schedule: an erasure's data is not looked at.
ValidSet(c) ==
    /\ validate_target(c.target)
    /\ app_sch_validate_schedule_slot(c.type, c.slot)
    /\ c.action # "erase" => app_sch_validate_schedule_data(c.type, c.schedule)

ValidGet(c) ==
    /\ validate_target(c.target)
    /\ app_sch_validate_schedule_slot(c.type, c.slot)

\* The set actions that app_sch_set_schedule_data has a branch for.
HasEffect(c) == c.action = "erase" \/ (c.action = "modify" /\ c.slot # 0)

------------------------------------------------------------------------------
(* Reports *)

RESPONSE_TO_GET == 0
MODIFY_ZWAVE == 2

(***************************************************************************)
(* The report code a report frame carries: pack_daily_repeating_report_     *)
(* frame stores the metadata length where it has stored the report type.    *)
(***************************************************************************)
ReportCode(type, report_type, metadata_length) ==
    IF type = "daily_repeating" THEN metadata_length % 8 ELSE report_type

Finish(reply) == command' = NoCommand /\ answer' = reply

Fail == Finish([status |-> "FAIL"])

\* Success: a Get is answered with a report, a Set also sends one.
Succeed ==
    Finish([status |-> "SUCCESS", operation |-> command.operation,
            code |-> IF command.operation \in {"EnableGet", "ScheduleGet"}
                     THEN IF command.operation = "EnableGet" THEN RESPONSE_TO_GET
                          ELSE ReportCode(command.type, RESPONSE_TO_GET, 0)
                     ELSE IF command.operation = "EnableSet" THEN MODIFY_ZWAVE
                          ELSE ReportCode(command.type, MODIFY_ZWAVE, command.metadata_length)])

------------------------------------------------------------------------------
(* Commands *)

Ready == pc = "idle" /\ command = NoCommand

\* A command that passes validation goes on to read the file, any other fails.
Receive(c, accepted) ==
    /\ Ready
    /\ UNCHANGED <<userVars, schedule>>
    /\ IF accepted
       THEN command' = c /\ answer' = NoAnswer
       ELSE Fail

EnableSet(target, state) ==
    Receive([operation |-> "EnableSet", step |-> "read", target |-> target, state |-> state],
            validate_target(target))

EnableGet(target) ==
    Receive([operation |-> "EnableGet", step |-> "read", target |-> target],
            validate_target(target))

\* The Year Day and the Daily Repeating Set handlers.
ScheduleSet(type, action, target, slot, s, metadata_length) ==
    LET c == [operation |-> "ScheduleSet", step |-> "read", type |-> type, action |-> action,
              target |-> target, slot |-> slot, schedule |-> s,
              metadata_length |-> metadata_length]
    IN  Receive(c, ValidSet(c) /\ HasEffect(c))

\* The Year Day and the Daily Repeating Get handlers.
ScheduleGet(type, target, slot) ==
    LET c == [operation |-> "ScheduleGet", step |-> "read", type |-> type,
              target |-> target, slot |-> slot]
    IN  Receive(c, ValidGet(c))

(***************************************************************************)
(* app_nvm(U3C_WRITE): zpal_nvm_write does not touch a file that already    *)
(* holds the value, so only a change can fail.                              *)
(***************************************************************************)
Store(uid, value) == schedule' = [schedule EXCEPT ![FileOf(uid)] = value]

StoreFails(uid, value) ==
    WriteFails /\ schedule[FileOf(uid)] # value /\ UNCHANGED schedule

EraseAllOfType ==
    command.operation = "ScheduleSet" /\ command.action = "erase" /\ command.slot = 0

NeedsNoWrite ==
    \/ command.operation \in {"EnableGet", "ScheduleGet"}
    \/ command.operation = "EnableSet" /\ command.state = Zeroed.scheduling_active

(***************************************************************************)
(* app_nvm(U3C_READ) of the handler's zeroed copy.  Both cases of the       *)
(* switch call ZAF_nvm_app_write: the copy stays zeroed and the file        *)
(* becomes so.  Only the erasure of all slots goes on after a failure.      *)
(***************************************************************************)
ReadSchedule ==
    /\ command # NoCommand /\ command.step = "read"
    /\ UNCHANGED userVars
    /\ \/ /\ Store(command.target.id, Zeroed)
          /\ IF NeedsNoWrite THEN Succeed
             ELSE command' = [command EXCEPT !.step = "write"] /\ UNCHANGED answer
       \/ /\ StoreFails(command.target.id, Zeroed)
          /\ IF EraseAllOfType
             THEN command' = [command EXCEPT !.step = "write"] /\ UNCHANGED answer
             ELSE Fail

\* Mutant of Updated: the slot is not marked as occupied.
Updated_NotOccupied ==
    IF command.operation = "EnableSet"
    THEN [Zeroed EXCEPT !.scheduling_active = command.state]
    ELSE IF command.action = "erase" THEN Zeroed
    ELSE [Zeroed EXCEPT !.scheduling_active = TRUE,
                        !.slots[command.type][command.slot] =
                            [occupied |-> FALSE, schedule |-> command.schedule]]

\* The copy as the handler changes it: an erasure finds nothing to erase.
Updated ==
    IF command.operation = "EnableSet"
    THEN [Zeroed EXCEPT !.scheduling_active = command.state]
    ELSE IF command.action = "erase" THEN Zeroed
    ELSE [Zeroed EXCEPT !.scheduling_active = TRUE,
                        !.slots[command.type][command.slot] = Occupied(command.schedule)]

WriteSchedule ==
    /\ command # NoCommand /\ command.step = "write"
    /\ UNCHANGED userVars
    /\ \/ Store(command.target.id, Updated) /\ Succeed
       \/ StoreFails(command.target.id, Updated) /\ Fail

------------------------------------------------------------------------------
(* The User database below *)

\* Mutant of user_changed: the callback waits for another operation.
user_changed_Ignored(uid) == UNCHANGED schedule

(***************************************************************************)
(* user_changed: the file of a deleted user is zeroed by its own "read";    *)
(* nobody looks whether that succeeds.                                      *)
(***************************************************************************)
user_changed(uid) == Store(uid, Zeroed) \/ StoreFails(uid, Zeroed)

\* delete_user calls user_changed before it writes the table.
DeleteUser(uid) ==
    /\ command = NoCommand
    /\ delete_user(uid)
    /\ IF pc' = "table" THEN user_changed(uid) ELSE UNCHANGED schedule
    /\ UNCHANGED <<command, answer>>

OtherUserOperations ==
    /\ command = NoCommand
    /\ \/ \E user \in User : add_user(user) \/ modify_user(Stored(user), user.name)
       \/ \E uid \in UserIds, data \in Data : modify_user_object(uid, data)
       \/ WriteObject \/ WriteName \/ WriteTableAdd \/ WriteTableDelete \/ WriteNumber
       \/ init_database
    /\ UNCHANGED <<schedule, command, answer>>

(***************************************************************************)
(* The network is left or joined: ZAF_Reset resets the User database, no    *)
(* reset function of the Active Schedule command class is registered and    *)
(* app_sch_reset_schedules has no caller.                                   *)
(***************************************************************************)
LearnModeReset ==
    /\ LearnModeResets
    /\ command = NoCommand
    /\ Reset
    /\ UNCHANGED <<schedule, command, answer>>

PowerLossAnywhere ==
    /\ PowerLoss
    /\ command' = NoCommand
    /\ answer' = NoAnswer
    /\ UNCHANGED schedule

Targets == [cc : {"user_credential", "other"}, id : {0} \cup UserIds]

NextSchedules ==
    \/ \E target \in Targets :
         \/ \E state \in BOOLEAN : EnableSet(target, state)
         \/ EnableGet(target)
         \/ \E type \in Types :
              \E slot \in 0 .. app_sch_get_schedule_count(type) + 1 :
                 \/ \E action \in {"erase", "modify", "reserved"}, s \in Inputs(type),
                       metadata_length \in MetadataLengths :
                         ScheduleSet(type, action, target, slot, s, metadata_length)
                 \/ ScheduleGet(type, target, slot)
    \/ ReadSchedule \/ WriteSchedule
    \/ \E uid \in UserIds : DeleteUser(uid)
    \/ OtherUserOperations \/ LearnModeReset \/ PowerLossAnywhere

SpecSchedules == InitSchedules /\ [][NextSchedules]_allVars

------------------------------------------------------------------------------
(* Properties *)

Slot(type) == {Unoccupied} \cup {Occupied(s) : s \in Inputs(type)}

(***************************************************************************)
(* Type correctness, and a little more: a command is under way only while   *)
(* the User database is idle and still has the user it names.               *)
(***************************************************************************)
ScheduleTypeOK ==
    /\ \A offset \in Offsets : schedule[offset] # NoFile =>
         /\ schedule[offset].scheduling_active \in BOOLEAN
         /\ \A type \in Types : \A slot \in 1 .. app_sch_get_schedule_count(type) :
              schedule[offset].slots[type][slot] \in Slot(type)
    /\ command # NoCommand => pc = "idle" /\ validate_target(command.target)

Scheduled(uid) == schedule[uid - 1] \notin {NoFile, Zeroed}

\* The users the database has, or would have after a restart.
HasEntry(t, uid) == \E i \in 1 .. Len(t) : t[i].unique_identifier = uid

Listed(uid) == Count \notin {0, UNSET} /\ HasEntry(table, uid)

(***************************************************************************)
(* "When a user is deleted, the schedules attached to that user also need   *)
(* to be deleted": no schedule outlives its user, so a user added later     *)
(* with the same identifier does not inherit one.                           *)
(***************************************************************************)
NoOrphans == \A uid \in UserIds : Scheduled(uid) => Listed(uid)

(***************************************************************************)
(* What makes NoOrphans inductive: the number in NVM keeps up with n_users, *)
(* a user is deleted from the table only after its schedules, and a command *)
(* under way still has its user.                                            *)
(***************************************************************************)
DeletesUnscheduled ==
    (pc \in {"table", "number"} /\ call.operation = "delete") =>
        /\ ~Scheduled(call.uid)
        /\ pc = "table" => table[call.index].unique_identifier = call.uid

CommandOK ==
    command # NoCommand =>
        /\ pc = "idle" /\ TableReadable
        /\ "target" \in DOMAIN command /\ Exists(command.target.id)

OrphanInv ==
    /\ NoOrphans
    /\ number \in {0, UNSET} => \A uid \in UserIds : ~Scheduled(uid)
    /\ pc \notin {"off", "number"} => number = n_users
    /\ DeletesUnscheduled
    /\ CommandOK
    /\ schedule = [offset \in Offsets |-> schedule[offset]]

(***************************************************************************)
(* Nothing but a command for a user or the deletion of that user changes    *)
(* the user's schedule file: every function addresses the file by the       *)
(* identifier, though objects move between users.                           *)
(***************************************************************************)
OwnScheduleOnly ==
    [][\A uid \in UserIds :
         schedule'[uid - 1] # schedule[uid - 1]
         => \/ command # NoCommand /\ command.target.id = uid
            \/ call'.operation = "delete" /\ call'.uid = uid]_allVars

(***************************************************************************)
(* Whatever fails, a stored Year Day schedule starts before it stops and a  *)
(* stored Daily Repeating one has a time of day: a door lock can evaluate   *)
(* every schedule it finds.                                                 *)
(***************************************************************************)
StoredIsUsable ==
    \A offset \in Offsets : schedule[offset] # NoFile =>
        \A type \in Types : \A slot \in 1 .. app_sch_get_schedule_count(type) :
            LET stored == schedule[offset].slots[type][slot]
            IN  stored.occupied =>
                  IF type = "year_day"
                  THEN Minutes(stored.schedule.start) < Minutes(stored.schedule.stop)
                  ELSE /\ stored.schedule.start_hour * 60 + stored.schedule.start_minute < 1440
                       /\ stored.schedule.weekday_mask < 128

(***************************************************************************)
(* "Gets the schedule data for a given type and slot number": a Get command *)
(* leaves the schedules as they are.                                        *)
(***************************************************************************)
GetKeepsSchedules ==
    [][command.operation \in {"EnableGet", "ScheduleGet"}
       => \A uid \in UserIds : Scheduled(uid) => schedule'[uid - 1] = schedule[uid - 1]]_allVars

==============================================================================
