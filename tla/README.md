# A TLA+ model of the Active Schedule door lock sample

The repository is a Z-Wave door lock key pad (`app/`, `hardware/`) on a vendored SDK
(`tridentiot-sdk/`).  What it adds to the SDK's key pad sample is the Active Schedule
command class: each user of the lock can be given Year Day and Daily Repeating schedules,
which are stored in NVM next to the users and are deleted with them.

These modules model the databases behind that (users, credentials, schedules, the NVM files
below them), credential learning, the bolt and the events that move it, and the engine that
reports changes to the lifeline.  TLC checks small instances, TLAPS proves the main
invariants for every size.

## 1. Inventory

| Component | Code | State | Operations |
|---|---|---|---|
| User database | `UserCredential/src/cc_user_credential_nvm.c` | RAM `n_users`, `users_buffer_head`; files: number of users, descriptor table (sorted by identifier), ring of User objects, names | add, modify, delete, get, get next, factory reset, init |
| Credential database | same file, second half | `n_credentials`, `credentials_buffer_head`, descriptor table, metadata, data, admin code | add, modify, delete, move, get, get next |
| NVM files | `zpal_nvm_flashdb.c`, `ZAF_nvm*.c` | key-value store | read (length-checked), write (skipped when equal), erase |
| User Credential operations | `cc_user_credential_{operations,validation,handlers_*,tx}.c` | none but the databases | User/Credential Set and Get, association, reports, notifications |
| Credential Learn | `cc_user_credential_learn.c` | one session, its timer | start, step, read done, retry, cancel, timeout |
| Active Schedule command class | `ActiveSchedule/src/CC_ActiveSchedule.c` | registered stubs, static report buffers | Capabilities, Enable, Year Day, Daily Repeating Set/Get |
| Active Schedule store | `app/database/schedules/`, `database_common.c` | one schedule file per user | the stubs; `user_changed` |
| True Status Engine | `ZAF_TSE.c` | three pending triggers, the current one, a timer | trigger, timer, transmission callback |
| Transport queue | `zaf_transport_tx.c` | queue of frames, busy and paused flags, the frame in the air | send, callback, pause, resume |
| Access path | `CC_UserCredential.c` 518-579, `app_credentials.c`, `CC_DoorLock.c`, `hardware/` | bolt, latch, handle configuration, their stored copy, receive options | validate, toggle, operation set, configuration set, handle |
| User Code | `UserCode/`, `cc_user_code_database_user_credential.c` | none but the databases | User Code Set |
| Event distributor, queues, timers | ZAF and `Components/` | a two-place queue of command class events, a five-place queue of application events, timer table | distribute, enqueue, expire |
| Network reset | `zaf_event_distributor_soc.c`, `zaf_nvm_soc.c` | - | default configuration after learn mode, full reset |

How they interact.  Frames and events are handled one after the other in the application
task, so two handlers never interleave.  The Active Schedule command class calls the
application through registered stubs; these look the user up in the User database and
then access the schedule file `user identifier - 1`.  In the other direction
`CC_UserCredential_delete_user` calls `user_changed`, which deletes the schedules, before
it writes its own table.  Reports go out directly and, for the lifeline, later through the
True Status Engine, which keeps a pointer to a static buffer.  The keypad, the bolt and
Credential Learn talk to each other through the queue of command class events; the task
serves pending notifications in the fixed order of its handler table (timer, frame,
protocol status, application events, command class events).

What is hard here, and what makes each part correct:

* **Operations of several NVM writes.**  A power loss or a failing write between two of
  them leaves files that disagree.  Wanted: the table is always sorted and duplicate free,
  each entry has its own object, an operation on one user never changes another one, the
  table can be read after a restart.
* **The ring of objects.**  Deletions leave stale objects and a head anywhere.  Wanted: the
  search finds the free object there is, and never takes one in use.
* **Two databases that must agree.**  Wanted: no schedule without its user, whichever step
  is the last one before a crash; a schedule file only changes for its own user.
* **Time data at its limits.**  Wanted: the accepted time stamps are those of the calendar,
  the accepted fences the chronological ones.
* **Ownership of credentials.**  Wanted: a credential always has an existing owner and its
  own data, and no two users have the same code.
* **Delayed reports.**  A report is sent 250 ms after its trigger, one node after the other,
  through a queue that can be full, busy or paused.  Wanted: every node that is owed a
  report gets one that says what the lock is then in.
* **The bolt and its stored copy.**  The copy follows through a queued event.  Wanted: they
  agree, or the event is on its way.
* **Learn sessions.**  Cancels, timeouts, deliveries and database commands race.  Wanted:
  each session ends, once, and a delivery harms no other credential.

`PROJECT.json` lists these as hazards, each at its line, with the properties that catch it.

## 2. Modules

| Module | Models | State and actions |
|---|---|---|
| `ZpalNvm` | `zpal_nvm_read`, `zpal_nvm_write` | operators on a file as a sequence of table entries |
| `UserStore` | the User database | `n_users`, `users_buffer_head` (RAM), `number`, `table`, `object`, `name` (files), `pc`, `call`, `result` |
| `UserDirectory` | what the User database promises | a bounded dictionary |
| `ScheduleTime` | time validation of `app_schedules.c` | pure operators |
| `ScheduleTimeCheck` | checks of `ScheduleTime` against a calendar | one state per case |
| `Schedules` | Active Schedule handlers and store, composed with `UserStore` | `schedule` (files), `command`, `answer` |
| `CredentialStore` | the Credential database and the commands that change it | `n_credentials`, head, table, metadata and data objects, number, admin code, `users`; one action per operation and per NVM write |
| `TrueStatus` | True Status Engine on the transport queue | queue, `busy`, `paused`, `air`, trigger array, `current`, `timer`, call stack `task` |
| `DoorLock` | Door Lock command class, bolt, keypad, event queue; extends `TrueStatus` | `status`, `saved`, `ccQueue`, `rxOption` |
| `CredentialLearn` | learn sessions in the application task | `cl_state`, `timer`, `ccQueue`, `appQueue`, `round`, `users`, `credentials` |
| `TableLemmas` | - | lemmas about tables, file writes and queues |
| `ScheduleTimeLemmas` | - | types of schedule data, and that validation lets only usable data through |
| `UserStoreProofs`, `ScheduleTimeProofs`, `SchedulesProofs`, `CredentialStoreProofs`, `CredentialLearnProofs`, `DoorLockProofs` | theorems | |
| `MCUserStore`, `MCScheduleTime`, `MCSchedules`, `MCCredentialStore`, `MCDoorLock`, `MCCredentialLearn` | instances for TLC | |

**UserStore.**  `add_user`, `modify_user`, `delete_user` are the C functions up to their
first NVM write: guards and early returns as in the code.  Each write that follows is an
action, named by what it writes (`WriteObject`, `WriteName`, `WriteTableAdd`,
`WriteTableDelete`, `WriteNumber`), with a branch for its failure when `"io"` is in
`Faults`.  `call` holds the locals between them.  `PowerLoss` (when `"power"` is in
`Faults`) can come before every step and keeps only the files; `init_database` is the
restart.  `modify_user_object` is the caller in the User Code database that passes no
name.  `Candidate`, `Owned`, `MeetsUser` are the search for an object: at each attempt the
loop looks at one object and walks the table until it meets the user or the object's
owner.  Names are model values with a length, since a name is read back with the length
the object says.  `u3c_user_t`'s other fields are one value, `data`.  When the number of
*credentials* is absent `init_database` resets the users too; its file is not part of this
model, so `init_database` may reset whenever writes can fail.

**Schedules.**  A command is validated (`validate_target`, slot, data), then read, then
written.  `ReadSchedule` is `app_nvm(U3C_READ, ...)`, which calls `ZAF_nvm_app_write` in
this code (section 4): the local copy stays zeroed and the file becomes so.  `DeleteUser`
is `delete_user` together with its callback `user_changed`.  The other database operations
are those of `UserStore`.  `LearnModeReset` is the reset at the end of learn mode
(`LearnModeResets` says whether it happens).  A schedule slot is `Unoccupied` or
`Occupied(s)`; of a report only the report code is kept.

**CredentialStore.**  Built like `UserStore`: each operation up to its first write, then one
action per write, `MaxFaults` failing writes or power losses.  The table is on `ZpalNvm` with
`ChunkEntries` entries per 64 byte compare buffer.  Credential Set, User Set (delete),
Association Set, Admin Code Set and User Code Set come with the validation of
`cc_user_credential_validation.c`; bulk deletions are the loops of the code, a step per
credential.  Existence of users is a set: the operations on their own objects are
`UserStore`'s.

**TrueStatus** and **DoorLock.**  `task` is the call stack of the application task: a callback
that sends the next report, which may fail at once and call back again, is a chain of steps
during which no other handler runs.  A report is built when its frame is queued; `status` is
what it would say now.  `owed` and `skipped` are history variables: which nodes still wait
for a report of the current state, and which ones the walk took for the source of the
change.  `refused` and `excuse` record when a full queue or trigger array turned something
away, so that the properties can name these cases instead of leaving them out.  Whether an
entered code is valid is a free choice (`CredentialStore` decides it).

**CredentialLearn.**  `round` holds the handlers the event distributor still calls in this
round, in table order; the two queue handlers go on until their queue is empty.  The users
and credentials are those `CredentialStore` implements, with each operation as one step.
The reader that delivers data is not part of the repository: `Deliver`, `ReaderNotices` and
`StartRequest` raise the events its header describes.  `ended` and `lost` are history.

**Modelling assumptions.**  Handlers run to completion in one task.  FlashDB replaces a
value atomically (external).  A write that finds the value already stored does nothing and
cannot fail.  User identifiers are at most `MaxUsers`, as User Set checks, in `Schedules`.
Frames carry receive options, so replies are always sent.

## 3. Runs that pass

| Run | Checks | Instance |
|---|---|---|
| `users_faults` | `TypeOK`, `TableSound`, `NoImpossiblePath` | 3 places, 4 identifiers, both faults; 1.15 million states |
| `users_power` | `OwnObjects`, `OthersUntouched`, `ImplementsDirectory` (refinement), `WalkInOrder` | 2 places, 3 identifiers, 2 data values, names of two lengths, power losses; 306 thousand states |
| `time_fence` | `FenceIsChronological` | all pairs of 450 time stamps |
| `schedules_power` | `NoOrphans`, `OwnScheduleOnly` | 3 places, users 1 and 2, 1 Year Day and 2 Daily Repeating slots, power losses |
| `schedules_faults` | `ScheduleTypeOK`, `StoredIsUsable` | 2 places, both faults, learn-mode resets |
| `credentials_faults` | `CredentialTypeOK`, `DescriptorsSound`, `CredentialsIntact`, `NoOrphanCredentials`, `UniqueCodes` (up to one fault), `KeepsOthers`, `SuccessMeansStored` | 2 users, 2 PIN slots, 1 password slot, 2 places, one fault anywhere; 1.28 million states |
| `lock_reports` | `LockTypeOK`, `OneWalk`, `QueueServed`, `SavedOrPending`, `OwedGetsReport` (liveness) | 2 lifeline nodes, 2 triggers, queues of 2, 3 commands; 180 thousand states |
| `learn_sessions` | `LearnTypeOK`, `EndsOnce`, `TimerOfSession`, `NeverStranded`, `DeliveryKeepsOwners`, `SessionEnds` (liveness) | 1 controller, 2 users, 2 slots, 2 codes, the code's queue sizes, 4 commands; 486 thousand states |

Why these bounds are enough to be of use: one identifier more than places makes the
database full and refuse; three places let the ring wrap with a used object on either side
of a free one; two data values and two name lengths let an update be torn.  Schedule inputs
hold a valid and an invalid value of each type, slots 0 and one above the limit, targets of
another command class and target 0.  The time stamps take each field at, below and above
its limits, with a leap year, a common year and 2100.  Three slots for two credential places
make that store full; two types let a walk pass from one to the next.  With two triggers and
queues of two, three commands fill each of them, overlap two walks and let a command
arrive in every phase of a walk.  Four commands are enough to start a session, let it time
out or change its target, start another one and deliver to it.  `MaxCommands` bounds what
comes from outside and `MaxFaults` the failures of `credentials_faults`; the other state
spaces are finite without a bound.

Fairness is used where a property says that something eventually happens.  `lock_reports`
and `lock_informs`: a step inside a handler of the application task is taken, and the handler
of a pending event is called (one task, which sleeps only when nothing is pending); a started
timer expires; the protocol answers a frame it took (external); a paused queue is resumed
(`ota_util.c:1164` starts the timer that does it).  `learn_sessions`: the task goes on, and a
started timer expires.  Nothing is assumed of controllers, of the reader or of the user.  The
deadlock check is off in the runs of `DoorLock` and `CredentialLearn`: once `MaxCommands` is
used up nothing more happens.  It is on in all others.

`ImplementsDirectory` is `UserDirectory`'s specification with the
directory computed as `get_user` would answer, now or after a restart.  A modification
counts from the write of its object on.  A power loss in the middle of an operation either
changes the one user it is about or, when it leaves the table unreadable, empties the
dictionary; it never changes some of the other users.

What the last three show, with the cases they except.  A move or a failing write never
separates a credential from its data, and SUCCESS means stored.  Every walk of the True
Status Engine carries one token, and it is lost only when the transport queue refuses a
report: no lifeline report is sent afterwards until a restart.  A bolt that moved is stored unless
the two-place event queue lost the done event, or `reset` has just stored the wrong
condition.  A learn session ends unless a full queue refused one of the two events that lead
to the start of its timer; all later sessions are then refused until a restart or a local
cancel.

## 4. Runs that show a disagreement

Each of these checks one statement of the repository and TLC finds a counterexample.

| Run | Statement | What the code does |
|---|---|---|
| `schedules_read` | "Gets the schedule data" (`app_schedules.c:367`) | `app_nvm` writes on a read: a Get erases |
| `credentials_shrink` | writes data "if it is different from what is already stored" (`zpal_nvm_flashdb.c:266`) | a value above 64 bytes is compared over its own length only, so a table that lost its last entry is not written and cannot be read any more |
| `lock_informs` | "informs Lifeline destinations about new status" (`CC_DoorLock.c:499`) | two reports share one set of receive options: a node that sends a Configuration Set in time is never told that the bolt moved |
| `learn_orphan` | "Associated UUID must reference existing User" (`cc_user_credential_validation.c:175`) | checked at the start of a session only; a delivery is stored for a user deleted meanwhile |

Met in the code while modelling, without a run of their own.

Users and schedules:
* a power loss between table and number makes every later read of the table fail
  (`cc_user_credential_nvm.c:611`, against `cc_user_credential_nvm.h:56`);
* `add_user` compares "the stored one" (line 578) with the object at the ring's head
  (line 579); `add_credential` does the same;
* the leap year condition is inverted (`app_schedules.c:621`, against line 620);
* the last user cannot be given schedules: `>=` (`app_schedules.c:213`, against
  `test_plan.md:14`);
* the report code is overwritten by the metadata length (`CC_ActiveSchedule.c:449`, against
  line 412);
* schedules survive the reset of the users by learn mode
  (`zaf_event_distributor_soc.c:196`, against `app_schedules.c:674`);
* schedules without a weekday or a duration are accepted (`app_schedules.c:277`, against
  `test_plan.md:50`); a user converted to an Expiring User keeps its schedules
  (`app_schedules.c:684`, against `test_plan.md:63`);
* `user_changed` ignores a failed access to the schedule file (`app_schedules.c:686`) and
  `CC_UserCredential_factory_reset` a failed write of the number of users
  (`cc_user_credential_nvm.c:444`), after which a restart brings the old table back with
  objects that belong to others by then.

Credentials:
* a failed deletion in a bulk loop leaves the credential behind while DELETED is reported;
  the write of the metadata in `move_credential` is unchecked;
* the default PIN is added without validation and may equal the admin code (against
  `cc_user_credential_validation.c:89-90`); an Admin Code Set shorter than four digits is
  not refused by the validation; User Code Set adds its user even if the code is refused.

Bolt and reports:
* `reset` of the Door Lock class opens the bolt and stores the condition of a locked one
  (`CC_DoorLock.c:457`);
* the keypad moves the bolt before the code is validated, and a valid code then toggles it
  back (`DoorLockKeyPad_hw.c:156-160`);
* a change by a multicast frame is reported to nobody; repeated triggers within 250 ms
  postpone the report each time.

Learn sessions:
* an ADD session may be opened for a slot that another user occupies;
* a late READ_DONE is stored under the next session; a late STEP_START starts a timer of
  0 s without a session; a late START without a session queues a local cancel that can end
  a session started meanwhile;
* the reset of the User Credential class does not end a session;
* `app/README.md:113-114` describes keys that start a session and enter its data, but nothing
  in the application raises the two events.

## 5. Proofs

All theorems hold for every size, set of identifiers, contents, names, codes and compare
buffer, for any number of nodes, triggers and commands, and for any queue sizes that the
named assumptions allow.  Every safety property of the passing runs is stated by a theorem.

**`UserStoreProofs`.**

* The inductive invariant is `TableInv`: `TypeOK`, `TableSound` and `CallOK`.  `TableSound` is
  not inductive alone: that `WriteTableAdd` inserts an absent user with a free object was found
  out three writes earlier, which is what `CallOK` remembers.  One lemma per action;
  `InsertSound` and `RemoveSound` say that the two table updates preserve order and
  distinctness.  From it `TypeCorrect`, `TableStaysSound` and `SearchEnds`: there are more
  objects than entries, so by the pigeonhole principle one is free, and `Candidate` reaches
  each object within `max_users` attempts.  `WalkStaysInOrder` follows from the same invariant
  alone: entry `j + 1` of an ordered table is the least one behind entry `j`.
* `ObjectsStayOwn` needs `OwnInv` (NVM keeps up with RAM between operations) and the
  assumption that failing writes and power losses do not both occur.  It is necessary: the
  unreported failure in `factory_reset` of section 4.
* `OtherUsersUntouched` and the refinement `DatabaseImplementsDirectory` need in addition
  `LastWriteInv`: between the writes of the table and of the number the two files may disagree,
  and when the old number fits the table after all, only the operation's own user shows up or
  disappears.  `StepKeeps` says, action by action, that every other user keeps its entry and
  its files.  The refinement then has three parts: a view is a user or none (`ViewType`), a
  step that changes one view is one of the dictionary's (`OneUserStep`, where the room for an
  added user comes from the length of the new table), and a step after which nothing is listed
  empties it.  They assume `OneKindOfFault`: writes fail, or the power is lost while every
  table fits the compare buffer.  The second half is necessary too: a longer table that lost
  its last entry is not written, so a power loss before the write of the number makes the
  table readable again for users whom the deletion had hidden.  This application has 5 users
  for 16 descriptors (`app/CMakeLists.txt:51`); the SDK's default is 20.

**`ScheduleTimeProofs`.**  `FenceChronological` for all time stamps.  Valid fields are the
digits of a mixed-radix number; `DigitsDecide` is the comparison at one digit.

**`SchedulesProofs`.**

* `SchedulesUseUserStore` shows that every step of the composition is a step of `UserStore` or
  leaves it alone, which carries `TableInv` over.
* `NoScheduleOutlivesItsUser` from `OrphanInv`: the number in NVM follows `n_users`, a user
  leaves the table only after its schedules are gone, a command under way still has its user.
  Assumed: writes succeed and no learn-mode reset; the ignored failure in `user_changed` and
  the surviving files of section 4 show that neither can be dropped.
* `ScheduleTypes`, `StoredSchedulesUsable` and `OnlyOwnSchedule` from `FileInv`, with no
  assumption about faults: the data of a command under way have passed validation, its target
  is a user, and only such data get into a file.  `ScheduleTimeLemmas` says what validation
  lets through.  `InputsAssumption` says what frames can contain.

**`CredentialStoreProofs`**, all for any number of faults but the last.

* `CoreInv` is inductive: types, an ordered table whose objects are distinct and have metadata,
  and, per operation, what it found in the table and has written already (`CallOK`, `LoopOK`).
  It gives `CredentialTypes` and `TableSound`.
* `NumberInv` (NVM's number follows RAM's) gives the entries that can be read now or after a
  restart, `Remaining`.  `OwnersInv` says of these that their users exist, and of a bulk
  deletion that all credentials of its user are still targets: `NoCredentialWithoutUser`.
  `IntactInv` says of them that they have their contents unless they are torn:
  `CredentialsStayIntact`.
* `ReportedIsStored` needs only that no operation is under way between operations (`IdleInv`),
  `OthersStay` also what the deletion of the last credential leaves behind (`LastInv`).
* `CodesStayUnique` from `UniqueInv`: the codes that count differ from each other, from the
  admin code and from the code about to be written.  It covers the states with at most one
  fault.  The proof attempt showed why: a fault can leave a credential whose new length hides
  its old data; others may take that code; a second fault, half-way through rewriting the
  first credential, makes its old data readable again.  `UniqueCodes` says so.

**`CredentialLearnProofs`.**  The invariant `LearnInv` is `Shapes` (types, and that a session in
progress has a target), `EndsOnce`, `TimerOfSession` and `NeverStranded`.  `StepEffect` says
what any step can do to a session: leave it alone (`Keeps`), open it (`Opens`) or end it
(`Closes`); the invariant follows from these three alone.  `DeliveriesKeepOwners` needs in
addition that no other handler writes the database while a delivery is at the head of the
queue (`OnlyDeliveryWrites`).  `LearnTypes` needs a count, `Accounts`: the sessions opened so
far and the requests still queued are together at most the commands from outside.

**`DoorLockProofs`.**

* `BoltIsSaved` from `BoltInv`, again by the three effects a step can have on the bolt.
* `QueueIsServed` needs `TransportInv`: a busy transport has a frame in the air or a call on the
  stack that will look at the queue again, the event loop is only at the bottom of the stack,
  and receive options that ask for a status update name a node.  It needs no assumption on how
  deeply callbacks nest.
* `OneWalkAtATime` needs how deeply they do: `ControlInv` lists the call stacks there are and
  ties them to `busy` and `air`.  `WalkInv` is the argument about one token.  A walk goes on by
  its timer, by its report in the queue, by its report in the air or by a call on the stack
  that sends the next one; at most one of these exists, and one always exists until the queue
  refuses a report.  Reports in the queue are counted (`Occurrences` in `TableLemmas`).
* `LockTypes` from `WalkInv` and `QueueInv` (no queue outgrows its size).

Only model-checked: the liveness properties `OwedGetsReport` and `SessionEnds`, since liveness
under fairness and ENABLED are out of the prover's reach; and the disagreements of section 4,
which are counterexamples.

## 6. Not modelled, and the plan

What could be proved next: that the composition of `Schedules` implements a store of schedules
per user; that the one-step database of `CredentialLearn` is an abstraction of
`CredentialStore`.

What could be modelled next: the static report frames of Active Schedule on `TrueStatus`; the
reports and notifications that follow a User Credential command, and the key locker; the
Supervision session that suppresses repeated commands; the full reset of the file system.
That schedules are not consulted when a credential is validated needs no model: no code
reads them there.

Left out for good: the Z-Wave protocol, radio, crypto, RTOS, drivers and FlashDB
(third-party or pre-built), the SDK's other sample applications and command classes, the
packing of report fields no property is about, metadata of schedules (ignored by the
application), the branch that erases the schedules of all users (target 0 is refused
before), checksums and constant capability reports, logging.  The modules cover the code
that this application runs on top of the SDK; most of the repository's lines are the SDK
itself.
