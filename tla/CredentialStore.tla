--------------------------- MODULE CredentialStore ---------------------------
(***************************************************************************)
(* The Credential half of the User Credential database                     *)
(* (cc_user_credential_nvm.c) with the operations above it: Credential     *)
(* Set, User Set (delete), User Credential Association Set, Admin Code     *)
(* Set, User Code Set, and the default user of the application.            *)
(*                                                                         *)
(* A descriptor table, ordered by type and slot, says which object holds   *)
(* the metadata and the data of a credential; n_credentials and            *)
(* credentials_buffer_head are in RAM.  As in UserStore one operation is   *)
(* under way at a time, an action is one NVM write, every write can fail   *)
(* and the power can be lost between two.  The users are the set that      *)
(* UserStore implements; their own writes are not split up here.           *)
(***************************************************************************)
EXTENDS Naturals, FiniteSets, ZpalNvm

CONSTANTS Users,         \* User Unique Identifiers
          PinSlots,      \* slots of the PIN type: the keys 1 .. PinSlots
          PasswordSlots, \* slots of a later type: the keys above
          Codes,         \* credential data that pass the rules of their type
          CodeLength,    \* code |-> its length in bytes
          DefaultCode,   \* the PIN of the application's default user
          Capacity,      \* max_credentials
          ChunkEntries,  \* descriptors that fit the compare buffer
          MaxFaults      \* bound on failed writes and power losses

NoCode == "no code"

ASSUME CredentialAssumption ==
  /\ Users \subseteq Nat \ {0} /\ IsFiniteSet(Users)
  /\ PinSlots \in Nat \ {0} /\ PasswordSlots \in Nat
  /\ 1 .. PinSlots \subseteq Users   \* CC_UserCode: a PIN slot is also a user's identifier
  /\ CodeLength \in [Codes -> Nat \ {0}]
  /\ DefaultCode \in Codes /\ NoCode \notin Codes
  /\ Capacity \in Nat \ {0} /\ ChunkEntries \in Nat \ {0}
  /\ MaxFaults \in Nat

VARIABLES n_credentials,            \* RAM
          credentials_buffer_head,  \* RAM
          number,    \* file NUMBER_OF_CREDENTIALS
          table,     \* file CREDENTIAL_DESCRIPTOR_TABLE
          metadata,  \* files CREDENTIAL_METADATA_BASE + offset
          data,      \* files CREDENTIAL_DATA_BASE + offset
          admin,     \* file ADMIN_PIN_CODE
          users,     \* the users that exist
          pc,        \* the next write of the operation under way
          call,      \* its arguments and locals
          loop,      \* the bulk deletion it belongs to
          result,    \* how the last operation returned
          faults,    \* failed writes and power losses so far
          torn,      \* history: <<object, what>>: one of the two writes of what is missing
          spoiled    \* history: which writes failed or were cut that the code cannot repair

files == <<number, table, metadata, data, admin>>
ram == <<n_credentials, credentials_buffer_head>>
history == <<faults, torn, spoiled>>
vars == <<ram, files, users, pc, call, loop, result, history>>

\* A key stands for a type and a slot, in the order of the table.
Keys == 1 .. PinSlots + PasswordSlots
Types == {"PIN", "PASSWORD"}
Type(key) == IF key <= PinSlots THEN "PIN" ELSE "PASSWORD"

Offsets == 0 .. Capacity - 1

\* credential_descriptor_t
Descriptors == [key : Keys, user : Users, object : Offsets]

\* credential_metadata_nvm_t without the modifier
NoMetadata == [user |-> 0, length |-> 0]

NoCall == [operation |-> "none", key |-> 0]
NoLoop == [users |-> <<>>, target |-> 0]

CredentialTypeOK ==
  /\ n_credentials \in 0 .. Capacity /\ number \in 0 .. Capacity
  /\ credentials_buffer_head \in Offsets
  /\ table \in Seq(Descriptors) /\ Len(table) <= Capacity
  /\ metadata \in [Offsets -> [user : Users, length : Nat \ {0}] \cup {NoMetadata}]
  /\ data \in [Offsets -> Codes \cup {NoCode}]
  /\ admin \in Codes \cup {NoCode}
  /\ users \subseteq Users
  /\ pc \in {"idle", "metadata", "data", "table", "number", "loop", "add default",
             "reset users", "reset number", "reset admin"}
  /\ loop.target \in Keys \cup {0} /\ loop.users \in Seq(Users)
  /\ result \in {"none", "SUCCESS"}
  /\ faults \in 0 .. MaxFaults
  /\ torn \subseteq Offsets \X {"user", "data"}
  /\ spoiled \subseteq {"number", "delete", "reset"}

\* After init_database has found no number of credentials and reset the database.
Init ==
  /\ n_credentials = 0 /\ credentials_buffer_head = 0
  /\ number = 0 /\ table = <<>> /\ admin = NoCode
  /\ metadata = [o \in Offsets |-> NoMetadata]
  /\ data = [o \in Offsets |-> NoCode]
  /\ users = {}
  /\ pc = "idle" /\ call = NoCall /\ loop = NoLoop /\ result = "none"
  /\ faults = 0 /\ torn = {} /\ spoiled = {}

-------------------------------------------------------------------------------
(* Reading *)

\* The table is read with n_credentials entries; a read of nothing succeeds.
TableReadable == n_credentials = 0 \/ ReadSucceeds(table, n_credentials)

\* The entries an operation sees.
Entries == IF TableReadable THEN {table[i] : i \in 1 .. n_credentials} ELSE {}
Stored(key) == \E e \in Entries : e.key = key
Entry(key) == CHOOSE e \in Entries : e.key = key

\* CC_UserCredential_get_credential: the data of a stored credential, NoCode when it cannot be
\* read with the length that its metadata gives.
get_credential(key) ==
  LET o == Entry(key).object
  IN IF Stored(key) /\ data[o] # NoCode /\ CodeLength[data[o]] = metadata[o].length
     THEN data[o] ELSE NoCode

First(S) == IF S = {} THEN 0 ELSE CHOOSE k \in S : \A j \in S : k <= j

\* CC_UserCredential_get_next_credential for a user; key 0 asks for the first of the type.
get_next_credential(user, type, key) ==
  First({e.key : e \in {e \in Entries : /\ e.user = user
                                        /\ IF key = 0 THEN type \in {"any", Type(e.key)}
                                           ELSE e.key > key}})

\* find_existing_credential walks the credentials of each user; the key of the first match.
find_existing_credential(existing, type, code) ==
  LET matches(u) == {e.key : e \in {e \in Entries : /\ e.user = u /\ Type(e.key) = type
                                                    /\ get_credential(e.key) = code}}
      owners == {u \in existing : matches(u) # {}}
  IN IF owners = {} THEN 0 ELSE First(matches(First(owners)))

\* Mutant of validate_new_credential_data: the data is not looked for in the database.
validate_new_credential_data_NoSearch(existing, key, code) ==
  Type(key) = "PIN" => code # admin

\* validate_new_credential_data, for data that follow the rules of their type.
validate_new_credential_data(existing, key, code) ==
  /\ Type(key) = "PIN" => code # admin
  /\ find_existing_credential(existing, Type(key), code) \in {0, key}

-------------------------------------------------------------------------------
(* The operations up to their first write *)

\* A write fails, or the power.
Fault == faults < MaxFaults /\ faults' = faults + 1
NoFault == UNCHANGED faults

\* The operation returns to the bulk deletion or to the event loop.
Return(code) ==
  /\ pc' = IF loop = NoLoop THEN "idle" ELSE "loop"
  /\ call' = NoCall
  /\ result' = code

Begin(at, arguments) == pc' = at /\ call' = arguments /\ result' = "none"

\* Mutant of Candidate: the head does not wrap.
Candidate_NoWrap(i) == credentials_buffer_head + i

\* Mutant of Owned: the scan misses the last descriptor.
Owned_SkipLast(o) == \E i \in 1 .. n_credentials - 1 : table[i].object = o

\* The search for an object, attempt by attempt from the head: it ends at an object without
\* owner, or when the key is met before the owner.
Candidate(i) == (credentials_buffer_head + i) % Capacity
Owned(o) == \E e \in Entries : e.object = o
MeetsKey(key, o) ==
  \E i \in 1 .. n_credentials :
    table[i].key = key /\ \A j \in 1 .. i - 1 : table[j].object # o
EndsSearch(key, i) == MeetsKey(key, Candidate(i)) \/ ~Owned(Candidate(i))
FirstAttempt(key, i) == EndsSearch(key, i) /\ \A j \in 0 .. i - 1 : ~EndsSearch(key, j)

add_credential(user, key, code) ==
  \/ /\ n_credentials >= Capacity /\ Return("none") /\ UNCHANGED ram
  \/ /\ n_credentials < Capacity /\ ~TableReadable /\ Return("none") /\ UNCHANGED ram
  \/ /\ n_credentials < Capacity /\ TableReadable
     /\ \E i \in Offsets :
          /\ FirstAttempt(key, i)
          /\ credentials_buffer_head' = Candidate(i)
          /\ IF MeetsKey(key, Candidate(i)) THEN Return("none")
             ELSE Begin("metadata", [operation |-> "add", key |-> key, user |-> user,
                                     code |-> code, object |-> Candidate(i)])
     /\ UNCHANGED n_credentials

\* The checks of modify_credential: the owner, and is_credential_identical with the object.
Modifiable(user, key, code) ==
  /\ Stored(key) /\ Entry(key).user = user
  /\ get_credential(key) # code \/ metadata[Entry(key).object].user # user

modify_credential(user, key, code) ==
  /\ UNCHANGED ram
  /\ \/ ~TableReadable /\ Return("none")
     \/ TableReadable /\ ~Modifiable(user, key, code) /\ Return("none")
     \/ /\ Modifiable(user, key, code)
        /\ Begin("metadata", [operation |-> "modify", key |-> key, user |-> user,
                              code |-> code, object |-> Entry(key).object])

\* Mutant of move_credential: the metadata keeps the old user.
move_credential_TableOnly(key, user) ==
  /\ UNCHANGED ram
  /\ \/ ~TableReadable /\ Return("none")
     \/ TableReadable /\ ~Stored(key) /\ Return("none")
     \/ /\ Stored(key)
        /\ Begin("table", [operation |-> "move", key |-> key, user |-> user,
                           object |-> Entry(key).object])

\* move_credential to the same slot of another user; the metadata is left alone when the
\* credential already is that user's.
move_credential(key, user) ==
  /\ UNCHANGED ram
  /\ \/ ~TableReadable /\ Return("none")
     \/ TableReadable /\ ~Stored(key) /\ Return("none")
     \/ /\ Stored(key)
        /\ Begin(IF Entry(key).user = user THEN "table" ELSE "metadata",
                 [operation |-> "move", key |-> key, user |-> user,
                  object |-> Entry(key).object])

delete_credential(key) ==
  /\ UNCHANGED ram
  /\ \/ ~TableReadable /\ Return("none")
     \/ TableReadable /\ ~Stored(key) /\ Return("none")
     \/ Stored(key) /\ Begin("table", [operation |-> "delete", key |-> key])

-------------------------------------------------------------------------------
(* The writes *)

\* add, modify and move write the metadata; only add gives up when that fails.
WriteMetadata ==
  LET o == call.object IN
  /\ pc = "metadata"
  /\ UNCHANGED <<ram, number, table, data, admin, users, loop, spoiled>>
  /\ \E ok \in BOOLEAN :
       /\ IF ok THEN NoFault ELSE Fault
       /\ metadata' = IF ~ok THEN metadata
                      ELSE IF call.operation = "move" THEN [metadata EXCEPT ![o].user = call.user]
                      ELSE [metadata EXCEPT ![o] = [user |-> call.user,
                                                    length |-> CodeLength[call.code]]]
       /\ torn' = torn \cup {<<o, IF call.operation = "move" THEN "user" ELSE "data">>}
       /\ IF call.operation = "add" /\ ~ok THEN Return("none")
          ELSE /\ pc' = IF call.operation = "move" THEN "table" ELSE "data"
               /\ call' = [f \in DOMAIN call \cup {"ok"} |-> IF f = "ok" THEN ok ELSE call[f]]
               /\ UNCHANGED result

\* add and modify write the data.
WriteData ==
  LET o == call.object IN
  /\ pc = "data"
  /\ UNCHANGED <<ram, number, table, metadata, admin, users, loop, spoiled>>
  /\ \/ /\ NoFault
        /\ data' = [data EXCEPT ![o] = call.code]
        /\ torn' = IF call.ok THEN torn \ {<<o, "user">>, <<o, "data">>} ELSE torn
        /\ IF call.operation = "add" THEN pc' = "table" /\ UNCHANGED <<call, result>>
           ELSE Return(IF call.ok THEN "SUCCESS" ELSE "none")
     \/ /\ Fault /\ Return("none")
        /\ UNCHANGED <<data, torn>>

\* Mutant of Place: the loop goes past the key itself.
Place_After(key) == 1 + Cardinality({i \in 1 .. n_credentials : table[i].key <= key})

\* get_credential_descriptor_index: the place of a key in the table.
Place(key) == 1 + Cardinality({i \in 1 .. n_credentials : table[i].key < key})

\* The table that the operation writes.
NewTable ==
  LET current == SubSeq(table, 1, n_credentials)
      place == Place(call.key)
  IN CASE call.operation = "add" ->
            InsertAt(current, place,
                     [key |-> call.key, user |-> call.user, object |-> call.object])
       [] call.operation = "delete" -> RemoveAt(current, place)
       [] call.operation = "move" -> [current EXCEPT ![place].user = call.user]

\* add, delete and move write the table; a table without entries is not written.
WriteTable ==
  /\ pc = "table"
  /\ UNCHANGED <<credentials_buffer_head, number, metadata, data, admin, users, loop>>
  /\ \/ /\ NoFault
        /\ n_credentials' = Len(NewTable)
        /\ table' = IF NewTable = <<>> THEN table ELSE Written(table, NewTable, ChunkEntries)
        /\ torn' = IF call.operation = "move" /\ "ok" \in DOMAIN call /\ call.ok
                   THEN torn \ {<<call.object, "user">>} ELSE torn
        /\ IF call.operation = "move" THEN Return("SUCCESS")
           ELSE pc' = "number" /\ UNCHANGED <<call, result>>
        /\ UNCHANGED spoiled
     \/ /\ Fault /\ Return("none")
        /\ spoiled' = IF loop = NoLoop THEN spoiled ELSE spoiled \cup {"delete"}
        /\ UNCHANGED <<n_credentials, table, torn>>

\* add and delete write the number; when that fails add takes its entry back and delete does not.
WriteNumber ==
  /\ pc = "number"
  /\ UNCHANGED <<table, metadata, data, admin, users, loop, torn>>
  /\ \/ /\ NoFault
        /\ number' = n_credentials
        /\ credentials_buffer_head' =
             IF call.operation = "delete" /\ credentials_buffer_head >= n_credentials THEN 0
             ELSE credentials_buffer_head
        /\ Return("SUCCESS")
        /\ UNCHANGED <<n_credentials, spoiled>>
     \/ /\ Fault /\ Return("none")
        /\ n_credentials' = IF call.operation = "add" THEN n_credentials - 1 ELSE n_credentials
        /\ spoiled' = spoiled \cup {"number"}
        /\ UNCHANGED <<number, credentials_buffer_head>>

-------------------------------------------------------------------------------
(* Deletion of several credentials, and of users with theirs *)

\* CC_UserCredential_delete_all_credentials_of_type for each user of a sequence; drop: the user
\* is deleted after its credentials.
Delete(sequence, type, drop) ==
  /\ pc = "idle" /\ sequence # <<>>
  /\ loop' = [users |-> sequence, filter |-> type, drop |-> drop,
              target |-> get_next_credential(Head(sequence), type, 0)]
  /\ pc' = "loop" /\ call' = NoCall /\ result' = "none"
  /\ UNCHANGED <<ram, files, users, history>>

\* The order in which a walk over all users meets them.
Ascending(S) ==
  {s \in [1 .. Cardinality(S) -> S] : \A i, j \in 1 .. Cardinality(S) : i < j => s[i] < s[j]}

\* Mutant of NextTarget: every change of the type ends the loop.
NextTarget_SameType ==
  LET next == get_next_credential(Head(loop.users), loop.filter, loop.target)
  IN IF next # 0 /\ Type(next) = Type(loop.target) THEN next ELSE 0

\* The target after the current one; it ends the loop when it has another type.
NextTarget ==
  LET next == get_next_credential(Head(loop.users), loop.filter, loop.target)
  IN IF next # 0 /\ loop.filter \in {"any", Type(next)} THEN next ELSE 0

\* One round of the loop: the next target is looked up, then the current one is deleted.
DeleteTarget ==
  /\ pc = "loop" /\ loop.target # 0
  /\ loop' = [loop EXCEPT !.target = NextTarget]
  /\ delete_credential(loop.target)
  /\ UNCHANGED <<files, users, history>>

\* All credentials of the user have been targets.
NextUser ==
  LET rest == Tail(loop.users) IN
  /\ pc = "loop" /\ loop.target = 0
  /\ \/ NoFault /\ users' = IF loop.drop THEN users \ {Head(loop.users)} ELSE users
     \/ Fault /\ loop.drop /\ UNCHANGED users
  /\ IF rest = <<>> THEN loop' = NoLoop /\ pc' = "idle"
     ELSE /\ loop' = [loop EXCEPT !.users = rest,
                                  !.target = get_next_credential(Head(rest), loop.filter, 0)]
          /\ UNCHANGED pc
  /\ UNCHANGED <<ram, files, call, result, torn, spoiled>>

-------------------------------------------------------------------------------
(* Commands *)

Start == pc = "idle" /\ UNCHANGED <<files, loop, history>>

AddUser(user) ==
  /\ Start
  /\ users' = users \cup {user}
  /\ UNCHANGED <<ram, pc, call, result>>

\* CC_UserCredential_CredentialSet_handler: add and modify.
CredentialSet(user, key, code) ==
  /\ Start
  /\ validate_new_credential_data(users, key, code)
  /\ user \in users
  /\ add_credential(user, key, code) \/ modify_credential(user, key, code)
  /\ UNCHANGED users

\* The deletion of one credential, whatever user the command names.
CredentialDelete(key) == Start /\ delete_credential(key) /\ UNCHANGED users

\* CC_UserCredential_move_credential_and_report
AssociationSet(key, user) ==
  /\ Start
  /\ user \in users
  /\ move_credential(key, user)
  /\ UNCHANGED users

\* CC_UserCode_Set_handler: a PIN for the owner of the slot, or for the user of that number,
\* who is added when missing.
UserCodeSet(key, code) ==
  LET owner == IF Stored(key) THEN metadata[Entry(key).object].user ELSE key
      existing == users \cup IF owner \in users THEN {} ELSE {key}
  IN /\ Start
     /\ TableReadable
     /\ users' = existing
     /\ IF validate_new_credential_data(existing, key, code)
        THEN IF Stored(key) THEN modify_credential(owner, key, code)
             ELSE add_credential(owner, key, code)
        ELSE UNCHANGED <<ram, pc, call, result>>

\* CC_UserCredential_AdminCodeSet_handler; a code of length 0 is not validated.
AdminCodeSet(code) ==
  /\ pc = "idle"
  /\ code # NoCode => code # admin /\ find_existing_credential(users, "PIN", code) = 0
  /\ (NoFault /\ admin' = code) \/ (Fault /\ UNCHANGED admin)
  /\ UNCHANGED <<ram, number, table, metadata, data, users, pc, call, loop, result, torn, spoiled>>

\* initialize_user_credential_database, at the end of every learn mode: without users, user 1 is
\* added and then its PIN, without validation.
AddDefaultUser ==
  /\ Start /\ users = {}
  /\ users' = {1}
  /\ pc' = "add default"
  /\ UNCHANGED <<ram, call, result>>

AddDefaultPin ==
  /\ pc = "add default"
  /\ add_credential(1, 1, DefaultCode)
  /\ UNCHANGED <<files, users, loop, history>>

\* CC_UserCredential_factory_reset: three writes whose failure is ignored; the empty tables are
\* not written.
FactoryReset ==
  /\ pc = "idle"
  /\ n_credentials' = 0
  /\ pc' = "reset users" /\ call' = NoCall /\ result' = "none"
  /\ UNCHANGED <<credentials_buffer_head, files, users, loop, history>>

ResetWrites ==
  /\ UNCHANGED <<n_credentials, table, metadata, data, call, loop, result, torn>>
  /\ \/ /\ pc = "reset users" /\ pc' = "reset number"
        /\ NoFault /\ users' = {}
        /\ UNCHANGED <<credentials_buffer_head, number, admin, spoiled>>
     \/ /\ pc = "reset number" /\ pc' = "reset admin"
        /\ \/ NoFault /\ number' = 0 /\ UNCHANGED spoiled
           \/ Fault /\ spoiled' = spoiled \cup {"reset"} /\ UNCHANGED number
        /\ UNCHANGED <<credentials_buffer_head, admin, users>>
     \/ /\ pc = "reset admin" /\ pc' = "idle"
        /\ (NoFault /\ admin' = NoCode) \/ (Fault /\ UNCHANGED admin)
        /\ credentials_buffer_head' = 0
        /\ UNCHANGED <<number, users, spoiled>>

\* The power fails; init_database reads the number.
PowerLoss ==
  /\ Fault
  /\ n_credentials' = number /\ credentials_buffer_head' = 0
  /\ pc' = "idle" /\ call' = NoCall /\ loop' = NoLoop /\ result' = "none"
  /\ spoiled' = IF pc = "reset number" THEN spoiled \cup {"reset"} ELSE spoiled
  /\ UNCHANGED <<files, users, torn>>

Commands ==
  \/ \E user \in Users : AddUser(user)
  \/ \E user \in Users, key \in Keys, code \in Codes : CredentialSet(user, key, code)
  \/ \E key \in Keys : CredentialDelete(key)
  \/ \E key \in Keys, user \in Users : AssociationSet(key, user)
  \/ \E key \in 1 .. PinSlots, code \in Codes : UserCodeSet(key, code)
  \/ \E code \in Codes \cup {NoCode} : AdminCodeSet(code)
  \/ \E user \in users : Delete(<<user>>, "any", TRUE)
  \/ \E sequence \in Ascending(users) : Delete(sequence, "any", TRUE)
  \/ \E user \in Users, type \in Types \cup {"any"} : Delete(<<user>>, type, FALSE)
  \/ \E sequence \in Ascending(users), type \in Types \cup {"any"} :
       Delete(sequence, type, FALSE)
  \/ AddDefaultUser
  \/ FactoryReset

Next ==
  \/ Commands
  \/ WriteMetadata \/ WriteData \/ WriteTable \/ WriteNumber
  \/ DeleteTarget \/ NextUser \/ AddDefaultPin \/ ResetWrites
  \/ PowerLoss

Spec == Init /\ [][Next]_vars

-------------------------------------------------------------------------------
(***************************************************************************)
(* The table that is read is sorted by type and slot with one object each, *)
(* and add_credential's search for an object ends ("Impossible path!").    *)
(***************************************************************************)
DescriptorsSound ==
  TableReadable =>
    /\ \A i, j \in 1 .. n_credentials :
         i < j => table[i].key < table[j].key /\ table[i].object # table[j].object
    /\ n_credentials < Capacity => \A key \in Keys : \E i \in Offsets : EndsSearch(key, i)

(***************************************************************************)
(* Between operations every credential that the table shows can be read,   *)
(* and its metadata names the user that the table names.  Only an object   *)
(* is excepted that a modification or move of this very credential left    *)
(* half written, by a failed write or a power loss.  After a failed write  *)
(* of the number nothing is claimed: RAM and the files then disagree.      *)
(***************************************************************************)
CredentialsIntact ==
  pc = "idle" /\ spoiled = {} =>
    \A e \in Entries :
      /\ <<e.object, "data">> \notin torn => get_credential(e.key) # NoCode
      /\ {<<e.object, "user">>, <<e.object, "data">>} \cap torn = {}
           => metadata[e.object].user = e.user

(***************************************************************************)
(* Every credential belongs to a user that exists, as long as no write of  *)
(* a deletion or of the number failed and no reset was cut short:          *)
(* delete_user_and_report deletes the credentials first and the user last. *)
(***************************************************************************)
NoOrphanCredentials ==
  pc = "idle" /\ spoiled = {} => \A e \in Entries : e.user \in users

(***************************************************************************)
(* CC:0083.01.0A.11.018 and CC:0083.01.1A.13.005: no two credentials of a  *)
(* type have the same data and no PIN is the admin code.  The exception is *)
(* the default PIN, which is added without validation.  One fault is       *)
(* survived; a second one can make the old data of a credential that the   *)
(* first left half written readable again, after others have taken them.   *)
(***************************************************************************)
UniqueCodes ==
  pc = "idle" /\ spoiled = {} /\ faults <= 1 =>
    \A k \in Keys : get_credential(k) # NoCode =>
      /\ \A j \in Keys \ {k} : Type(j) = Type(k) => get_credential(j) # get_credential(k)
      /\ Type(k) = "PIN" /\ get_credential(k) = admin => k = 1 /\ admin = DefaultCode

(***************************************************************************)
(* zpal_nvm_flashdb.c says of zpal_nvm_write that it should only write the *)
(* new data if it is different from what is already stored.  So without a  *)
(* fault the table can always be read after an operation.  A table longer  *)
(* than the compare buffer that loses its last entry is not written.       *)
(***************************************************************************)
TableStaysReadable == pc = "idle" /\ faults = 0 => TableReadable

\* What a reader gets for a key.
View(key) ==
  IF Stored(key) THEN [user |-> Entry(key).user, code |-> get_credential(key)]
  ELSE [user |-> 0, code |-> NoCode]

(***************************************************************************)
(* A credential that add_credential or modify_credential reports as stored *)
(* can be read back with this user and this data, and one that             *)
(* delete_credential reports as deleted is gone.  Only the table that is   *)
(* not written although it got shorter is excepted.                        *)
(***************************************************************************)
SuccessMeansStored ==
  [][ \A key \in {call.key} \cap Keys :
        result' = "SUCCESS" /\ call' = NoCall /\ TableReadable' =>
          /\ call.operation \in {"add", "modify"} =>
               View(key)' = [user |-> call.user, code |-> call.code]
          /\ call.operation = "delete" => ~Stored(key)' ]_vars

(***************************************************************************)
(* No step of an operation changes what a reader gets for another          *)
(* credential than the one it is about, and neither does a power loss, as  *)
(* long as the table can be read before and after.  A reset is about all.  *)
(***************************************************************************)
KeepsOthers ==
  [][ /\ TableReadable /\ TableReadable'
      /\ spoiled' = {}
      /\ \A p \in {pc, pc'} : p \notin {"reset users", "reset number", "reset admin"}
      => \A key \in Keys \ {call.key} : View(key)' = View(key) ]_vars
===============================================================================
