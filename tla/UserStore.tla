------------------------------ MODULE UserStore ------------------------------
(***************************************************************************)
(* The User half of the User Credential database of                         *)
(* cc_user_credential_nvm.c: a descriptor table ordered by User Unique      *)
(* Identifier, a ring of User objects, and two RAM variables, n_users and   *)
(* users_buffer_head.                                                       *)
(*                                                                         *)
(* All calls come from the application task and run to completion, so only  *)
(* one operation is under way at a time.  What can come between two of its  *)
(* steps is a power loss, and each NVM write can fail: an operation is      *)
(* therefore one action per NVM write.  Faults says which of the two occur. *)
(***************************************************************************)
EXTENDS Naturals, FiniteSets, ZpalNvm

CONSTANTS MaxUsers,       \* max_users
          UserIds,        \* the User Unique Identifiers that callers use
          Data,           \* contents of u3c_user_t other than identifier and name
          Names,          \* the names that callers use
          NameLength,     \* name |-> its length in bytes (never 0)
          ChunkEntries,   \* descriptors that fit the 64 byte compare buffer
          Faults          \* a subset of {"io", "power"}

ASSUME BoundsAssumption == /\ MaxUsers \in Nat /\ 0 < MaxUsers /\ MaxUsers < 65535
                           /\ ChunkEntries \in Nat /\ 0 < ChunkEntries

ASSUME IdsAssumption == \A uid \in UserIds : uid \in Nat /\ uid > 0

ASSUME NamesAssumption == /\ NameLength \in [Names -> Nat \ {0}]
                          /\ "no name file" \notin Names

ASSUME FaultsAssumption == Faults \subseteq {"io", "power"}

VARIABLES n_users,            \* RAM
          users_buffer_head,  \* RAM
          number,             \* file NUMBER_OF_USERS
          table,              \* file USER_DESCRIPTOR_TABLE
          object,             \* files USER_BASE + offset
          name,               \* files USER_NAME_BASE + offset
          pc,                 \* the next NVM write of the operation under way
          call,               \* that operation's arguments and locals
          result              \* result of the last operation that returned

files == <<number, table, object, name>>
ram == <<n_users, users_buffer_head>>
vars == <<n_users, users_buffer_head, number, table, object, name, pc, call, result>>

(***************************************************************************)
(* UINT16_MAX: n_users before the database is read, and what an absent      *)
(* NUMBER_OF_USERS file counts as.                                          *)
(***************************************************************************)
UNSET == 65535

Offsets == 0 .. MaxUsers - 1

\* user_descriptor_t
Descriptor == [unique_identifier : UserIds, object_offset : Offsets]

\* What a caller passes: u3c_user_t and the name.
User == [unique_identifier : UserIds, data : Data, name : Names]

\* u3c_user_t as stored: the name is in a file of its own, 0 marks a file never written.
StoredUser ==
    [unique_identifier : UserIds, data : Data, name_length : Nat \ {0}]

NoObject == [unique_identifier |-> 0]
NoName == "no name file"

Stored(user) == [unique_identifier |-> user.unique_identifier,
                 data |-> user.data,
                 name_length |-> NameLength[user.name]]

NoCall == [operation |-> "none"]

Init ==
    /\ n_users = UNSET
    /\ users_buffer_head = 0
    /\ number = UNSET
    /\ table = <<>>
    /\ object = [o \in Offsets |-> NoObject]
    /\ name = [o \in Offsets |-> NoName]
    /\ pc = "off"
    /\ call = NoCall
    /\ result = "none"

------------------------------------------------------------------------------
(* Reading *)

(***************************************************************************)
(* Reading the descriptor table asks for n_users entries; a request for 0   *)
(* bytes succeeds without a read.                                           *)
(***************************************************************************)
TableReadable == n_users = 0 \/ ReadSucceeds(table, n_users)

\* The indices of the table an operation looks at.
Entries == 1 .. n_users

Exists(uid) == \E i \in Entries : table[i].unique_identifier = uid

IndexOf(uid) == CHOOSE i \in Entries : table[i].unique_identifier = uid

\* Reading the name file of an object asks for the object's name_length bytes.
NameReadable(offset) ==
    /\ name[offset] # NoName
    /\ NameLength[name[offset]] = object[offset].name_length

(***************************************************************************)
(* CC_UserCredential_get_user(uid, &user, name): the result and, on         *)
(* success, what it copies out.                                             *)
(***************************************************************************)
get_user(uid) ==
    IF n_users = 0 THEN [result |-> "FAIL_DNE"]
    ELSE IF ~TableReadable THEN [result |-> "ERROR_IO"]
    ELSE IF ~Exists(uid) THEN [result |-> "FAIL_DNE"]
    ELSE LET offset == table[IndexOf(uid)].object_offset
         IN  IF object[offset] = NoObject \/ ~NameReadable(offset)
             THEN [result |-> "ERROR_IO"]
             ELSE [result |-> "SUCCESS",
                   user |-> [unique_identifier |-> object[offset].unique_identifier,
                             data |-> object[offset].data,
                             name |-> name[offset]]]

\* Mutant of get_next_user: the loop stops one entry early.
get_next_user_Short(uid) ==
    IF n_users = 0 \/ ~TableReadable THEN 0
    ELSE IF uid = 0 THEN table[1].unique_identifier
    ELSE IF Exists(uid) /\ IndexOf(uid) < n_users - 1
         THEN table[IndexOf(uid) + 1].unique_identifier
         ELSE 0

(***************************************************************************)
(* CC_UserCredential_get_next_user: the entry after uid in the table, 0 for *)
(* none; the first one for uid 0.                                           *)
(***************************************************************************)
get_next_user(uid) ==
    IF n_users = 0 \/ ~TableReadable THEN 0
    ELSE IF uid = 0 THEN table[1].unique_identifier
    ELSE IF Exists(uid) /\ IndexOf(uid) < n_users
         THEN table[IndexOf(uid) + 1].unique_identifier
         ELSE 0

(***************************************************************************)
(* is_user_identical: the incoming user against the object at an offset;    *)
(* without a name, names are not compared.                                  *)
(***************************************************************************)
is_user_identical(stored, newName, offset) ==
    /\ object[offset] = stored
    /\ newName # NoName => name[offset] = newName

------------------------------------------------------------------------------
(* Operations *)

Return(code) == /\ pc' = "idle" /\ call' = NoCall /\ result' = code

WriteFails == "io" \in Faults

\* Mutants of Candidate: the head does not wrap; it wraps one object early.
Candidate_NoWrap(k) == users_buffer_head + k

Candidate_Short(k) == (users_buffer_head + k) % (MaxUsers - 1)

\* Mutant of Owned: the scan misses the last descriptor.
Owned_SkipLast(offset) == \E i \in 1 .. n_users - 1 : table[i].object_offset = offset

(***************************************************************************)
(* The search for an object: attempt k looks at the object k places after   *)
(* the head and walks the table from its start.  It ends the search when    *)
(* the user is met before (or at) the owner of the object, or when the      *)
(* object has no owner.                                                     *)
(***************************************************************************)
Candidate(k) ==
    IF users_buffer_head + k < MaxUsers THEN users_buffer_head + k
    ELSE users_buffer_head + k - MaxUsers

Owned(offset) == \E i \in Entries : table[i].object_offset = offset

MeetsUser(uid, offset) ==
    \E i \in Entries :
        /\ table[i].unique_identifier = uid
        /\ \A j \in 1 .. i - 1 : table[j].object_offset # offset

EndsSearch(uid, k) == MeetsUser(uid, Candidate(k)) \/ ~Owned(Candidate(k))

FirstAttempt(uid, k) ==
    /\ EndsSearch(uid, k)
    /\ \A j \in 0 .. k - 1 : ~EndsSearch(uid, j)

(***************************************************************************)
(* CC_UserCredential_add_user up to its first NVM write.  The "impossible   *)
(* path" behind the loop has no branch here: NoImpossiblePath shows that    *)
(* the search always ends.                                                  *)
(***************************************************************************)
add_user(user) ==
    /\ pc = "idle"
    /\ \/ /\ n_users >= MaxUsers
          /\ Return("FAIL_FULL")
          /\ UNCHANGED <<files, ram>>
       \/ /\ n_users < MaxUsers /\ ~TableReadable
          /\ Return("ERROR_IO")
          /\ UNCHANGED <<files, ram>>
       \/ /\ n_users < MaxUsers /\ TableReadable
          /\ \E k \in Offsets :
               /\ FirstAttempt(user.unique_identifier, k)
               /\ users_buffer_head' = Candidate(k)
               /\ IF MeetsUser(user.unique_identifier, Candidate(k))
                  THEN Return(IF is_user_identical(Stored(user), user.name, Candidate(k))
                              THEN "FAIL_IDENTICAL" ELSE "FAIL_OCCUPIED")
                  ELSE /\ pc' = "object"
                       /\ call' = [operation |-> "add", stored |-> Stored(user),
                                   name |-> user.name, offset |-> Candidate(k)]
                       /\ UNCHANGED result
          /\ UNCHANGED <<files, n_users>>

(***************************************************************************)
(* CC_UserCredential_modify_user up to its first NVM write, for a User      *)
(* object and a name, NoName when the caller passes no name.                *)
(***************************************************************************)
modify_user(stored, newName) ==
    LET uid == stored.unique_identifier
    IN  /\ pc = "idle"
        /\ UNCHANGED <<files, ram>>
        /\ \/ /\ n_users = 0 \/ (TableReadable /\ ~Exists(uid))
              /\ Return("FAIL_DNE")
           \/ /\ n_users > 0 /\ ~TableReadable
              /\ Return("ERROR_IO")
           \/ /\ n_users > 0 /\ TableReadable /\ Exists(uid)
              /\ LET offset == table[IndexOf(uid)].object_offset
                 IN  IF is_user_identical(stored, newName, offset)
                     THEN Return("FAIL_IDENTICAL")
                     ELSE /\ pc' = "object"
                          /\ call' = [operation |-> "modify", stored |-> stored,
                                      name |-> newName, offset |-> offset]
                          /\ UNCHANGED result

(***************************************************************************)
(* The caller without a name, set_user_code: it changes the User object it  *)
(* has just read.                                                           *)
(***************************************************************************)
modify_user_object(uid, data) ==
    /\ n_users > 0 /\ TableReadable /\ Exists(uid)
    /\ LET offset == table[IndexOf(uid)].object_offset
       IN  /\ object[offset] # NoObject
           /\ object[offset].data # data
           /\ modify_user([object[offset] EXCEPT !.data = data], NoName)

(***************************************************************************)
(* CC_UserCredential_delete_user up to its first NVM write.                 *)
(***************************************************************************)
delete_user(uid) ==
    /\ pc = "idle"
    /\ UNCHANGED <<files, ram>>
    /\ \/ /\ n_users = 0 \/ (TableReadable /\ ~Exists(uid))
          /\ Return("FAIL_DNE")
       \/ /\ n_users > 0 /\ ~TableReadable
          /\ Return("ERROR_IO")
       \/ /\ n_users > 0 /\ TableReadable /\ Exists(uid)
          /\ pc' = "table"
          /\ call' = [operation |-> "delete", index |-> IndexOf(uid), uid |-> uid]
          /\ UNCHANGED result

\* add_user and modify_user: write the User object; without a name that is all.
WriteObject ==
    /\ pc = "object"
    /\ UNCHANGED <<number, table, name, ram>>
    /\ \/ /\ object' = [object EXCEPT ![call.offset] = call.stored]
          /\ IF call.name = NoName
             THEN Return("SUCCESS")
             ELSE /\ pc' = "name" /\ UNCHANGED <<call, result>>
       \/ /\ WriteFails
          /\ Return("ERROR_IO")
          /\ UNCHANGED object

\* add_user and modify_user: write the User name.
WriteName ==
    /\ pc = "name"
    /\ UNCHANGED <<number, table, object, ram>>
    /\ \/ /\ name' = [name EXCEPT ![call.offset] = call.name]
          /\ IF call.operation = "add"
             THEN /\ pc' = "table" /\ UNCHANGED <<call, result>>
             ELSE Return("SUCCESS")
       \/ /\ WriteFails
          /\ Return("ERROR_IO")
          /\ UNCHANGED name

(***************************************************************************)
(* The local copy of the table that add_user starts from: the file, or no   *)
(* entry when the database counts as empty and nothing is read.             *)
(***************************************************************************)
ReadTable == IF n_users = 0 THEN <<>> ELSE table

\* Mutant of InsertIndex: new descriptors go to the end.
InsertIndex_Append(users, uid, index) == index = Len(users) + 1

(***************************************************************************)
(* ordered_insert_user_descriptor inserts before the first entry with a     *)
(* greater identifier, at the end when there is none.                       *)
(***************************************************************************)
InsertIndex(users, uid, index) ==
    /\ \A i \in 1 .. index - 1 : users[i].unique_identifier <= uid
    /\ index <= Len(users) => users[index].unique_identifier > uid

NewDescriptor == [unique_identifier |-> call.stored.unique_identifier,
                  object_offset |-> call.offset]

(***************************************************************************)
(* add_user: ordered_insert_user_descriptor increments n_users, then the    *)
(* table is written; a failure takes the increment back.                    *)
(***************************************************************************)
WriteTableAdd ==
    /\ pc = "table" /\ call.operation = "add"
    /\ UNCHANGED <<number, object, name, users_buffer_head>>
    /\ \/ /\ \E index \in 1 .. n_users + 1 :
               /\ InsertIndex(ReadTable, call.stored.unique_identifier, index)
               /\ table' = Written(table, InsertAt(ReadTable, index, NewDescriptor),
                                   ChunkEntries)
          /\ n_users' = n_users + 1
          /\ pc' = "number"
          /\ UNCHANGED <<call, result>>
       \/ /\ WriteFails
          /\ Return("ERROR_IO")
          /\ UNCHANGED <<table, n_users>>

\* Mutant of Without: the last entry is dropped, nothing moves up.
Without_NoShift(users, index) == SubSeq(users, 1, Len(users) - 1)

\* The entries behind the deleted one move up.
Without(users, index) == RemoveAt(users, index)

(***************************************************************************)
(* delete_user: n_users is decremented, the entries behind the deleted one  *)
(* move up and the table is written (no write when it is now empty); a      *)
(* failure takes the decrement back.                                        *)
(***************************************************************************)
WriteTableDelete ==
    /\ pc = "table" /\ call.operation = "delete"
    /\ UNCHANGED <<number, object, name, users_buffer_head>>
    /\ \/ /\ table' = IF n_users = 1 THEN table
                      ELSE Written(table, Without(table, call.index), ChunkEntries)
          /\ n_users' = n_users - 1
          /\ pc' = "number"
          /\ UNCHANGED <<call, result>>
       \/ /\ WriteFails /\ n_users > 1
          /\ Return("ERROR_IO")
          /\ UNCHANGED <<table, n_users>>

(***************************************************************************)
(* Both write NUMBER_OF_USERS last.  When that fails add_user takes its     *)
(* increment back, delete_user leaves n_users decremented and returns       *)
(* before it looks at the head.                                             *)
(***************************************************************************)
WriteNumber ==
    /\ pc = "number"
    /\ UNCHANGED <<table, object, name>>
    /\ \/ /\ number' = n_users
          /\ users_buffer_head' = IF call.operation = "delete" /\ users_buffer_head >= n_users
                                  THEN 0 ELSE users_buffer_head
          /\ Return("SUCCESS")
          /\ UNCHANGED n_users
       \/ /\ WriteFails
          /\ n_users' = IF call.operation = "add" THEN n_users - 1 ELSE n_users
          /\ Return("ERROR_IO")
          /\ UNCHANGED <<number, users_buffer_head>>

(***************************************************************************)
(* CC_UserCredential_factory_reset: the empty table is not written (size    *)
(* 0), and nobody looks at the result of writing the number.                *)
(***************************************************************************)
factory_reset ==
    /\ n_users' = 0
    /\ users_buffer_head' = 0
    /\ \/ number' = 0
       \/ WriteFails /\ UNCHANGED number
    /\ UNCHANGED <<table, object, name>>

Reset == pc = "idle" /\ factory_reset /\ Return("none")

(***************************************************************************)
(* CC_UserCredential_init_database.  An absent number of users, or of       *)
(* credentials, means a factory reset; the latter is only absent when its   *)
(* own write has failed, which nobody looks at either.                      *)
(***************************************************************************)
init_database ==
    /\ pc = "off"
    /\ \/ /\ number = UNSET \/ WriteFails
          /\ factory_reset
       \/ /\ number # UNSET
          /\ n_users' = number
          /\ users_buffer_head' = 0
          /\ UNCHANGED files
    /\ Return("none")

\* The power can fail before any step.
PowerLoss ==
    /\ "power" \in Faults
    /\ pc # "off"
    /\ pc' = "off"
    /\ n_users' = UNSET
    /\ users_buffer_head' = 0
    /\ call' = NoCall
    /\ result' = "none"
    /\ UNCHANGED files

Next ==
    \/ \E user \in User : add_user(user) \/ modify_user(Stored(user), user.name)
    \/ \E uid \in UserIds, data \in Data : modify_user_object(uid, data)
    \/ \E uid \in UserIds : delete_user(uid)
    \/ WriteObject \/ WriteName \/ WriteTableAdd \/ WriteTableDelete \/ WriteNumber
    \/ Reset \/ init_database \/ PowerLoss

Spec == Init /\ [][Next]_vars

------------------------------------------------------------------------------
(* Properties *)

Calls ==
    [operation : {"add", "modify"}, stored : StoredUser,
     name : Names \cup {NoName}, offset : Offsets]
    \cup [operation : {"delete"}, index : 1 .. MaxUsers, uid : UserIds]
    \cup {NoCall}

Results == {"none", "SUCCESS", "FAIL_DNE", "FAIL_FULL", "FAIL_IDENTICAL",
            "FAIL_OCCUPIED", "ERROR_IO"}

(***************************************************************************)
(* Every variable has its type; in particular the database never counts     *)
(* more than max_users users and users_buffer_head always is the offset of  *)
(* an object.                                                               *)
(***************************************************************************)
TypeOK ==
    /\ n_users \in 0 .. MaxUsers \cup {UNSET}
    /\ (n_users = UNSET) <=> (pc = "off")
    /\ users_buffer_head \in Offsets
    /\ number \in 0 .. MaxUsers \cup {UNSET}
    /\ table \in Seq(Descriptor)
    /\ object \in [Offsets -> StoredUser \cup {NoObject}]
    /\ name \in [Offsets -> Names \cup {NoName}]
    /\ pc \in {"off", "idle", "object", "name", "table", "number"}
    /\ call \in Calls
    /\ result \in Results

Sorted(t) ==
    \A i, j \in 1 .. Len(t) :
        i < j => t[i].unique_identifier < t[j].unique_identifier

OffsetsDistinct(t) ==
    \A i, j \in 1 .. Len(t) : i # j => t[i].object_offset # t[j].object_offset

(***************************************************************************)
(* Whatever fails and whenever the power is lost, the descriptor table in   *)
(* NVM holds each identifier once, in ascending order, and gives each its   *)
(* own object: what ordered_insert_user_descriptor and the search for a     *)
(* free object in CC_UserCredential_add_user are for.                       *)
(***************************************************************************)
TableSound ==
    /\ Len(table) <= MaxUsers
    /\ Sorted(table)
    /\ OffsetsDistinct(table)

(***************************************************************************)
(* "Impossible path!  The database is not full, but no free object was      *)
(* found": the search of CC_UserCredential_add_user ends within its         *)
(* max_users attempts, from every head and for every identifier.            *)
(***************************************************************************)
NoImpossiblePath ==
    (pc = "idle" /\ n_users < MaxUsers /\ TableReadable)
    => \A uid \in UserIds : \E k \in Offsets : EndsSearch(uid, k)

\* The number of users the database works with, or would after a restart.
Count == IF pc = "off" THEN number ELSE n_users

OwnTable ==
    \A i \in 1 .. Len(table) :
        object[table[i].object_offset].unique_identifier = table[i].unique_identifier

(***************************************************************************)
(* As long as the table can be read, the object of an entry is the object   *)
(* of that entry's user: no operation writes a user over another one.       *)
(***************************************************************************)
OwnObjects == Count = Len(table) => OwnTable

------------------------------------------------------------------------------
(* What makes TableSound, OwnObjects and OthersUntouched inductive *)

Adding == pc \in {"object", "name", "table"} /\ call.operation = "add"
Modifying == pc \in {"object", "name"} /\ call.operation = "modify"
Deleting == pc = "table" /\ call.operation = "delete"

(***************************************************************************)
(* What an operation found out before its first write still holds when it   *)
(* writes: its locals are not stale.                                        *)
(***************************************************************************)
CallOK ==
    /\ pc \in {"object", "name"} => call.operation \in {"add", "modify"}
    /\ pc \in {"table", "number"} => call.operation \in {"add", "delete"}
    /\ Adding => /\ n_users < MaxUsers /\ TableReadable
                 /\ ~Exists(call.stored.unique_identifier)
                 /\ ~Owned(call.offset)
                 /\ call.name # NoName
    /\ Modifying => \E i \in Entries :
                      /\ TableReadable
                      /\ table[i] = [unique_identifier |-> call.stored.unique_identifier,
                                     object_offset |-> call.offset]
    /\ Deleting => TableReadable /\ call.index \in Entries
    /\ pc = "number" /\ call.operation = "add" => n_users >= 1

TableInv == TypeOK /\ TableSound /\ CallOK

(***************************************************************************)
(* Without write failures NVM keeps up with RAM, so a restart finds a table *)
(* as good as the one in use; without power losses there is no restart.     *)
(***************************************************************************)
OwnInv ==
    /\ OwnObjects
    /\ "io" \notin Faults =>
          /\ number = Len(table) => OwnTable
          /\ pc \notin {"off", "number"} => number = n_users
    /\ "power" \notin Faults /\ pc = "off" => number = UNSET
    /\ Adding /\ pc # "object" =>
          object[call.offset].unique_identifier = call.stored.unique_identifier
    /\ pc = "number" /\ call.operation = "add" => n_users = Len(table)

(***************************************************************************)
(* Between the write of the table and that of the number the two files may  *)
(* disagree.  When the old number still fits the table, or counts it as     *)
(* empty, the only entry it shows or hides is that of the operation's user. *)
(***************************************************************************)
LastWriteInv ==
    /\ Deleting => table[call.index].unique_identifier = call.uid
    /\ pc = "name" => call.name # NoName
    /\ pc = "number" /\ call.operation = "add" =>
          /\ n_users = 1 => table[1].unique_identifier = call.stored.unique_identifier
          /\ "io" \notin Faults => number = n_users - 1
    /\ pc = "number" /\ call.operation = "delete" =>
          /\ n_users = 0 => Len(table) = 1 /\ table[1].unique_identifier = call.uid
          /\ "io" \notin Faults => number = n_users + 1
          /\ "power" \in Faults /\ n_users > 0 => n_users = Len(table)

------------------------------------------------------------------------------
(* More properties *)

(***************************************************************************)
(* No operation on one user changes, hides or invents another one: unless   *)
(* the database is reset, a step leaves what CC_UserCredential_get_user     *)
(* returns for every other identifier as it was, or leaves the table        *)
(* unreadable.                                                              *)
(***************************************************************************)
Lookup(uid) ==
    IF Count # Len(table) \/ Count = 0 \/ ~\E i \in 1 .. Count : table[i].unique_identifier = uid
    THEN NoObject
    ELSE LET i == CHOOSE i \in 1 .. Count : table[i].unique_identifier = uid
         IN  object[table[i].object_offset]

OnUser(uid) ==
    \/ "stored" \in DOMAIN call /\ call.stored.unique_identifier = uid
    \/ "uid" \in DOMAIN call /\ call.uid = uid

OthersUntouched ==
    [][\A uid \in UserIds :
         \/ Reset
         \/ OnUser(uid)
         \/ Lookup(uid)' = Lookup(uid)
         \/ Count' \notin {0, Len(table')}]_vars

(***************************************************************************)
(* The walk over the users that UserSet's delete-all and the checksum use:  *)
(* get_next_user yields the smallest identifier first and then, for each    *)
(* stored user, the next greater one, so it meets every user once and ends. *)
(***************************************************************************)
WalkInOrder ==
    (pc = "idle" /\ TableReadable) =>
        \A uid \in {0} \cup {u \in UserIds : Exists(u)} :
            LET later == {u \in UserIds : Exists(u) /\ u > uid}
            IN  IF later = {} THEN get_next_user(uid) = 0
                ELSE /\ get_next_user(uid) \in later
                     /\ \A u \in later : get_next_user(uid) <= u

(***************************************************************************)
(* The database as its callers see it, or would after a restart.  A         *)
(* modification counts from the moment its object is written, though its    *)
(* name follows.                                                            *)
(***************************************************************************)
NoUser == [unique_identifier |-> 0]

SeenAs(uid, offset) ==
    IF pc = "name" /\ call.operation = "modify" /\ OnUser(uid)
    THEN [unique_identifier |-> uid, data |-> call.stored.data, name |-> call.name]
    ELSE IF object[offset] # NoObject /\ NameReadable(offset)
         THEN [unique_identifier |-> object[offset].unique_identifier,
               data |-> object[offset].data, name |-> name[offset]]
         ELSE NoUser

DirectoryView ==
    [uid \in UserIds |->
        IF Count = Len(table) /\ \E i \in 1 .. Count : table[i].unique_identifier = uid
        THEN LET i == CHOOSE i \in 1 .. Count : table[i].unique_identifier = uid
             IN  SeenAs(uid, table[i].object_offset)
        ELSE NoUser]

\* The users with one identifier.
UsersOf(uid) == [unique_identifier : {uid}, data : Data, name : Names]

Directory == INSTANCE UserDirectory
             WITH Ids <- UserIds, Contents <- UsersOf, Capacity <- MaxUsers,
                  NoUser <- NoUser, directory <- DirectoryView

(***************************************************************************)
(* The database implements the dictionary: add_user only adds absent users  *)
(* and only up to max_users, modify_user and delete_user change the one     *)
(* user they name, every NVM write in between is invisible to the callers.  *)
(* A power loss in the middle of an operation takes effect on the user of   *)
(* that operation or, when the table cannot be read any more, on all users  *)
(* at once; it never changes some of the others.                            *)
(***************************************************************************)
ImplementsDirectory == Directory!Spec

==============================================================================
