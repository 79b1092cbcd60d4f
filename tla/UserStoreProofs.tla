--------------------------- MODULE UserStoreProofs ---------------------------
(***************************************************************************)
(* Proofs about UserStore, for every number of users, every set of          *)
(* identifiers, contents and names, and every compare buffer size.          *)
(*                                                                         *)
(* TableInv is the inductive invariant the others rest on.  OwnInv relates  *)
(* the objects and the number in NVM to the table, LastWriteInv the table   *)
(* to the operation between its last two writes.  StepKeeps, which needs    *)
(* all three, says that a step leaves every other user alone; both          *)
(* OtherUsersUntouched and the refinement of UserDirectory follow from it.  *)
(***************************************************************************)
EXTENDS UserStore, TableLemmas

------------------------------------------------------------------------------
(* Helpers of the model *)

\* A user that exists is found at an entry of the table.
LEMMA IndexOfFound ==
    ASSUME NEW uid, Exists(uid)
    PROVE  IndexOf(uid) \in Entries /\ table[IndexOf(uid)].unique_identifier = uid
BY DEF Exists, IndexOf

\* Attempts of the search look at objects only.
LEMMA CandidateIsOffset ==
    ASSUME users_buffer_head \in Offsets, NEW k \in Offsets
    PROVE  Candidate(k) \in Offsets
BY BoundsAssumption DEF Candidate, Offsets

\* The attempt that finds an object for a new user: the user is not in the table.
LEMMA FreeMeansAbsent ==
    ASSUME TypeOK, TableReadable, NEW uid, NEW offset,
           ~MeetsUser(uid, offset), ~Owned(offset)
    PROVE  ~Exists(uid)
<1> SUFFICES ASSUME NEW i \in Entries, table[i].unique_identifier = uid
             PROVE  FALSE
  BY DEF Exists
<1>1. \A j \in 1 .. i - 1 : j \in Entries
  BY DEF Entries, TypeOK, UNSET
<1> QED BY <1>1 DEF MeetsUser, Owned

\* What a caller passes is stored as a User object.
LEMMA StoredType ==
    ASSUME NEW user \in User
    PROVE  /\ Stored(user) \in StoredUser
           /\ Stored(user).unique_identifier = user.unique_identifier
           /\ user.name \in Names
<1>1. user.unique_identifier \in UserIds /\ user.data \in Data /\ user.name \in Names
  BY DEF User
<1>2. NameLength[user.name] \in Nat \ {0}
  BY <1>1, NamesAssumption
<1> QED BY <1>1, <1>2 DEF Stored, StoredUser

------------------------------------------------------------------------------
(* Soundness of the table *)

\* Identifiers are numbers, offsets are offsets of objects.
LEMMA DescriptorType ==
    ASSUME NEW d \in Descriptor
    PROVE  d.unique_identifier \in Nat /\ d.object_offset \in Offsets
<1>1. d.unique_identifier \in UserIds /\ d.object_offset \in Offsets
  BY DEF Descriptor
<1> QED BY <1>1, IdsAssumption

\* Inserting where ordered_insert_user_descriptor does keeps the table sound.
LEMMA InsertSound ==
    ASSUME NEW t \in Seq(Descriptor), Sorted(t), OffsetsDistinct(t),
           NEW d \in Descriptor,
           \A i \in 1 .. Len(t) : /\ t[i].unique_identifier # d.unique_identifier
                                  /\ t[i].object_offset # d.object_offset,
           NEW index \in 1 .. Len(t) + 1,
           InsertIndex(t, d.unique_identifier, index)
    PROVE  LET r == InsertAt(t, index, d)
           IN  /\ r \in Seq(Descriptor) /\ Len(r) = Len(t) + 1
               /\ Sorted(r) /\ OffsetsDistinct(r)
<1> DEFINE r == InsertAt(t, index, d)
<1>1. /\ r \in Seq(Descriptor) /\ Len(r) = Len(t) + 1
      /\ \A j \in 1 .. Len(t) + 1 :
           r[j] = IF j < index THEN t[j] ELSE IF j = index THEN d ELSE t[j - 1]
  <2>1. r \in Seq(Descriptor) /\ Len(r) = Len(t) + 1
    BY InsertAtType
  <2>2. \A j \in 1 .. Len(t) + 1 :
          r[j] = IF j < index THEN t[j] ELSE IF j = index THEN d ELSE t[j - 1]
    BY InsertAtEntry
  <2> QED BY <2>1, <2>2
<1>2. Len(t) \in Nat /\ \A j \in 1 .. Len(t) : t[j] \in Descriptor
  BY LenProperties, ElementOfSeq
<1>3. /\ d.unique_identifier \in Nat
      /\ \A j \in 1 .. Len(t) : t[j].unique_identifier \in Nat
  BY <1>2, DescriptorType
<1>4. \A j \in 1 .. Len(t) : j < index => t[j].unique_identifier < d.unique_identifier
  BY <1>2, <1>3 DEF InsertIndex
<1>5. \A j \in 1 .. Len(t) : j >= index => t[j].unique_identifier > d.unique_identifier
  <2> SUFFICES ASSUME NEW j \in 1 .. Len(t), j >= index
               PROVE  t[j].unique_identifier > d.unique_identifier
    OBVIOUS
  <2>1. t[index].unique_identifier > d.unique_identifier /\ index \in 1 .. Len(t)
    BY <1>2 DEF InsertIndex
  <2>2. j = index \/ t[index].unique_identifier < t[j].unique_identifier
    BY <2>1, <1>2 DEF Sorted
  <2> QED BY <2>1, <2>2, <1>3
<1> HIDE DEF r
<1>6. Sorted(r)
  <2> SUFFICES ASSUME NEW i \in 1 .. Len(r), NEW j \in 1 .. Len(r), i < j
               PROVE  r[i].unique_identifier < r[j].unique_identifier
    BY DEF Sorted
  <2>1. CASE j < index
    BY <2>1, <1>1, <1>2 DEF Sorted
  <2>2. CASE j = index
    <3>1. r[i] = t[i] /\ r[j] = d /\ i \in 1 .. Len(t) /\ i < index
      BY <2>2, <1>1, <1>2
    <3> QED BY <3>1, <1>4
  <2>3. CASE j > index /\ i = index
    <3>1. r[i] = d /\ r[j] = t[j - 1] /\ j - 1 \in 1 .. Len(t) /\ j - 1 >= index
      BY <2>3, <1>1, <1>2
    <3>2. t[j - 1].unique_identifier > d.unique_identifier
      BY <3>1, <1>5
    <3> QED BY <3>1, <3>2, <1>3
  <2>4. CASE j > index /\ i < index
    <3>1. r[j] = t[j - 1] /\ r[i] = t[i] /\ j - 1 \in 1 .. Len(t) /\ i \in 1 .. Len(t)
      BY <2>4, <1>1, <1>2
    <3>2. t[i].unique_identifier < d.unique_identifier
          /\ d.unique_identifier < t[j - 1].unique_identifier
      BY <3>1, <2>4, <1>2, <1>4, <1>5
    <3> QED BY <3>1, <3>2, <1>3
  <2>5. CASE j > index /\ i > index
    <3>1. r[j] = t[j - 1] /\ r[i] = t[i - 1] /\ j - 1 \in 1 .. Len(t)
          /\ i - 1 \in 1 .. Len(t) /\ i - 1 < j - 1
      BY <2>5, <1>1, <1>2
    <3> QED BY <3>1 DEF Sorted
  <2> QED BY <2>1, <2>2, <2>3, <2>4, <2>5, <1>1, <1>2
<1>7. OffsetsDistinct(r)
  <2> SUFFICES ASSUME NEW i \in 1 .. Len(r), NEW j \in 1 .. Len(r), i # j
               PROVE  r[i].object_offset # r[j].object_offset
    BY DEF OffsetsDistinct
  <2> DEFINE at(k) == IF k < index THEN k ELSE k - 1
  <2>1. CASE i = index
    <3>1. r[i] = d /\ r[j] = t[at(j)] /\ at(j) \in 1 .. Len(t)
      BY <2>1, <1>1, <1>2
    <3> HIDE DEF at
    <3> QED BY <3>1
  <2>2. CASE j = index
    <3>1. r[j] = d /\ r[i] = t[at(i)] /\ at(i) \in 1 .. Len(t)
      BY <2>2, <1>1, <1>2
    <3> HIDE DEF at
    <3> QED BY <3>1
  <2>3. CASE i # index /\ j # index
    <3>1. r[i] = t[at(i)] /\ r[j] = t[at(j)]
      BY <2>3, <1>1, <1>2
    <3>2. at(i) \in 1 .. Len(t) /\ at(j) \in 1 .. Len(t) /\ at(i) # at(j)
      BY <2>3, <1>1, <1>2
    <3> HIDE DEF at
    <3> QED BY <3>1, <3>2 DEF OffsetsDistinct
  <2> QED BY <2>1, <2>2, <2>3
<1> QED BY <1>1, <1>6, <1>7 DEF r

\* Removing an entry keeps the table sound.
LEMMA RemoveSound ==
    ASSUME NEW t \in Seq(Descriptor), Sorted(t), OffsetsDistinct(t),
           NEW index \in 1 .. Len(t)
    PROVE  LET r == Without(t, index)
           IN  /\ r \in Seq(Descriptor) /\ Len(r) = Len(t) - 1
               /\ Sorted(r) /\ OffsetsDistinct(r)
<1> DEFINE r == Without(t, index)
           at(k) == IF k < index THEN k ELSE k + 1
<1>1. /\ r \in Seq(Descriptor) /\ Len(r) = Len(t) - 1
      /\ \A j \in 1 .. Len(t) - 1 : r[j] = IF j < index THEN t[j] ELSE t[j + 1]
  BY RemoveAtProperties DEF Without
<1>2. Len(t) \in Nat
  BY LenProperties
<1> HIDE DEF r
<1>3. \A j \in 1 .. Len(r) : r[j] = t[at(j)] /\ at(j) \in 1 .. Len(t)
  BY <1>1, <1>2
<1>4. Sorted(r)
  BY <1>1, <1>2, <1>3, SMTT(30) DEF Sorted
<1>5. OffsetsDistinct(r)
  BY <1>1, <1>2, <1>3, SMTT(30) DEF OffsetsDistinct
<1> QED BY <1>1, <1>4, <1>5 DEF r

------------------------------------------------------------------------------
(* The inductive invariant: one lemma per action *)

LEMMA TableInvInit == Init => TableInv
<1> SUFFICES ASSUME Init PROVE TableInv
  OBVIOUS
<1>1. TypeOK
  <2>1. table \in Seq(Descriptor) /\ users_buffer_head \in Offsets
    BY BoundsAssumption DEF Init, Offsets
  <2> QED BY <2>1 DEF Init, TypeOK, Calls, Results
<1>2. TableSound
  BY BoundsAssumption DEF Init, TableSound, Sorted, OffsetsDistinct
<1>3. CallOK
  BY DEF Init, CallOK, Adding, Modifying, Deleting
<1> QED BY <1>1, <1>2, <1>3 DEF TableInv

\* Returning ends the operation: nothing is left to be stale.
LEMMA ReturnOK ==
    ASSUME NEW code \in Results, Return(code), UNCHANGED table, TableInv,
           n_users' \in 0 .. MaxUsers, users_buffer_head' \in Offsets,
           number' \in 0 .. MaxUsers \cup {UNSET},
           object' \in [Offsets -> StoredUser \cup {NoObject}],
           name' \in [Offsets -> Names \cup {NoName}]
    PROVE  TableInv'
<1>1. TypeOK'
  <2>1. n_users' # UNSET
    BY BoundsAssumption DEF UNSET
  <2> QED BY <2>1 DEF Return, TableInv, TypeOK, Calls
<1>2. TableSound'
  BY DEF TableInv, TableSound
<1>3. CallOK'
  BY DEF Return, CallOK, Adding, Modifying, Deleting
<1> QED BY <1>1, <1>2, <1>3 DEF TableInv

\* While the database is in use n_users is a count.
LEMMA InUse ==
    ASSUME TypeOK, pc # "off"
    PROVE  n_users \in 0 .. MaxUsers /\ n_users \in Nat /\ Entries \subseteq Nat
<1>1. n_users \in 0 .. MaxUsers
  BY DEF TypeOK
<1> QED BY <1>1, BoundsAssumption DEF Entries

\* With a readable table its entries are the descriptors that count.
LEMMA ReadableEntries ==
    ASSUME TypeOK, TableReadable, NEW i \in Entries, pc # "off"
    PROVE  n_users = Len(table) /\ i \in 1 .. Len(table) /\ table[i] \in Descriptor
<1>1. n_users # 0 /\ n_users \in Nat
  BY InUse DEF Entries
<1>2. n_users = Len(table)
  BY <1>1 DEF TableReadable, ReadSucceeds
<1> QED BY <1>2, ElementOfSeq DEF Entries, TypeOK

LEMMA AddUserOK ==
    ASSUME TableInv, NEW user \in User, add_user(user)
    PROVE  TableInv'
<1> USE DEF TableInv
<1>0. pc = "idle" /\ n_users \in 0 .. MaxUsers /\ UNCHANGED table
  BY InUse DEF add_user, files
<1>1. CASE \E code \in Results : Return(code) /\ UNCHANGED <<files, ram>>
  BY <1>0, <1>1, ReturnOK DEF TypeOK, files, ram
<1>2. CASE /\ n_users < MaxUsers /\ TableReadable
           /\ \E k \in Offsets :
               /\ FirstAttempt(user.unique_identifier, k)
               /\ users_buffer_head' = Candidate(k)
               /\ IF MeetsUser(user.unique_identifier, Candidate(k))
                  THEN Return(IF is_user_identical(Stored(user), user.name, Candidate(k))
                              THEN "FAIL_IDENTICAL" ELSE "FAIL_OCCUPIED")
                  ELSE /\ pc' = "object"
                       /\ call' = [operation |-> "add", stored |-> Stored(user),
                                   name |-> user.name, offset |-> Candidate(k)]
                       /\ UNCHANGED result
           /\ UNCHANGED <<files, n_users>>
  <2> PICK k \in Offsets :
               /\ FirstAttempt(user.unique_identifier, k)
               /\ users_buffer_head' = Candidate(k)
               /\ IF MeetsUser(user.unique_identifier, Candidate(k))
                  THEN Return(IF is_user_identical(Stored(user), user.name, Candidate(k))
                              THEN "FAIL_IDENTICAL" ELSE "FAIL_OCCUPIED")
                  ELSE /\ pc' = "object"
                       /\ call' = [operation |-> "add", stored |-> Stored(user),
                                   name |-> user.name, offset |-> Candidate(k)]
                       /\ UNCHANGED result
    BY <1>2
  <2>1. Candidate(k) \in Offsets
    BY CandidateIsOffset DEF TypeOK
  <2>2. CASE MeetsUser(user.unique_identifier, Candidate(k))
    <3>1. \E code \in Results : Return(code)
      BY <2>2 DEF Results
    <3> QED BY <1>0, <1>2, <2>1, <3>1, ReturnOK DEF TypeOK, files
  <2>3. CASE ~MeetsUser(user.unique_identifier, Candidate(k))
    <3>1. ~Owned(Candidate(k))
      BY <2>3 DEF FirstAttempt, EndsSearch
    <3>2. ~Exists(user.unique_identifier)
      BY <1>2, <2>3, <3>1, FreeMeansAbsent
    <3>3. /\ Stored(user) \in StoredUser
          /\ Stored(user).unique_identifier = user.unique_identifier
          /\ user.name \in Names
      BY StoredType
    <3>4. /\ pc' = "object" /\ UNCHANGED <<result, n_users, table, number, object, name>>
          /\ call' = [operation |-> "add", stored |-> Stored(user),
                      name |-> user.name, offset |-> Candidate(k)]
      BY <2>3, <1>2 DEF files
    <3>5. call' \in Calls
      BY <3>3, <3>4, <2>1 DEF Calls
    <3>6. TypeOK'
      BY <1>0, <2>1, <3>4, <3>5 DEF TypeOK
    <3>7. TableSound'
      BY <3>4 DEF TableSound
    <3>8. TableReadable' /\ n_users' < MaxUsers
      BY <1>2, <3>4 DEF TableReadable
    <3>9. \A i \in Entries' : /\ table'[i].unique_identifier # call'.stored.unique_identifier
                              /\ table'[i].object_offset # call'.offset
      <4>1. Entries' = Entries
        BY <3>4 DEF Entries
      <4>2. call'.stored.unique_identifier = user.unique_identifier
            /\ call'.offset = Candidate(k)
        BY <3>3, <3>4
      <4> QED BY <3>1, <3>2, <3>4, <4>1, <4>2 DEF Exists, Owned
    <3>10. call'.name # NoName /\ call'.operation = "add"
      BY <3>3, <3>4, NamesAssumption DEF NoName
    <3>11. CallOK'
      BY <3>4, <3>8, <3>9, <3>10
         DEF CallOK, Adding, Modifying, Deleting, Exists, Owned
    <3> QED BY <3>6, <3>7, <3>11
  <2> QED BY <2>2, <2>3
<1> QED BY <1>1, <1>2 DEF add_user, Results

\* The arguments of a call that writes a User object.
LEMMA WritingCall ==
    ASSUME call \in Calls, call.operation \in {"add", "modify"}
    PROVE  /\ call.stored \in StoredUser
           /\ call.stored.unique_identifier \in UserIds
           /\ call.offset \in Offsets
           /\ call.name \in Names \cup {NoName}
<1>1. call \in [operation : {"add", "modify"}, stored : StoredUser,
                name : Names \cup {NoName}, offset : Offsets]
  BY DEF Calls, NoCall
<1> QED BY <1>1 DEF StoredUser

LEMMA ModifyUserOK ==
    ASSUME TableInv, NEW stored \in StoredUser, NEW newName \in Names \cup {NoName},
           modify_user(stored, newName)
    PROVE  TableInv'
<1> USE DEF TableInv
<1> DEFINE uid == stored.unique_identifier
           offset == table[IndexOf(uid)].object_offset
<1>0. pc = "idle" /\ n_users \in 0 .. MaxUsers /\ UNCHANGED <<files, ram>>
  BY InUse DEF modify_user
<1>1. CASE \E code \in Results : Return(code)
  BY <1>0, <1>1, ReturnOK DEF TypeOK, files, ram
<1>2. CASE /\ TableReadable /\ Exists(uid)
           /\ pc' = "object"
           /\ call' = [operation |-> "modify", stored |-> stored,
                       name |-> newName, offset |-> offset]
           /\ UNCHANGED result
  <2>1. IndexOf(uid) \in Entries /\ table[IndexOf(uid)].unique_identifier = uid
    BY <1>2, IndexOfFound
  <2>2. table[IndexOf(uid)] \in Descriptor
    BY <1>0, <1>2, <2>1, ReadableEntries
  <2>3. offset \in Offsets
        /\ table[IndexOf(uid)] = [unique_identifier |-> uid, object_offset |-> offset]
    BY <2>1, <2>2 DEF Descriptor
  <2> HIDE DEF offset
  <2>4. call' \in Calls
    BY <1>2, <2>3 DEF Calls
  <2>5. TypeOK'
    BY <1>0, <1>2, <2>4 DEF TypeOK, files, ram
  <2>6. TableSound'
    BY <1>0 DEF TableSound, files
  <2>7. TableReadable' /\ Entries' = Entries /\ table' = table
    BY <1>0, <1>2 DEF TableReadable, Entries, files, ram
  <2>8. \E i \in Entries' :
          /\ TableReadable'
          /\ table'[i] = [unique_identifier |-> call'.stored.unique_identifier,
                          object_offset |-> call'.offset]
    BY <1>2, <2>1, <2>3, <2>7
  <2>9. CallOK'
    BY <1>2, <2>8 DEF CallOK, Adding, Modifying, Deleting
  <2> QED BY <2>5, <2>6, <2>9
<1> QED BY <1>1, <1>2 DEF modify_user, Results

LEMMA ModifyUserObjectOK ==
    ASSUME TableInv, NEW uid \in UserIds, NEW data \in Data,
           modify_user_object(uid, data)
    PROVE  TableInv'
<1> DEFINE offset == table[IndexOf(uid)].object_offset
           stored == [object[offset] EXCEPT !.data = data]
<1>1. /\ TableReadable /\ Exists(uid) /\ object[offset] # NoObject
      /\ modify_user(stored, NoName)
  BY DEF modify_user_object
<1>2. pc = "idle" /\ TypeOK
  BY <1>1 DEF modify_user, TableInv
<1>3. offset \in Offsets
  BY <1>1, <1>2, IndexOfFound, ReadableEntries, DescriptorType
<1>4. object[offset] \in StoredUser
  BY <1>1, <1>2, <1>3 DEF TypeOK
<1> HIDE DEF offset
<1>5. stored \in StoredUser
  BY <1>4 DEF StoredUser
<1> HIDE DEF stored
<1> QED BY <1>1, <1>5, ModifyUserOK

LEMMA DeleteUserOK ==
    ASSUME TableInv, NEW uid \in UserIds, delete_user(uid)
    PROVE  TableInv'
<1> USE DEF TableInv
<1>0. pc = "idle" /\ n_users \in 0 .. MaxUsers /\ UNCHANGED <<files, ram>>
  BY InUse DEF delete_user
<1>1. CASE \E code \in Results : Return(code)
  BY <1>0, <1>1, ReturnOK DEF TypeOK, files, ram
<1>2. CASE /\ TableReadable /\ Exists(uid)
           /\ pc' = "table"
           /\ call' = [operation |-> "delete", index |-> IndexOf(uid), uid |-> uid]
           /\ UNCHANGED result
  <2>1. IndexOf(uid) \in Entries
    BY <1>2, IndexOfFound
  <2>2. IndexOf(uid) \in 1 .. MaxUsers
    BY <1>0, <2>1, BoundsAssumption DEF Entries
  <2>3. call' \in Calls
    BY <1>2, <2>2 DEF Calls
  <2>4. TypeOK'
    BY <1>0, <1>2, <2>3 DEF TypeOK, files, ram
  <2>5. TableSound'
    BY <1>0 DEF TableSound, files
  <2>6. TableReadable' /\ Entries' = Entries
    BY <1>0, <1>2 DEF TableReadable, Entries, files, ram
  <2>7. CallOK'
    BY <1>2, <2>1, <2>6 DEF CallOK, Adding, Modifying, Deleting
  <2> QED BY <2>4, <2>5, <2>7
<1> QED BY <1>1, <1>2 DEF delete_user, Results

(***************************************************************************)
(* A step from one write of the object to the next keeps the table, the     *)
(* count and the locals, so what the locals say stays true.                 *)
(***************************************************************************)
LEMMA NextWriteOK ==
    ASSUME TableInv, pc \in {"object", "name"},
           UNCHANGED <<n_users, users_buffer_head, number, table, call, result>>,
           object' \in [Offsets -> StoredUser \cup {NoObject}],
           name' \in [Offsets -> Names \cup {NoName}],
           \/ pc' = "name"
           \/ pc' = "table" /\ call.operation = "add"
    PROVE  TableInv'
<1> USE DEF TableInv
<1>1. TypeOK'
  BY DEF TypeOK
<1>2. TableSound'
  BY DEF TableSound
<1>3. Entries' = Entries /\ (TableReadable' <=> TableReadable) /\ table' = table
      /\ n_users' = n_users /\ call' = call
  BY DEF Entries, TableReadable
<1>4. CASE call.operation = "add"
  <2>1. Adding
    BY <1>4 DEF Adding
  <2>2. /\ n_users < MaxUsers /\ TableReadable
        /\ ~Exists(call.stored.unique_identifier)
        /\ ~Owned(call.offset)
        /\ call.name # NoName
    BY <2>1 DEF CallOK
  <2> QED BY <1>1, <1>2, <1>3, <1>4, <2>2
          DEF CallOK, Adding, Modifying, Deleting, Exists, Owned
<1>5. CASE call.operation = "modify"
  <2>1. Modifying
    BY <1>5 DEF Modifying
  <2>2. \E i \in Entries :
          /\ TableReadable
          /\ table[i] = [unique_identifier |-> call.stored.unique_identifier,
                         object_offset |-> call.offset]
    BY <2>1 DEF CallOK
  <2> QED BY <1>1, <1>2, <1>3, <1>5, <2>2 DEF CallOK, Adding, Modifying, Deleting
<1> QED BY <1>4, <1>5 DEF CallOK

LEMMA WriteObjectOK ==
    ASSUME TableInv, WriteObject
    PROVE  TableInv'
<1> USE DEF TableInv
<1>0. /\ pc = "object" /\ UNCHANGED <<number, table, name, ram>>
      /\ n_users \in 0 .. MaxUsers
  BY InUse DEF WriteObject
<1>1. call.operation \in {"add", "modify"}
  BY <1>0 DEF CallOK
<1>2. call.stored \in StoredUser /\ call.offset \in Offsets
  BY <1>1, WritingCall DEF TypeOK
<1>3. object' \in [Offsets -> StoredUser \cup {NoObject}]
  BY <1>2 DEF WriteObject, TypeOK
<1>4. CASE \E code \in Results : Return(code)
  BY <1>0, <1>3, <1>4, ReturnOK DEF TypeOK, ram
<1>5. CASE pc' = "name" /\ UNCHANGED <<call, result>>
  BY <1>0, <1>3, <1>5, NextWriteOK DEF TypeOK, ram
<1> QED BY <1>4, <1>5 DEF WriteObject, Results

LEMMA WriteNameOK ==
    ASSUME TableInv, WriteName
    PROVE  TableInv'
<1> USE DEF TableInv
<1>0. /\ pc = "name" /\ UNCHANGED <<number, table, object, ram>>
      /\ n_users \in 0 .. MaxUsers
  BY InUse DEF WriteName
<1>1. call.operation \in {"add", "modify"}
  BY <1>0 DEF CallOK
<1>2. call.name \in Names \cup {NoName} /\ call.offset \in Offsets
  BY <1>1, WritingCall DEF TypeOK
<1>3. name' \in [Offsets -> Names \cup {NoName}]
  BY <1>2 DEF WriteName, TypeOK
<1>4. CASE \E code \in Results : Return(code)
  BY <1>0, <1>3, <1>4, ReturnOK DEF TypeOK, ram
<1>5. CASE pc' = "table" /\ call.operation = "add" /\ UNCHANGED <<call, result>>
  BY <1>0, <1>3, <1>5, NextWriteOK DEF TypeOK, ram
<1> QED BY <1>4, <1>5 DEF WriteName, Results

(***************************************************************************)
(* Where the table grows: the local copy is sound, the new descriptor is    *)
(* new, and zpal_nvm_write leaves the old or the new table behind.          *)
(***************************************************************************)
LEMMA WriteTableAddOK ==
    ASSUME TableInv, WriteTableAdd
    PROVE  TableInv'
<1> USE DEF TableInv
<1>0. /\ pc = "table" /\ call.operation = "add"
      /\ UNCHANGED <<number, object, name, users_buffer_head>>
      /\ n_users \in 0 .. MaxUsers
  BY InUse DEF WriteTableAdd
<1>1. CASE Return("ERROR_IO") /\ UNCHANGED <<table, n_users>>
  BY <1>0, <1>1, ReturnOK DEF TypeOK, Results
<1>2. CASE /\ \E index \in 1 .. n_users + 1 :
                /\ InsertIndex(ReadTable, call.stored.unique_identifier, index)
                /\ table' = Written(table, InsertAt(ReadTable, index, NewDescriptor),
                                    ChunkEntries)
           /\ n_users' = n_users + 1
           /\ pc' = "number"
           /\ UNCHANGED <<call, result>>
  <2>1. PICK index \in 1 .. n_users + 1 :
                /\ InsertIndex(ReadTable, call.stored.unique_identifier, index)
                /\ table' = Written(table, InsertAt(ReadTable, index, NewDescriptor),
                                    ChunkEntries)
    BY <1>2
  <2>2. /\ n_users < MaxUsers /\ TableReadable
        /\ ~Exists(call.stored.unique_identifier) /\ ~Owned(call.offset)
    BY <1>0 DEF CallOK, Adding
  <2>3. /\ ReadTable \in Seq(Descriptor) /\ Len(ReadTable) = n_users
        /\ Sorted(ReadTable) /\ OffsetsDistinct(ReadTable)
    <3>1. CASE n_users = 0
      BY <3>1 DEF ReadTable, Sorted, OffsetsDistinct
    <3>2. CASE n_users # 0
      BY <3>2, <2>2 DEF ReadTable, TableReadable, ReadSucceeds, TypeOK, TableSound
    <3> QED BY <3>1, <3>2
  <2>4. NewDescriptor \in Descriptor
    BY <1>0, WritingCall DEF TypeOK, NewDescriptor, Descriptor
  <2>5. \A i \in 1 .. Len(ReadTable) :
          /\ ReadTable[i].unique_identifier # NewDescriptor.unique_identifier
          /\ ReadTable[i].object_offset # NewDescriptor.object_offset
    <3>1. \A i \in Entries : /\ table[i].unique_identifier # call.stored.unique_identifier
                             /\ table[i].object_offset # call.offset
      BY <2>2 DEF Exists, Owned
    <3>2. \A i \in 1 .. Len(ReadTable) : i \in Entries /\ ReadTable[i] = table[i]
      BY <1>0, <2>3 DEF ReadTable, Entries
    <3> QED BY <3>1, <3>2 DEF NewDescriptor
  <2>6. /\ InsertIndex(ReadTable, NewDescriptor.unique_identifier, index)
        /\ index \in 1 .. Len(ReadTable) + 1
    BY <2>1, <2>3 DEF NewDescriptor
  <2> DEFINE new == InsertAt(ReadTable, index, NewDescriptor)
  <2>7. /\ new \in Seq(Descriptor) /\ Len(new) = n_users + 1
        /\ Sorted(new) /\ OffsetsDistinct(new)
    BY <2>3, <2>4, <2>5, <2>6, InsertSound
  <2>8. table' \in {table, new}
    BY <2>1, WrittenOldOrNew
  <2> HIDE DEF new
  <2>9. n_users' \in 0 .. MaxUsers /\ n_users' # UNSET /\ n_users' >= 1
        /\ n_users + 1 <= MaxUsers
    BY <1>0, <1>2, <2>2, BoundsAssumption DEF UNSET
  <2>10. TypeOK'
    BY <1>0, <1>2, <2>7, <2>8, <2>9 DEF TypeOK
  <2>11. TableSound'
    BY <2>7, <2>8, <2>9 DEF TableSound
  <2>12. CallOK'
    BY <1>0, <1>2, <2>9 DEF CallOK, Adding, Modifying, Deleting
  <2> QED BY <2>10, <2>11, <2>12
<1> QED BY <1>1, <1>2 DEF WriteTableAdd

LEMMA WriteTableDeleteOK ==
    ASSUME TableInv, WriteTableDelete
    PROVE  TableInv'
<1> USE DEF TableInv
<1>0. /\ pc = "table" /\ call.operation = "delete"
      /\ UNCHANGED <<number, object, name, users_buffer_head>>
      /\ n_users \in 0 .. MaxUsers
  BY InUse DEF WriteTableDelete
<1>1. CASE Return("ERROR_IO") /\ UNCHANGED <<table, n_users>>
  BY <1>0, <1>1, ReturnOK DEF TypeOK, Results
<1>2. CASE /\ table' = IF n_users = 1 THEN table
                       ELSE Written(table, Without(table, call.index), ChunkEntries)
           /\ n_users' = n_users - 1
           /\ pc' = "number"
           /\ UNCHANGED <<call, result>>
  <2>1. TableReadable /\ call.index \in Entries
    BY <1>0 DEF CallOK, Deleting
  <2>2. n_users = Len(table) /\ call.index \in 1 .. Len(table)
    BY <1>0, <2>1, ReadableEntries
  <2> DEFINE new == Without(table, call.index)
  <2>3. /\ new \in Seq(Descriptor) /\ Len(new) = Len(table) - 1
        /\ Sorted(new) /\ OffsetsDistinct(new)
    BY <2>2, RemoveSound DEF TypeOK, TableSound
  <2>4. table' \in {table, new}
    BY <1>2, WrittenOldOrNew
  <2> HIDE DEF new
  <2>5. n_users' \in 0 .. MaxUsers /\ n_users' # UNSET
    <3>1. n_users >= 1
      BY <1>0, <2>1 DEF Entries
    <3> QED BY <1>0, <1>2, <3>1, BoundsAssumption DEF UNSET
  <2>6. TypeOK'
    BY <1>0, <1>2, <2>3, <2>4, <2>5 DEF TypeOK
  <2>7. TableSound'
    BY <1>0, <2>2, <2>3, <2>4, BoundsAssumption DEF TableSound
  <2>8. CallOK'
    BY <1>0, <1>2 DEF CallOK, Adding, Modifying, Deleting
  <2> QED BY <2>6, <2>7, <2>8
<1> QED BY <1>1, <1>2 DEF WriteTableDelete

LEMMA WriteNumberOK ==
    ASSUME TableInv, WriteNumber
    PROVE  TableInv'
<1> USE DEF TableInv
<1>0. /\ pc = "number" /\ UNCHANGED <<table, object, name>>
      /\ n_users \in 0 .. MaxUsers
  BY InUse DEF WriteNumber
<1>1. \E code \in Results : Return(code)
  BY DEF WriteNumber, Results
<1>2. n_users' \in 0 .. MaxUsers
  <2>1. call.operation = "add" => n_users >= 1
    BY <1>0 DEF CallOK
  <2> QED BY <1>0, <2>1, BoundsAssumption DEF WriteNumber
<1>3. number' \in 0 .. MaxUsers \cup {UNSET}
  BY <1>0 DEF WriteNumber, TypeOK
<1>4. users_buffer_head' \in Offsets
  BY BoundsAssumption DEF WriteNumber, TypeOK, Offsets
<1> QED BY <1>0, <1>1, <1>2, <1>3, <1>4, ReturnOK DEF TypeOK

LEMMA FactoryResetOK ==
    ASSUME TableInv, factory_reset, Return("none")
    PROVE  TableInv'
<1>1. n_users' \in 0 .. MaxUsers /\ users_buffer_head' \in Offsets
  BY BoundsAssumption DEF factory_reset, Offsets
<1>2. number' \in 0 .. MaxUsers \cup {UNSET}
  BY BoundsAssumption DEF factory_reset, TableInv, TypeOK
<1> QED BY <1>1, <1>2, ReturnOK DEF factory_reset, TableInv, TypeOK, Results

LEMMA InitDatabaseOK ==
    ASSUME TableInv, init_database
    PROVE  TableInv'
<1>1. CASE factory_reset
  BY <1>1, FactoryResetOK DEF init_database
<1>2. CASE ~factory_reset
  <2>1. n_users' \in 0 .. MaxUsers /\ users_buffer_head' \in Offsets
    BY <1>2, BoundsAssumption DEF init_database, TableInv, TypeOK, Offsets
  <2> QED BY <1>2, <2>1, ReturnOK DEF init_database, files, TableInv, TypeOK, Results
<1> QED BY <1>1, <1>2

LEMMA PowerLossOK ==
    ASSUME TableInv, PowerLoss
    PROVE  TableInv'
<1>1. users_buffer_head' \in Offsets
  BY BoundsAssumption DEF PowerLoss, Offsets
<1>2. TypeOK'
  BY <1>1 DEF PowerLoss, files, TableInv, TypeOK, Calls, Results
<1>3. TableSound'
  BY DEF PowerLoss, files, TableInv, TableSound
<1>4. CallOK'
  BY DEF PowerLoss, CallOK, Adding, Modifying, Deleting
<1> QED BY <1>2, <1>3, <1>4 DEF TableInv

LEMMA StutterOK ==
    ASSUME TableInv, UNCHANGED vars
    PROVE  TableInv'
<1> USE DEF vars, TableInv
<1>1. TypeOK'
  BY DEF TypeOK
<1>2. TableSound'
  BY DEF TableSound
<1>3. CallOK'
  BY DEF CallOK, Adding, Modifying, Deleting, TableReadable, Entries, Exists, Owned
<1> QED BY <1>1, <1>2, <1>3

\* Every step keeps the table sound and the locals of the operation under way fresh.
LEMMA TableInvStep == TableInv /\ [Next]_vars => TableInv'
<1> SUFFICES ASSUME TableInv, [Next]_vars PROVE TableInv'
  OBVIOUS
<1>1. ASSUME NEW user \in User, add_user(user) PROVE TableInv'
  BY <1>1, AddUserOK
<1>2. ASSUME NEW user \in User, modify_user(Stored(user), user.name) PROVE TableInv'
  BY <1>2, StoredType, ModifyUserOK
<1>3. ASSUME NEW uid \in UserIds, NEW data \in Data, modify_user_object(uid, data)
      PROVE  TableInv'
  BY <1>3, ModifyUserObjectOK
<1>4. ASSUME NEW uid \in UserIds, delete_user(uid) PROVE TableInv'
  BY <1>4, DeleteUserOK
<1>5. CASE WriteObject
  BY <1>5, WriteObjectOK
<1>6. CASE WriteName
  BY <1>6, WriteNameOK
<1>7. CASE WriteTableAdd
  BY <1>7, WriteTableAddOK
<1>8. CASE WriteTableDelete
  BY <1>8, WriteTableDeleteOK
<1>9. CASE WriteNumber
  BY <1>9, WriteNumberOK
<1>10. CASE Reset
  BY <1>10, FactoryResetOK DEF Reset
<1>11. CASE init_database
  BY <1>11, InitDatabaseOK
<1>12. CASE PowerLoss
  BY <1>12, PowerLossOK
<1>13. CASE UNCHANGED vars
  BY <1>13, StutterOK
<1> QED BY <1>1, <1>2, <1>3, <1>4, <1>5, <1>6, <1>7, <1>8, <1>9, <1>10, <1>11,
           <1>12, <1>13 DEF Next

THEOREM TableInvAlways == Spec => []TableInv
BY TableInvInit, TableInvStep, PTL DEF Spec

(***************************************************************************)
(* Type correctness, whatever fails: in particular n_users never exceeds    *)
(* max_users and users_buffer_head stays within the ring of objects.        *)
(***************************************************************************)
THEOREM TypeCorrect == Spec => []TypeOK
<1>1. TableInv => TypeOK
  BY DEF TableInv
<1> QED BY <1>1, TableInvAlways, PTL

(***************************************************************************)
(* Whatever write fails and whenever the power is lost, the table in NVM    *)
(* stays sorted, without duplicates, and shares no object.                  *)
(***************************************************************************)
THEOREM TableStaysSound == Spec => []TableSound
<1>1. TableInv => TableSound
  BY DEF TableInv
<1> QED BY <1>1, TableInvAlways, PTL

------------------------------------------------------------------------------
(* The search for an object *)

\* Fewer entries than objects: some object has no owner (the pigeonhole principle).
LEMMA FreeObject ==
    ASSUME TypeOK, n_users \in Nat, n_users < MaxUsers
    PROVE  \E offset \in Offsets : ~Owned(offset)
<1> SUFFICES ASSUME \A offset \in Offsets : Owned(offset) PROVE FALSE
  OBVIOUS
<1> DEFINE owner(o) == CHOOSE i \in Entries : table[i].object_offset = o
           f == [o \in Offsets |-> owner(o)]
<1>1. \A o \in Offsets : owner(o) \in Entries /\ table[owner(o)].object_offset = o
  BY DEF Owned
<1>2. f \in [Offsets -> Entries]
  BY <1>1
<1>3. IsFiniteSet(Entries) /\ Cardinality(Entries) = n_users
  BY FS_Interval DEF Entries
<1>4. IsFiniteSet(Offsets) /\ Cardinality(Offsets) = MaxUsers
  BY BoundsAssumption, FS_Interval DEF Offsets
<1> HIDE DEF f
<1>5. PICK o, p \in Offsets : o # p /\ f[o] = f[p]
  BY <1>2, <1>3, <1>4, FS_PigeonHole
<1>6. owner(o) = owner(p)
  BY <1>5 DEF f
<1> HIDE DEF owner
<1> QED BY <1>1, <1>5, <1>6

\* From every head the attempts reach every object.
LEMMA CandidateReaches ==
    ASSUME users_buffer_head \in Offsets, NEW offset \in Offsets
    PROVE  \E k \in Offsets : Candidate(k) = offset
<1>1. CASE offset >= users_buffer_head
  <2>1. offset - users_buffer_head \in Offsets
    BY <1>1, BoundsAssumption DEF Offsets
  <2>2. Candidate(offset - users_buffer_head) = offset
    BY <1>1, BoundsAssumption DEF Offsets, Candidate
  <2> QED BY <2>1, <2>2
<1>2. CASE offset < users_buffer_head
  <2>1. offset + MaxUsers - users_buffer_head \in Offsets
    BY <1>2, BoundsAssumption DEF Offsets
  <2>2. Candidate(offset + MaxUsers - users_buffer_head) = offset
    BY <1>2, BoundsAssumption DEF Offsets, Candidate
  <2> QED BY <2>1, <2>2
<1> QED BY <1>1, <1>2, BoundsAssumption DEF Offsets

(***************************************************************************)
(* The "impossible path" of CC_UserCredential_add_user is impossible, for   *)
(* every number of users and whatever failed before.                        *)
(***************************************************************************)
THEOREM SearchEnds == Spec => []NoImpossiblePath
<1>1. TableInv => NoImpossiblePath
  <2> SUFFICES ASSUME TableInv, pc = "idle", n_users < MaxUsers, NEW uid \in UserIds
               PROVE  \E k \in Offsets : EndsSearch(uid, k)
    BY DEF NoImpossiblePath
  <2>1. TypeOK /\ n_users \in Nat /\ users_buffer_head \in Offsets
    BY InUse DEF TableInv, TypeOK
  <2>2. PICK offset \in Offsets : ~Owned(offset)
    BY <2>1, FreeObject
  <2>3. PICK k \in Offsets : Candidate(k) = offset
    BY <2>1, CandidateReaches
  <2> QED BY <2>2, <2>3 DEF EndsSearch
<1> QED BY <1>1, TableInvAlways, PTL

------------------------------------------------------------------------------
(* No user is written over another one *)

LEMMA OwnInvInit == Init => OwnInv
<1> SUFFICES ASSUME Init PROVE OwnInv
  OBVIOUS
<1>1. OwnTable
  BY DEF Init, OwnTable
<1> QED BY <1>1 DEF Init, OwnInv, OwnObjects, Adding

\* Steps that write no table, object or number.
LEMMA OwnKept ==
    ASSUME OwnInv, UNCHANGED <<n_users, number, table, object>>,
           pc \notin {"off", "number"}, pc' \notin {"off", "number"},
           Adding' /\ pc' # "object" => Adding /\ pc # "object" /\ call' = call
    PROVE  OwnInv'
<1>1. OwnTable' <=> OwnTable
  BY DEF OwnTable
<1> QED BY <1>1 DEF OwnInv, OwnObjects, Count

LEMMA AddUserOwn ==
    ASSUME OwnInv, NEW user \in User, add_user(user)
    PROVE  OwnInv'
<1>1. UNCHANGED <<n_users, number, table, object>> /\ pc = "idle"
  BY DEF add_user, files, ram
<1>2. pc' \in {"idle", "object"}
  BY DEF add_user, Return
<1> QED BY <1>1, <1>2, OwnKept DEF Adding

LEMMA ModifyUserOwn ==
    ASSUME OwnInv, NEW stored, NEW newName, modify_user(stored, newName)
    PROVE  OwnInv'
<1>1. UNCHANGED <<n_users, number, table, object>> /\ pc = "idle"
  BY DEF modify_user, files, ram
<1>2. pc' \in {"idle", "object"}
  BY DEF modify_user, Return
<1> QED BY <1>1, <1>2, OwnKept DEF Adding

LEMMA DeleteUserOwn ==
    ASSUME OwnInv, NEW uid \in UserIds, delete_user(uid)
    PROVE  OwnInv'
<1>1. UNCHANGED <<n_users, number, table, object>> /\ pc = "idle"
  BY DEF delete_user, files, ram
<1>2. pc' = "idle" \/ (pc' = "table" /\ call'.operation = "delete")
  BY DEF delete_user, Return
<1> QED BY <1>1, <1>2, OwnKept DEF Adding

(***************************************************************************)
(* The write of an object: add_user writes one nobody owns, modify_user     *)
(* the one of its own user, because the locals are not stale (CallOK).      *)
(***************************************************************************)
LEMMA WriteObjectOwn ==
    ASSUME TableInv, OwnInv, WriteObject
    PROVE  OwnInv'
<1>0. /\ pc = "object" /\ UNCHANGED <<number, table, n_users>>
      /\ n_users \in Nat /\ TypeOK /\ CallOK
  BY InUse DEF WriteObject, ram, TableInv
<1>1. CASE UNCHANGED object /\ Return("ERROR_IO")
  BY <1>0, <1>1, OwnKept DEF Return, Adding
<1>2. CASE /\ object' = [object EXCEPT ![call.offset] = call.stored]
           /\ \/ Return("SUCCESS")
              \/ pc' = "name" /\ UNCHANGED call
  <2>1. /\ call.operation \in {"add", "modify"} /\ call.offset \in Offsets
        /\ object'[call.offset] = call.stored
    <3>1. call.operation \in {"add", "modify"}
      BY <1>0 DEF CallOK
    <3>2. call.offset \in Offsets
      BY <1>0, <3>1, WritingCall DEF TypeOK
    <3> QED BY <1>0, <1>2, <3>1, <3>2 DEF TypeOK
  <2>2. TableReadable
    <3>1. Adding \/ Modifying
      BY <1>0, <2>1 DEF Adding, Modifying
    <3> QED BY <1>0, <3>1 DEF CallOK
  <2>3. \A i \in 1 .. Len(table) : table[i] \in Descriptor
    BY <1>0, ElementOfSeq DEF TypeOK
  <2>4. ASSUME n_users = Len(table), OwnTable PROVE OwnTable'
    <3> SUFFICES ASSUME NEW i \in 1 .. Len(table)
                 PROVE  object'[table[i].object_offset].unique_identifier
                          = table[i].unique_identifier
      BY <1>0 DEF OwnTable
    <3>1. object[table[i].object_offset].unique_identifier = table[i].unique_identifier
      BY <2>4 DEF OwnTable
    <3>2. i \in Entries /\ table[i].object_offset \in Offsets
      BY <2>3, <2>4, DescriptorType DEF Entries
    <3>3. CASE table[i].object_offset # call.offset
      BY <1>0, <1>2, <3>1, <3>2, <3>3 DEF TypeOK
    <3>4. CASE table[i].object_offset = call.offset
      <4>1. ~Adding
        BY <1>0, <3>2, <3>4 DEF CallOK, Owned
      <4>2. Modifying
        BY <1>0, <2>1, <4>1 DEF Adding, Modifying
      <4>3. PICK j \in Entries :
              table[j] = [unique_identifier |-> call.stored.unique_identifier,
                          object_offset |-> call.offset]
        BY <1>0, <4>2 DEF CallOK
      <4>4. i = j
        BY <2>4, <3>2, <3>4, <4>3 DEF TableInv, TableSound, OffsetsDistinct, Entries
      <4>5. table[i].unique_identifier = call.stored.unique_identifier
        BY <4>3, <4>4
      <4> QED BY <2>1, <3>4, <4>5
    <3> QED BY <3>3, <3>4
  <2>5. OwnObjects'
    BY <1>0, <1>2, <2>4 DEF OwnInv, OwnObjects, Count, Return
  <2>6. "io" \notin Faults => /\ number' = Len(table') => OwnTable'
                              /\ number' = n_users'
    BY <1>0, <2>4 DEF OwnInv
  <2>7. Adding' /\ pc' # "object" =>
          object'[call'.offset].unique_identifier = call'.stored.unique_identifier
    BY <1>2, <2>1 DEF Adding, Return
  <2> QED BY <1>2, <2>5, <2>6, <2>7 DEF OwnInv, Return
<1> QED BY <1>1, <1>2 DEF WriteObject

LEMMA WriteNameOwn ==
    ASSUME TableInv, OwnInv, WriteName
    PROVE  OwnInv'
<1>1. UNCHANGED <<n_users, number, table, object>> /\ pc = "name"
  BY DEF WriteName, ram
<1>2. pc' = "idle" \/ (pc' = "table" /\ call' = call)
  BY DEF WriteName, Return
<1> QED BY <1>1, <1>2, OwnKept DEF Adding

\* zpal_nvm_write never mistakes a table that has grown for the stored one.
LEMMA GrownTableIsWritten ==
    ASSUME TypeOK, TableReadable, n_users \in Nat,
           NEW new \in Seq(Descriptor), Len(new) = n_users + 1
    PROVE  Written(table, new, ChunkEntries) = new
<1> SUFFICES ASSUME MatchesStored(table, new, ChunkEntries) PROVE table = new
  BY DEF Written
<1>1. Len(new) <= Len(table) /\ new = SubSeq(table, 1, Len(new))
  BY DEF MatchesStored, IsPrefix
<1>2. table \in Seq(Descriptor) /\ Len(table) \in Nat
  BY LenProperties DEF TypeOK
<1>3. n_users = 0
  BY <1>1, <1>2 DEF TableReadable, ReadSucceeds
<1>4. Len(table) = Len(new)
  BY <1>3, BoundsAssumption DEF MatchesStored
<1>5. SubSeq(table, 1, Len(table)) = table
  BY <1>2, SubSeqFull
<1> QED BY <1>1, <1>4, <1>5

\* Inserting adds the one entry and keeps the others.
LEMMA InsertedEntries ==
    ASSUME NEW t \in Seq(Descriptor), NEW d \in Descriptor, NEW index \in 1 .. Len(t) + 1
    PROVE  LET r == InsertAt(t, index, d)
           IN  /\ r \in Seq(Descriptor) /\ Len(r) = Len(t) + 1
               /\ \A j \in 1 .. Len(r) : r[j] = d \/ \E i \in 1 .. Len(t) : r[j] = t[i]
<1> DEFINE r == InsertAt(t, index, d)
<1>1. /\ r \in Seq(Descriptor) /\ Len(r) = Len(t) + 1
      /\ \A j \in 1 .. Len(t) + 1 :
           r[j] = IF j < index THEN t[j] ELSE IF j = index THEN d ELSE t[j - 1]
  <2>1. r \in Seq(Descriptor) /\ Len(r) = Len(t) + 1
    BY InsertAtType
  <2>2. \A j \in 1 .. Len(t) + 1 :
          r[j] = IF j < index THEN t[j] ELSE IF j = index THEN d ELSE t[j - 1]
    BY InsertAtEntry
  <2> QED BY <2>1, <2>2
<1>2. Len(t) \in Nat
  BY LenProperties
<1> HIDE DEF r
<1>3. ASSUME NEW j \in 1 .. Len(r) PROVE r[j] = d \/ \E i \in 1 .. Len(t) : r[j] = t[i]
  <2>1. CASE j < index
    BY <1>1, <1>2, <2>1
  <2>2. CASE j = index
    BY <1>1, <1>2, <2>2
  <2>3. CASE j > index
    <3>1. j - 1 \in 1 .. Len(t) /\ r[j] = t[j - 1]
      BY <1>1, <1>2, <2>3
    <3> QED BY <3>1
  <2> QED BY <1>1, <1>2, <2>1, <2>2, <2>3
<1> QED BY <1>1, <1>3 DEF r

LEMMA WriteTableAddOwn ==
    ASSUME TableInv, OwnInv, WriteTableAdd
    PROVE  OwnInv'
<1>0. /\ pc = "table" /\ call.operation = "add"
      /\ UNCHANGED <<number, object>>
      /\ n_users \in Nat /\ TypeOK /\ CallOK
  BY InUse DEF WriteTableAdd, TableInv
<1>1. CASE Return("ERROR_IO") /\ UNCHANGED <<table, n_users>>
  BY <1>0, <1>1, OwnKept DEF Return, Adding
<1>2. CASE /\ \E index \in 1 .. n_users + 1 :
                /\ InsertIndex(ReadTable, call.stored.unique_identifier, index)
                /\ table' = Written(table, InsertAt(ReadTable, index, NewDescriptor),
                                    ChunkEntries)
           /\ n_users' = n_users + 1
           /\ pc' = "number"
           /\ UNCHANGED <<call, result>>
  <2>1. PICK index \in 1 .. n_users + 1 :
          table' = Written(table, InsertAt(ReadTable, index, NewDescriptor), ChunkEntries)
    BY <1>2
  <2>2. TableReadable
    BY <1>0 DEF CallOK, Adding
  <2>3. ReadTable \in Seq(Descriptor) /\ Len(ReadTable) = n_users
    BY <1>0, <2>2 DEF ReadTable, TableReadable, ReadSucceeds, TypeOK
  <2>4. NewDescriptor \in Descriptor
    BY <1>0, WritingCall DEF TypeOK, NewDescriptor, Descriptor
  <2> DEFINE new == InsertAt(ReadTable, index, NewDescriptor)
  <2>5. /\ new \in Seq(Descriptor) /\ Len(new) = n_users + 1
        /\ \A j \in 1 .. Len(new) :
             new[j] = NewDescriptor \/ \E i \in 1 .. n_users : new[j] = ReadTable[i]
    <3>1. index \in 1 .. Len(ReadTable) + 1
      BY <2>3
    <3> QED BY <2>3, <2>4, <3>1, InsertedEntries
  <2> HIDE DEF new
  <2>6. table' = new
    <3>1. table' = Written(table, new, ChunkEntries)
      BY <2>1 DEF new
    <3>2. Written(table, new, ChunkEntries) = new
      BY <1>0, <2>2, <2>5, GrownTableIsWritten
    <3> QED BY <3>1, <3>2
  <2>7. \A i \in 1 .. n_users :
          object[ReadTable[i].object_offset].unique_identifier
            = ReadTable[i].unique_identifier
    <3>1. CASE n_users = 0
      BY <3>1
    <3>2. CASE n_users # 0
      <4>1. n_users = Len(table) /\ ReadTable = table
        BY <2>2, <3>2 DEF TableReadable, ReadSucceeds, ReadTable
      <4>2. OwnTable
        BY <1>0, <4>1 DEF OwnInv, OwnObjects, Count
      <4> QED BY <4>1, <4>2 DEF OwnTable
    <3> QED BY <3>1, <3>2
  <2>8. object[NewDescriptor.object_offset].unique_identifier
          = NewDescriptor.unique_identifier
    <3>1. object[call.offset].unique_identifier = call.stored.unique_identifier
      BY <1>0 DEF OwnInv, Adding
    <3> QED BY <3>1 DEF NewDescriptor
  <2>9. OwnTable'
    <3> SUFFICES ASSUME NEW j \in 1 .. Len(new)
                 PROVE  object[new[j].object_offset].unique_identifier
                          = new[j].unique_identifier
      BY <1>0, <2>6 DEF OwnTable
    <3>1. CASE new[j] = NewDescriptor
      BY <2>8, <3>1
    <3>2. CASE \E i \in 1 .. n_users : new[j] = ReadTable[i]
      BY <2>7, <3>2
    <3> QED BY <2>5, <3>1, <3>2
  <2>10. n_users' = Len(table')
    BY <1>2, <2>5, <2>6
  <2> QED BY <1>2, <2>9, <2>10 DEF OwnInv, OwnObjects, Adding
<1> QED BY <1>1, <1>2 DEF WriteTableAdd

LEMMA WriteTableDeleteOwn ==
    ASSUME TableInv, OwnInv, WriteTableDelete
    PROVE  OwnInv'
<1>0. /\ pc = "table" /\ call.operation = "delete"
      /\ UNCHANGED <<number, object>>
      /\ n_users \in Nat /\ TypeOK /\ CallOK
  BY InUse DEF WriteTableDelete, TableInv
<1>1. CASE Return("ERROR_IO") /\ UNCHANGED <<table, n_users>>
  BY <1>0, <1>1, OwnKept DEF Return, Adding
<1>2. CASE /\ table' = IF n_users = 1 THEN table
                       ELSE Written(table, Without(table, call.index), ChunkEntries)
           /\ pc' = "number"
           /\ UNCHANGED <<call, result>>
  <2>1. n_users = Len(table) /\ call.index \in 1 .. Len(table)
    BY <1>0, ReadableEntries DEF CallOK, Deleting
  <2>2. OwnTable
    BY <1>0, <2>1 DEF OwnInv, OwnObjects, Count
  <2> DEFINE new == Without(table, call.index)
  <2>3. /\ Len(new) = Len(table) - 1
        /\ \A j \in 1 .. Len(table) - 1 :
             new[j] = IF j < call.index THEN table[j] ELSE table[j + 1]
    BY <1>0, <2>1, RemoveAtProperties DEF Without, TypeOK
  <2>4. table' \in {table, new}
    BY <1>2, WrittenOldOrNew
  <2> HIDE DEF new
  <2>5. ASSUME NEW j \in 1 .. Len(new)
        PROVE  object[new[j].object_offset].unique_identifier = new[j].unique_identifier
    <3>1. \E i \in 1 .. Len(table) : new[j] = table[i]
      BY <1>0, <2>1, <2>3
    <3> QED BY <2>2, <3>1 DEF OwnTable
  <2>6. OwnTable'
    BY <1>0, <2>2, <2>4, <2>5 DEF OwnTable
  <2> QED BY <1>0, <1>2, <2>6 DEF OwnInv, OwnObjects, Adding
<1> QED BY <1>1, <1>2 DEF WriteTableDelete

\* A failing write of the number happens only when no power is lost, and vice versa.
LEMMA WriteNumberOwn ==
    ASSUME TableInv, OwnInv, WriteNumber
    PROVE  OwnInv'
<1>0. /\ pc = "number" /\ pc' = "idle" /\ call' = NoCall
      /\ UNCHANGED <<table, object>> /\ n_users \in Nat
  BY InUse DEF WriteNumber, Return, TableInv
<1>1. OwnTable' <=> OwnTable
  BY <1>0 DEF OwnTable
<1>2. CASE number' = n_users /\ UNCHANGED n_users
  BY <1>0, <1>1, <1>2 DEF OwnInv, OwnObjects, Count, Adding
<1>3. CASE /\ WriteFails
           /\ n_users' = IF call.operation = "add" THEN n_users - 1 ELSE n_users
  <2>1. "io" \in Faults
    BY <1>3 DEF WriteFails
  <2>2. n_users' = Len(table') => OwnTable'
    <3>1. CASE call.operation = "add"
      BY <1>0, <1>3, <3>1 DEF OwnInv
    <3>2. CASE call.operation # "add"
      BY <1>0, <1>1, <1>3, <3>2 DEF OwnInv, OwnObjects, Count
    <3> QED BY <3>1, <3>2
  <2> QED BY <1>0, <2>1, <2>2 DEF OwnInv, OwnObjects, Count, Adding
<1> QED BY <1>2, <1>3 DEF WriteNumber

LEMMA FactoryResetOwn ==
    ASSUME TableInv, OwnInv, factory_reset, Return("none")
    PROVE  OwnInv'
<1>1. 0 = Len(table') => OwnTable'
  BY DEF OwnTable
<1>2. n_users' = 0 /\ pc' = "idle" /\ (number' = 0 \/ "io" \in Faults)
  BY DEF factory_reset, WriteFails, Return
<1> QED BY <1>1, <1>2 DEF OwnInv, OwnObjects, Count, Adding

LEMMA InitDatabaseOwn ==
    ASSUME TableInv, OwnInv, init_database
    PROVE  OwnInv'
<1>1. CASE factory_reset
  BY <1>1, FactoryResetOwn DEF init_database
<1>2. CASE ~factory_reset
  <2>1. /\ pc = "off" /\ pc' = "idle" /\ n_users' = number
        /\ UNCHANGED <<number, table, object>>
    BY <1>2 DEF init_database, Return, files
  <2>2. OwnTable' <=> OwnTable
    BY <2>1 DEF OwnTable
  <2> QED BY <2>1, <2>2 DEF OwnInv, OwnObjects, Count, Adding
<1> QED BY <1>1, <1>2

LEMMA PowerLossOwn ==
    ASSUME ~({"io", "power"} \subseteq Faults), OwnInv, PowerLoss
    PROVE  OwnInv'
<1>1. /\ pc' = "off" /\ UNCHANGED <<number, table, object>>
      /\ "power" \in Faults /\ "io" \notin Faults
  BY DEF PowerLoss, files
<1>2. OwnTable' <=> OwnTable
  BY <1>1 DEF OwnTable
<1> QED BY <1>1, <1>2 DEF OwnInv, OwnObjects, Count, Adding

LEMMA OwnInvStep ==
    ASSUME ~({"io", "power"} \subseteq Faults)
    PROVE  TableInv /\ OwnInv /\ [Next]_vars => OwnInv'
<1> SUFFICES ASSUME TableInv, OwnInv, [Next]_vars PROVE OwnInv'
  OBVIOUS
<1>1. ASSUME NEW user \in User, add_user(user) PROVE OwnInv'
  BY <1>1, AddUserOwn
<1>2. ASSUME NEW stored, NEW newName, modify_user(stored, newName) PROVE OwnInv'
  BY <1>2, ModifyUserOwn
<1>3. ASSUME NEW uid \in UserIds, NEW data \in Data, modify_user_object(uid, data)
      PROVE  OwnInv'
  BY <1>3, <1>2 DEF modify_user_object
<1>4. ASSUME NEW uid \in UserIds, delete_user(uid) PROVE OwnInv'
  BY <1>4, DeleteUserOwn
<1>5. CASE WriteObject
  BY <1>5, WriteObjectOwn
<1>6. CASE WriteName
  BY <1>6, WriteNameOwn
<1>7. CASE WriteTableAdd
  BY <1>7, WriteTableAddOwn
<1>8. CASE WriteTableDelete
  BY <1>8, WriteTableDeleteOwn
<1>9. CASE WriteNumber
  BY <1>9, WriteNumberOwn
<1>10. CASE Reset
  BY <1>10, FactoryResetOwn DEF Reset
<1>11. CASE init_database
  BY <1>11, InitDatabaseOwn
<1>12. CASE PowerLoss
  BY <1>12, PowerLossOwn
<1>13. CASE UNCHANGED vars
  BY <1>13 DEF vars, OwnInv, OwnObjects, OwnTable, Count, Adding
<1> QED BY <1>1, <1>2, <1>3, <1>4, <1>5, <1>6, <1>7, <1>8, <1>9, <1>10, <1>11,
           <1>12, <1>13 DEF Next

(***************************************************************************)
(* When only one kind of fault occurs, failing writes or power losses, no   *)
(* user is ever written over another one.  The assumption is needed: when   *)
(* factory_reset fails to write the number, new users take objects that the *)
(* old table still names, and a restart brings that table back.             *)
(***************************************************************************)
THEOREM ObjectsStayOwn ==
    ASSUME ~({"io", "power"} \subseteq Faults)
    PROVE  Spec => []OwnObjects
<1>1. OwnInv => OwnObjects
  BY DEF OwnInv
<1> QED BY <1>1, OwnInvInit, OwnInvStep, TableInvAlways, PTL DEF Spec

------------------------------------------------------------------------------
(* The walk over the users *)

\* Entry j + 1 is the least of those behind entry j, because the table is ordered.
LEMMA NextIsLeast ==
    ASSUME TableInv, n_users = Len(table), NEW j \in 0 .. n_users, NEW uid \in Nat,
           \A i \in Entries : i <= j <=> table[i].unique_identifier <= uid
    PROVE  LET later == {u \in UserIds : Exists(u) /\ u > uid}
           IN  /\ j = n_users => later = {}
               /\ j < n_users => /\ table[j + 1].unique_identifier \in later
                                 /\ \A u \in later : table[j + 1].unique_identifier <= u
<1> DEFINE later == {u \in UserIds : Exists(u) /\ u > uid}
<1>1. n_users \in Nat /\ table \in Seq(Descriptor) /\ Sorted(table)
  BY LenProperties DEF TableInv, TypeOK, TableSound
<1>2. \A i \in Entries : /\ i \in Nat
                         /\ table[i].unique_identifier \in UserIds
                         /\ table[i].unique_identifier \in Nat
  <2> SUFFICES ASSUME NEW i \in Entries PROVE table[i] \in Descriptor /\ i \in Nat
    BY IdsAssumption DEF Descriptor
  <2> QED BY <1>1, ElementOfSeq DEF Entries
<1>3. ASSUME NEW u \in later
      PROVE  \E i \in Entries : table[i].unique_identifier = u /\ i > j
  <2>1. PICK i \in Entries : table[i].unique_identifier = u
    BY DEF Exists
  <2>2. ~(table[i].unique_identifier <= uid)
    BY <1>2, <2>1
  <2> QED BY <1>1, <1>2, <2>1, <2>2
<1>4. ASSUME j = n_users PROVE later = {}
  BY <1>1, <1>3, <1>4 DEF Entries
<1>5. ASSUME j < n_users
      PROVE  /\ table[j + 1].unique_identifier \in later
             /\ \A u \in later : table[j + 1].unique_identifier <= u
  <2>1. j + 1 \in Entries /\ ~(j + 1 <= j)
    BY <1>1, <1>5 DEF Entries
  <2>2. table[j + 1].unique_identifier > uid
    BY <1>2, <2>1
  <2>3. table[j + 1].unique_identifier \in later
    BY <1>2, <2>1, <2>2 DEF Exists
  <2>4. ASSUME NEW u \in later PROVE table[j + 1].unique_identifier <= u
    <3>1. PICK i \in Entries : table[i].unique_identifier = u /\ i > j
      BY <1>3
    <3>2. i = j + 1 \/ j + 1 < i
      BY <1>1, <1>2, <3>1
    <3>3. i = j + 1 \/ table[j + 1].unique_identifier < table[i].unique_identifier
      BY <1>1, <2>1, <3>1, <3>2 DEF Sorted, Entries
    <3> QED BY <1>2, <2>1, <3>1, <3>3
  <2> QED BY <2>3, <2>4
<1> QED BY <1>4, <1>5

(***************************************************************************)
(* Whatever fails, get_next_user walks over the stored users in ascending   *)
(* order, meets each of them once and ends, for every number of users.      *)
(***************************************************************************)
THEOREM WalkStaysInOrder == Spec => []WalkInOrder
<1>1. TableInv => WalkInOrder
  <2> SUFFICES ASSUME TableInv, pc = "idle", TableReadable,
                      NEW uid \in {0} \cup {u \in UserIds : Exists(u)}
               PROVE  LET later == {u \in UserIds : Exists(u) /\ u > uid}
                      IN  IF later = {} THEN get_next_user(uid) = 0
                          ELSE /\ get_next_user(uid) \in later
                               /\ \A u \in later : get_next_user(uid) <= u
    BY DEF WalkInOrder
  <2> DEFINE later == {u \in UserIds : Exists(u) /\ u > uid}
  <2>1. n_users \in Nat /\ uid \in Nat /\ TypeOK
    BY InUse, IdsAssumption DEF TableInv
  <2>2. CASE n_users = 0
    <3>1. later = {}
      BY <2>2 DEF Exists, Entries
    <3> QED BY <2>2, <3>1 DEF get_next_user
  <2>3. CASE n_users # 0
    <3>1. n_users = Len(table) /\ Sorted(table)
      BY <2>3 DEF TableReadable, ReadSucceeds, TableInv, TableSound
    <3>2. \A i \in Entries : /\ i \in Nat
                             /\ table[i].unique_identifier \in Nat
                             /\ table[i].unique_identifier > 0
      <4> SUFFICES ASSUME NEW i \in Entries PROVE table[i] \in Descriptor /\ i \in Nat
        BY IdsAssumption DEF Descriptor
      <4> QED BY <2>1, <3>1, ElementOfSeq DEF Entries, TypeOK
    <3>3. CASE uid = 0
      <4>1. \A i \in Entries : i <= 0 <=> table[i].unique_identifier <= uid
        BY <3>2, <3>3 DEF Entries
      <4>2. /\ table[1].unique_identifier \in later
            /\ \A u \in later : table[1].unique_identifier <= u
        <5>1. 0 \in 0 .. n_users /\ 0 < n_users /\ 0 + 1 = 1
          BY <2>1, <2>3
        <5> HIDE DEF later
        <5> QED BY <2>1, <3>1, <4>1, <5>1, NextIsLeast DEF later
      <4>3. get_next_user(uid) = table[1].unique_identifier
        BY <2>3, <3>3 DEF get_next_user
      <4> QED BY <4>2, <4>3
    <3>4. CASE uid # 0
      <4>1. Exists(uid)
        BY <3>4
      <4>2. PICK j \in Entries : j = IndexOf(uid) /\ table[j].unique_identifier = uid
        BY <4>1, IndexOfFound
      <4>3. \A i \in Entries : i <= j <=> table[i].unique_identifier <= uid
        <5> SUFFICES ASSUME NEW i \in Entries
                     PROVE  i <= j <=> table[i].unique_identifier <= uid
          OBVIOUS
        <5>1. i = j \/ i < j \/ j < i
          BY <3>2
        <5>2. i < j => table[i].unique_identifier < uid
          BY <3>1, <4>2 DEF Sorted, Entries
        <5>3. j < i => uid < table[i].unique_identifier
          BY <3>1, <4>2 DEF Sorted, Entries
        <5> QED BY <2>1, <3>2, <4>2, <5>1, <5>2, <5>3
      <4>4. j \in 0 .. n_users
        BY <2>1 DEF Entries
      <4>5. /\ j = n_users => later = {}
            /\ j < n_users => /\ table[j + 1].unique_identifier \in later
                              /\ \A u \in later : table[j + 1].unique_identifier <= u
        BY <2>1, <3>1, <4>3, <4>4, NextIsLeast
      <4>6. get_next_user(uid) = IF j < n_users THEN table[j + 1].unique_identifier ELSE 0
        BY <2>3, <3>4, <4>1, <4>2 DEF get_next_user
      <4> HIDE DEF later
      <4>7. j = n_users \/ j < n_users
        BY <2>1, <4>4
      <4>8. IF later = {} THEN get_next_user(uid) = 0
            ELSE /\ get_next_user(uid) \in later
                 /\ \A u \in later : get_next_user(uid) <= u
        BY <4>5, <4>6, <4>7, <2>1
      <4> QED BY <4>8 DEF later
    <3> QED BY <3>3, <3>4
  <2> QED BY <2>2, <2>3
<1> QED BY <1>1, TableInvAlways, PTL

------------------------------------------------------------------------------
(* Between the last two writes *)

(***************************************************************************)
(* The faults under which the database keeps the users apart: writes fail,  *)
(* or the power is lost while every table fits the compare buffer (5 users  *)
(* in this application, 16 descriptors in the buffer).                      *)
(***************************************************************************)
OneKindOfFault == "power" \in Faults => "io" \notin Faults /\ MaxUsers <= ChunkEntries

\* The arguments of a deletion.
LEMMA DeletingCall ==
    ASSUME call \in Calls, call.operation = "delete"
    PROVE  call.uid \in UserIds /\ "uid" \in DOMAIN call /\ call.index \in 1 .. MaxUsers
<1>1. call \in [operation : {"delete"}, index : 1 .. MaxUsers, uid : UserIds]
  BY DEF Calls, NoCall
<1> QED BY <1>1

\* Steps that end an operation, or begin one.
LEMMA LastWriteKept ==
    ASSUME \/ pc' \in {"off", "idle", "object"}
           \/ pc' = "table" /\ call'.operation = "add"
    PROVE  LastWriteInv'
BY DEF LastWriteInv, Deleting

LEMMA DeleteUserLast ==
    ASSUME NEW uid \in UserIds, delete_user(uid)
    PROVE  LastWriteInv'
<1>1. CASE pc' = "idle"
  BY <1>1, LastWriteKept
<1>2. CASE /\ Exists(uid) /\ UNCHANGED table /\ pc' = "table"
           /\ call' = [operation |-> "delete", index |-> IndexOf(uid), uid |-> uid]
  <2>1. table'[call'.index].unique_identifier = call'.uid
    BY <1>2, IndexOfFound
  <2> QED BY <1>2, <2>1 DEF LastWriteInv
<1> QED BY <1>1, <1>2 DEF delete_user, Return, files

LEMMA WriteTableAddLast ==
    ASSUME TableInv, OwnInv, WriteTableAdd
    PROVE  LastWriteInv'
<1>0. /\ pc = "table" /\ call.operation = "add" /\ UNCHANGED number
      /\ n_users \in Nat /\ TypeOK /\ CallOK
  BY InUse DEF WriteTableAdd, TableInv
<1>1. CASE Return("ERROR_IO")
  BY <1>1, LastWriteKept DEF Return
<1>2. CASE /\ \E index \in 1 .. n_users + 1 :
                table' = Written(table, InsertAt(ReadTable, index, NewDescriptor),
                                 ChunkEntries)
           /\ n_users' = n_users + 1
           /\ pc' = "number"
           /\ UNCHANGED call
  <2>1. PICK index \in 1 .. n_users + 1 :
          table' = Written(table, InsertAt(ReadTable, index, NewDescriptor), ChunkEntries)
    BY <1>2
  <2>2. TableReadable
    BY <1>0 DEF CallOK, Adding
  <2>3. ReadTable \in Seq(Descriptor) /\ Len(ReadTable) = n_users
    BY <1>0, <2>2 DEF ReadTable, TableReadable, ReadSucceeds, TypeOK
  <2>4. NewDescriptor \in Descriptor
    BY <1>0, WritingCall DEF TypeOK, NewDescriptor, Descriptor
  <2>5. PICK new : new = InsertAt(ReadTable, index, NewDescriptor)
    OBVIOUS
  <2>6. /\ new \in Seq(Descriptor) /\ Len(new) = n_users + 1
        /\ \A j \in 1 .. Len(new) :
             new[j] = NewDescriptor \/ \E i \in 1 .. n_users : new[j] = ReadTable[i]
    <3>1. index \in 1 .. Len(ReadTable) + 1
      BY <2>3
    <3> QED BY <2>3, <2>4, <2>5, <3>1, InsertedEntries
  <2>7. table' = new
    BY <1>0, <2>1, <2>2, <2>5, <2>6, GrownTableIsWritten
  <2>8. ASSUME n_users' = 1
        PROVE  table'[1].unique_identifier = call.stored.unique_identifier
    <3>1. n_users = 0 /\ 1 \in 1 .. Len(new)
      BY <1>0, <1>2, <2>6, <2>8
    <3>2. new[1] = NewDescriptor
      BY <2>6, <3>1
    <3> QED BY <2>7, <3>2 DEF NewDescriptor
  <2>9. "io" \notin Faults => number' = n_users' - 1
    BY <1>0, <1>2 DEF OwnInv
  <2> QED BY <1>0, <1>2, <2>8, <2>9 DEF LastWriteInv, Deleting
<1> QED BY <1>1, <1>2 DEF WriteTableAdd

\* zpal_nvm_write never mistakes a shorter table for the stored one when both fit the buffer.
LEMMA ShrunkTableIsWritten ==
    ASSUME NEW new, Len(new) # Len(table), Len(new) <= ChunkEntries
    PROVE  Written(table, new, ChunkEntries) = new
BY DEF Written, MatchesStored

LEMMA WriteTableDeleteLast ==
    ASSUME OneKindOfFault, TableInv, OwnInv, LastWriteInv, WriteTableDelete
    PROVE  LastWriteInv'
<1>0. /\ pc = "table" /\ call.operation = "delete" /\ UNCHANGED number
      /\ n_users \in Nat /\ TypeOK /\ CallOK /\ Deleting
  BY InUse DEF WriteTableDelete, TableInv, Deleting
<1>1. CASE Return("ERROR_IO")
  BY <1>1, LastWriteKept DEF Return
<1>2. CASE /\ table' = IF n_users = 1 THEN table
                       ELSE Written(table, Without(table, call.index), ChunkEntries)
           /\ n_users' = n_users - 1
           /\ pc' = "number"
           /\ UNCHANGED call
  <2>1. n_users = Len(table) /\ call.index \in 1 .. Len(table)
    BY <1>0, ReadableEntries DEF CallOK
  <2>2. Len(table) <= MaxUsers /\ table \in Seq(Descriptor)
    BY <1>0 DEF TableInv, TableSound, TypeOK
  <2>3. ASSUME n_users' = 0
        PROVE  Len(table') = 1 /\ table'[1].unique_identifier = call.uid
    <3>1. n_users = 1 /\ call.index = 1 /\ table' = table
      BY <1>0, <1>2, <2>1, <2>3
    <3> QED BY <1>0, <2>1, <3>1 DEF LastWriteInv
  <2>4. ASSUME "power" \in Faults, n_users' > 0
        PROVE  n_users' = Len(table')
    <3>1. PICK new : new = Without(table, call.index)
      OBVIOUS
    <3>2. Len(new) = Len(table) - 1
      BY <2>1, <2>2, <3>1, RemoveAtProperties DEF Without
    <3>3. Len(new) <= ChunkEntries /\ Len(new) # Len(table) /\ n_users # 1
      BY <1>0, <1>2, <2>1, <2>2, <2>4, <3>2, BoundsAssumption DEF OneKindOfFault
    <3>4. table' = new
      BY <1>2, <3>1, <3>3, ShrunkTableIsWritten
    <3> QED BY <1>2, <2>1, <3>2, <3>4
  <2>5. "io" \notin Faults => number' = n_users' + 1
    BY <1>0, <1>2 DEF OwnInv
  <2> QED BY <1>0, <1>2, <2>3, <2>4, <2>5 DEF LastWriteInv, Deleting
<1> QED BY <1>1, <1>2 DEF WriteTableDelete

LEMMA LastWriteInit == Init => LastWriteInv
BY DEF Init, LastWriteInv, Deleting

LEMMA LastWriteStep ==
    ASSUME OneKindOfFault
    PROVE  TableInv /\ OwnInv /\ LastWriteInv /\ [Next]_vars => LastWriteInv'
<1> SUFFICES ASSUME TableInv, OwnInv, LastWriteInv, [Next]_vars PROVE LastWriteInv'
  OBVIOUS
<1>1. ASSUME NEW user \in User, add_user(user) PROVE LastWriteInv'
  BY <1>1, LastWriteKept DEF add_user, Return
<1>2. ASSUME NEW stored, NEW newName, modify_user(stored, newName) PROVE LastWriteInv'
  BY <1>2, LastWriteKept DEF modify_user, Return
<1>3. ASSUME NEW uid \in UserIds, NEW data \in Data, modify_user_object(uid, data)
      PROVE  LastWriteInv'
  BY <1>3, <1>2 DEF modify_user_object
<1>4. ASSUME NEW uid \in UserIds, delete_user(uid) PROVE LastWriteInv'
  BY <1>4, DeleteUserLast
<1>5. CASE WriteObject
  <2>1. pc' = "idle" \/ (pc' = "name" /\ call' = call /\ call.name # NoName)
    BY <1>5 DEF WriteObject, Return
  <2> QED BY <2>1, LastWriteKept DEF LastWriteInv, Deleting
<1>6. CASE WriteName
  BY <1>6, LastWriteKept DEF WriteName, Return
<1>7. CASE WriteTableAdd
  BY <1>7, WriteTableAddLast
<1>8. CASE WriteTableDelete
  BY <1>8, WriteTableDeleteLast
<1>9. CASE WriteNumber \/ Reset \/ init_database \/ PowerLoss
  BY <1>9, LastWriteKept DEF WriteNumber, Reset, init_database, PowerLoss, Return
<1>10. CASE UNCHANGED vars
  BY <1>10 DEF vars, LastWriteInv, Deleting
<1> QED BY <1>1, <1>2, <1>3, <1>4, <1>5, <1>6, <1>7, <1>8, <1>9, <1>10 DEF Next

\* Everything the two results below rest on.
LEMMA DirectoryInvAlways ==
    ASSUME OneKindOfFault
    PROVE  Spec => [](TableInv /\ OwnInv /\ LastWriteInv)
<1>1. ~({"io", "power"} \subseteq Faults)
  BY DEF OneKindOfFault
<1>2. Spec => []OwnInv
  <2>1. TableInv /\ OwnInv /\ [Next]_vars => OwnInv'
    BY <1>1, OwnInvStep
  <2> QED BY <2>1, OwnInvInit, TableInvAlways, PTL DEF Spec
<1>3. TableInv /\ OwnInv /\ LastWriteInv /\ [Next]_vars => LastWriteInv'
  BY LastWriteStep
<1> QED BY <1>2, <1>3, LastWriteInit, TableInvAlways, PTL DEF Spec

------------------------------------------------------------------------------
(* No operation touches another user *)

\* The table in force gives the user that object.
Lists(uid, offset) ==
    /\ Count = Len(table)
    /\ \E i \in 1 .. Len(table) : /\ table[i].unique_identifier = uid
                                  /\ table[i].object_offset = offset

\* The step leaves the user's entry alone, and the files of its object.
Kept(uid) ==
    \A offset \in Offsets :
        /\ Lists(uid, offset)' <=> Lists(uid, offset)
        /\ Lists(uid, offset) => /\ object'[offset] = object[offset]
                                 /\ name'[offset] = name[offset]

\* Steps that write no file and change no count.
LEMMA SameFilesKept ==
    ASSUME UNCHANGED files, Count' = Count, NEW uid
    PROVE  Kept(uid)
BY DEF Kept, Lists, files

\* The object an operation writes is not that of another user.
LEMMA WritesOwnOffset ==
    ASSUME TableInv, pc \in {"object", "name"}, NEW uid \in UserIds, ~OnUser(uid),
           NEW offset \in Offsets, Lists(uid, offset)
    PROVE  offset # call.offset
<1> SUFFICES ASSUME offset = call.offset PROVE FALSE
  OBVIOUS
<1>1. TypeOK /\ CallOK /\ OffsetsDistinct(table)
  BY DEF TableInv, TableSound
<1>2. call.operation \in {"add", "modify"}
  BY <1>1 DEF CallOK
<1>3. "stored" \in DOMAIN call
  <2>1. call \in [operation : {"add", "modify"}, stored : StoredUser,
                  name : Names \cup {NoName}, offset : Offsets]
    BY <1>1, <1>2 DEF TypeOK, Calls, NoCall
  <2> QED BY <2>1
<1>4. n_users = Len(table) /\ Entries = 1 .. Len(table)
  BY DEF Lists, Count, Entries
<1>5. PICK i \in 1 .. Len(table) : table[i].unique_identifier = uid
                                   /\ table[i].object_offset = offset
  BY DEF Lists
<1>6. Modifying
  <2>1. ~Adding
    BY <1>1, <1>4, <1>5 DEF CallOK, Owned
  <2> QED BY <1>2, <2>1 DEF Adding, Modifying
<1>7. PICK j \in Entries :
        table[j] = [unique_identifier |-> call.stored.unique_identifier,
                    object_offset |-> call.offset]
  BY <1>1, <1>6 DEF CallOK
<1>8. i = j
  BY <1>1, <1>4, <1>5, <1>7 DEF OffsetsDistinct
<1>9. call.stored.unique_identifier = uid
  BY <1>5, <1>7, <1>8
<1> QED BY <1>3, <1>9 DEF OnUser

LEMMA WriteObjectKeeps ==
    ASSUME TableInv, WriteObject \/ WriteName, NEW uid \in UserIds, ~OnUser(uid)
    PROVE  Kept(uid)
<1>1. /\ pc \in {"object", "name"} /\ pc' # "off" /\ UNCHANGED <<table, n_users>>
      /\ object' = object \/ object' = [object EXCEPT ![call.offset] = call.stored]
      /\ name' = name \/ name' = [name EXCEPT ![call.offset] = call.name]
  BY DEF WriteObject, WriteName, Return, ram
<1>2. Count' = Count /\ \A offset : Lists(uid, offset)' <=> Lists(uid, offset)
  BY <1>1 DEF Count, Lists
<1>3. ASSUME NEW offset \in Offsets, Lists(uid, offset)
      PROVE  object'[offset] = object[offset] /\ name'[offset] = name[offset]
  <2>1. offset # call.offset
    BY <1>1, <1>3, WritesOwnOffset
  <2>2. object \in [Offsets -> StoredUser \cup {NoObject}]
        /\ name \in [Offsets -> Names \cup {NoName}]
    BY DEF TableInv, TypeOK
  <2> QED BY <1>1, <2>1, <2>2
<1> QED BY <1>2, <1>3 DEF Kept

\* Inserting keeps every old entry, one place further at most.
LEMMA InsertKeepsEntries ==
    ASSUME NEW t \in Seq(Descriptor), NEW d \in Descriptor, NEW index \in 1 .. Len(t) + 1,
           NEW i \in 1 .. Len(t)
    PROVE  LET r == InsertAt(t, index, d)
           IN  \E j \in 1 .. Len(t) + 1 : r[j] = t[i]
<1>1. PICK r : r = InsertAt(t, index, d)
  OBVIOUS
<1>2. \A j \in 1 .. Len(t) + 1 :
        r[j] = IF j < index THEN t[j] ELSE IF j = index THEN d ELSE t[j - 1]
  BY <1>1, InsertAtEntry
<1>3. Len(t) \in Nat
  BY LenProperties
<1>4. CASE i < index
  <2>1. i \in 1 .. Len(t) + 1 /\ r[i] = t[i]
    BY <1>2, <1>3, <1>4
  <2> QED BY <1>1, <2>1
<1>5. CASE ~(i < index)
  <2>1. i + 1 \in 1 .. Len(t) + 1 /\ ~(i + 1 < index) /\ i + 1 # index /\ i + 1 - 1 = i
    BY <1>3, <1>5
  <2>2. r[i + 1] = t[i]
    BY <1>2, <2>1
  <2> QED BY <1>1, <2>1, <2>2
<1> QED BY <1>4, <1>5

LEMMA WriteTableAddKeeps ==
    ASSUME TableInv, WriteTableAdd, NEW uid \in UserIds, ~OnUser(uid)
    PROVE  Kept(uid)
<1>0. /\ pc = "table" /\ call.operation = "add" /\ UNCHANGED <<object, name, number>>
      /\ n_users \in Nat /\ TypeOK /\ CallOK /\ Count = n_users
  BY InUse DEF WriteTableAdd, TableInv, Count
<1>1. CASE Return("ERROR_IO") /\ UNCHANGED <<table, n_users>>
  BY <1>0, <1>1, SameFilesKept DEF Return, files, Count
<1>2. CASE /\ \E index \in 1 .. n_users + 1 :
                table' = Written(table, InsertAt(ReadTable, index, NewDescriptor),
                                 ChunkEntries)
           /\ n_users' = n_users + 1
           /\ pc' = "number"
  <2>1. PICK index \in 1 .. n_users + 1 :
          table' = Written(table, InsertAt(ReadTable, index, NewDescriptor), ChunkEntries)
    BY <1>2
  <2>2. TableReadable
    BY <1>0 DEF CallOK, Adding
  <2>3. ReadTable \in Seq(Descriptor) /\ Len(ReadTable) = n_users
    BY <1>0, <2>2 DEF ReadTable, TableReadable, ReadSucceeds, TypeOK
  <2>4. NewDescriptor \in Descriptor
    BY <1>0, WritingCall DEF TypeOK, NewDescriptor, Descriptor
  <2>5. PICK new : new = InsertAt(ReadTable, index, NewDescriptor)
    OBVIOUS
  <2>6. index \in 1 .. Len(ReadTable) + 1
    BY <2>3
  <2>7. /\ new \in Seq(Descriptor) /\ Len(new) = n_users + 1
        /\ \A j \in 1 .. Len(new) :
             new[j] = NewDescriptor \/ \E i \in 1 .. n_users : new[j] = ReadTable[i]
    BY <2>3, <2>4, <2>5, <2>6, InsertedEntries
  <2>8. \A i \in 1 .. n_users : \E j \in 1 .. Len(new) : new[j] = ReadTable[i]
    <3> SUFFICES ASSUME NEW i \in 1 .. n_users
                 PROVE  \E j \in 1 .. Len(new) : new[j] = ReadTable[i]
      OBVIOUS
    <3>1. i \in 1 .. Len(ReadTable) /\ Len(new) = Len(ReadTable) + 1
      BY <2>3, <2>7
    <3> QED BY <2>3, <2>4, <2>5, <2>6, <3>1, InsertKeepsEntries
  <2>9. table' = new /\ Count' = Len(table')
    <3>1. table' = new
      BY <1>0, <2>1, <2>2, <2>5, <2>7, GrownTableIsWritten
    <3> QED BY <1>2, <2>7, <3>1 DEF Count
  <2>10. NewDescriptor.unique_identifier # uid
    <3>1. call \in [operation : {"add", "modify"}, stored : StoredUser,
                    name : Names \cup {NoName}, offset : Offsets]
      BY <1>0 DEF TypeOK, Calls, NoCall
    <3>2. "stored" \in DOMAIN call
      BY <3>1
    <3> QED BY <3>2 DEF OnUser, NewDescriptor
  <2>11. ASSUME NEW offset \in Offsets
         PROVE  Lists(uid, offset)' <=> Lists(uid, offset)
    <3>1. Lists(uid, offset)' <=>
            \E j \in 1 .. Len(new) : /\ new[j].unique_identifier = uid
                                     /\ new[j].object_offset = offset
      BY <2>9 DEF Lists
    <3>2. Lists(uid, offset) <=>
            \E i \in 1 .. n_users : /\ ReadTable[i].unique_identifier = uid
                                    /\ ReadTable[i].object_offset = offset
      <4>1. CASE n_users = 0
        BY <1>0, <4>1 DEF Lists
      <4>2. CASE n_users # 0
        <5>1. n_users = Len(table) /\ ReadTable = table
          BY <2>2, <4>2 DEF TableReadable, ReadSucceeds, ReadTable
        <5> QED BY <1>0, <5>1 DEF Lists
      <4> QED BY <4>1, <4>2
    <3> QED BY <2>7, <2>8, <2>10, <3>1, <3>2
  <2> QED BY <1>0, <2>11 DEF Kept
<1> QED BY <1>1, <1>2 DEF WriteTableAdd

LEMMA WriteTableDeleteKeeps ==
    ASSUME TableInv, LastWriteInv, WriteTableDelete, NEW uid \in UserIds, ~OnUser(uid),
           Count' \in {0, Len(table')}
    PROVE  Kept(uid)
<1>0. /\ pc = "table" /\ call.operation = "delete" /\ UNCHANGED <<object, name, number>>
      /\ n_users \in Nat /\ TypeOK /\ CallOK /\ Deleting /\ Count = n_users
  BY InUse DEF WriteTableDelete, TableInv, Deleting, Count
<1>1. CASE Return("ERROR_IO") /\ UNCHANGED <<table, n_users>>
  BY <1>0, <1>1, SameFilesKept DEF Return, files, Count
<1>2. CASE /\ table' = IF n_users = 1 THEN table
                       ELSE Written(table, Without(table, call.index), ChunkEntries)
           /\ n_users' = n_users - 1
           /\ pc' = "number"
  <2>1. n_users = Len(table) /\ call.index \in 1 .. Len(table)
    BY <1>0, ReadableEntries DEF CallOK
  <2>2. table[call.index].unique_identifier # uid
    BY <1>0, DeletingCall DEF TypeOK, LastWriteInv, OnUser
  <2>3. Count' = n_users - 1
    BY <1>2 DEF Count
  <2>4. CASE n_users = 1
    <3>1. table' = table /\ Count' # Len(table')
      <4>1. table' = table
        BY <1>2, <2>4
      <4>2. Count' = 0 /\ Len(table) = 1
        BY <2>1, <2>3, <2>4
      <4> QED BY <4>1, <4>2
    <3>2. \A offset : ~Lists(uid, offset)'
      BY <3>1 DEF Lists
    <3>3. \A i \in 1 .. Len(table) : i = call.index
      BY <2>1, <2>4
    <3>4. \A offset : ~Lists(uid, offset)
      BY <2>2, <3>3 DEF Lists
    <3> QED BY <3>2, <3>4 DEF Kept
  <2>5. CASE n_users # 1
    <3>1. PICK new : new = Without(table, call.index)
      OBVIOUS
    <3>2. /\ Len(new) = Len(table) - 1
          /\ \A j \in 1 .. Len(table) - 1 :
               new[j] = IF j < call.index THEN table[j] ELSE table[j + 1]
      BY <1>0, <2>1, <3>1, RemoveAtProperties DEF Without, TypeOK
    <3>3. table' = new /\ Count' = Len(new)
      <4>1. table' \in {table, new}
        BY <1>2, <2>5, <3>1, WrittenOldOrNew
      <4>2. Count' # 0 /\ Count' # Len(table)
        BY <1>0, <2>1, <2>3, <2>5
      <4> QED BY <4>1, <4>2, <3>2, <2>1, <2>3
    <3>4. \A j \in 1 .. Len(new) : \E i \in 1 .. Len(table) : new[j] = table[i]
      BY <1>0, <2>1, <3>2
    <3>5. ASSUME NEW i \in 1 .. Len(table), i # call.index
          PROVE  \E j \in 1 .. Len(new) : new[j] = table[i]
      <4>1. CASE i < call.index
        BY <1>0, <2>1, <3>2, <4>1
      <4>2. CASE i > call.index
        <5>1. i - 1 \in 1 .. Len(new) /\ new[i - 1] = table[i]
          BY <1>0, <2>1, <3>2, <4>2
        <5> QED BY <5>1
      <4> QED BY <1>0, <2>1, <3>5, <4>1, <4>2
    <3>6. ASSUME NEW offset \in Offsets
          PROVE  Lists(uid, offset)' <=> Lists(uid, offset)
      <4>1. Lists(uid, offset)' <=>
              \E j \in 1 .. Len(new) : /\ new[j].unique_identifier = uid
                                       /\ new[j].object_offset = offset
        BY <3>3 DEF Lists
      <4>2. Lists(uid, offset) <=>
              \E i \in 1 .. Len(table) : /\ table[i].unique_identifier = uid
                                         /\ table[i].object_offset = offset
        BY <1>0, <2>1 DEF Lists
      <4>3. ASSUME Lists(uid, offset)' PROVE Lists(uid, offset)
        BY <3>4, <4>1, <4>2, <4>3
      <4>4. ASSUME Lists(uid, offset) PROVE Lists(uid, offset)'
        <5>1. PICK i \in 1 .. Len(table) : /\ table[i].unique_identifier = uid
                                           /\ table[i].object_offset = offset
          BY <4>2, <4>4
        <5>2. PICK j \in 1 .. Len(new) : new[j] = table[i]
          BY <2>2, <3>5, <5>1
        <5> QED BY <4>1, <5>1, <5>2
      <4> QED BY <4>3, <4>4
    <3> QED BY <1>0, <3>6 DEF Kept
  <2> QED BY <2>4, <2>5
<1> QED BY <1>1, <1>2 DEF WriteTableDelete

\* A table whose only entry is another user's lists no one else.
LEMMA SingleEntry ==
    ASSUME NEW uid, Len(table) = 1, table[1].unique_identifier # uid
    PROVE  \A offset : ~Lists(uid, offset)
<1>1. \A i \in 1 .. Len(table) : i = 1
  OBVIOUS
<1> QED BY <1>1 DEF Lists

\* The user of the operation under way.
LEMMA OnAddedUser ==
    ASSUME call \in Calls, call.operation = "add", NEW uid, ~OnUser(uid)
    PROVE  call.stored.unique_identifier # uid
<1>1. call \in [operation : {"add", "modify"}, stored : StoredUser,
                name : Names \cup {NoName}, offset : Offsets]
  BY DEF Calls, NoCall
<1>2. "stored" \in DOMAIN call
  BY <1>1
<1> QED BY <1>2 DEF OnUser

LEMMA OnDeletedUser ==
    ASSUME call \in Calls, call.operation = "delete", NEW uid, ~OnUser(uid)
    PROVE  call.uid # uid
BY DeletingCall DEF OnUser

LEMMA WriteNumberKeeps ==
    ASSUME TableInv, OwnInv, LastWriteInv, WriteNumber, NEW uid \in UserIds, ~OnUser(uid),
           Count' \in {0, Len(table')}
    PROVE  Kept(uid)
<1>0. /\ pc = "number" /\ pc' = "idle" /\ UNCHANGED <<table, object, name>>
      /\ n_users \in Nat /\ TypeOK /\ CallOK /\ call \in Calls
      /\ Count = n_users /\ Count' = n_users'
  BY InUse DEF WriteNumber, Return, TableInv, TypeOK, Count
<1>1. CASE n_users' = n_users
  BY <1>0, <1>1 DEF Kept, Lists
<1>2. CASE call.operation = "add" /\ n_users' = n_users - 1
  <2>1. n_users = Len(table) /\ n_users >= 1
    BY <1>0, <1>2 DEF OwnInv, CallOK
  <2>2. n_users = 1
    BY <1>0, <1>2, <2>1
  <2>3. table[1].unique_identifier # uid /\ Len(table) = 1
    BY <1>0, <1>2, <2>1, <2>2, OnAddedUser DEF LastWriteInv
  <2>4. \A offset : ~Lists(uid, offset)
    BY <2>3, SingleEntry
  <2>5. \A offset : ~Lists(uid, offset)'
    <3>1. Count' # Len(table')
      BY <1>0, <1>2, <2>1, <2>2
    <3> QED BY <3>1 DEF Lists
  <2> QED BY <2>4, <2>5 DEF Kept
<1> QED BY <1>1, <1>2 DEF WriteNumber

LEMMA InitDatabaseKeeps ==
    ASSUME OneKindOfFault, TableInv, OwnInv, init_database, NEW uid \in UserIds
    PROVE  Kept(uid)
<1>0. /\ pc = "off" /\ pc' = "idle" /\ UNCHANGED <<table, object, name>>
      /\ Count = number /\ Count' = n_users'
  BY DEF init_database, factory_reset, Return, Count, files
<1>1. CASE n_users' = number
  BY <1>0, <1>1 DEF Kept, Lists
<1>2. CASE n_users' = 0 /\ (number = UNSET \/ WriteFails)
  <2>1. number = UNSET
    BY <1>0, <1>2 DEF OwnInv, OneKindOfFault, WriteFails
  <2>2. Len(table) # UNSET
    <3>1. Len(table) \in Nat /\ Len(table) <= MaxUsers
      BY LenProperties DEF TableInv, TableSound, TypeOK
    <3>2. \A size \in Nat : size <= MaxUsers => size # UNSET
      BY BoundsAssumption DEF UNSET
    <3> QED BY <3>1, <3>2, Zenon
  <2>3. \A offset : ~Lists(uid, offset)
    <3>1. Count # Len(table)
      BY <1>0, <2>1, <2>2
    <3> QED BY <3>1 DEF Lists
  <2>4. \A offset : ~Lists(uid, offset)'
    BY <1>0, <1>2 DEF Lists
  <2> QED BY <2>3, <2>4 DEF Kept
<1> QED BY <1>1, <1>2 DEF init_database, factory_reset

LEMMA PowerLossKeeps ==
    ASSUME OneKindOfFault, TableInv, OwnInv, LastWriteInv, PowerLoss,
           NEW uid \in UserIds, ~OnUser(uid), Count' \in {0, Len(table')}
    PROVE  Kept(uid)
<1>0. /\ pc # "off" /\ pc' = "off" /\ UNCHANGED files
      /\ "io" \notin Faults /\ "power" \in Faults
      /\ n_users \in Nat /\ call \in Calls /\ CallOK
      /\ Count = n_users /\ Count' = number
  BY InUse DEF PowerLoss, OneKindOfFault, TableInv, TypeOK, Count, files
<1>1. CASE pc # "number"
  <2>1. Count' = Count
    BY <1>0, <1>1 DEF OwnInv
  <2> QED BY <1>0, <2>1, SameFilesKept
<1>2. CASE pc = "number" /\ call.operation = "add"
  <2>1. n_users = Len(table) /\ number = n_users - 1
    BY <1>0, <1>2 DEF OwnInv, LastWriteInv
  <2>2. n_users = 1
    BY <1>0, <2>1 DEF files
  <2>3. table[1].unique_identifier # uid /\ Len(table) = 1
    BY <1>0, <1>2, <2>1, <2>2, OnAddedUser DEF LastWriteInv
  <2>4. \A offset : ~Lists(uid, offset)
    BY <2>3, SingleEntry
  <2>5. \A offset : ~Lists(uid, offset)'
    <3>1. Count' # Len(table')
      BY <1>0, <2>1, <2>2 DEF files
    <3> QED BY <3>1 DEF Lists
  <2> QED BY <2>4, <2>5 DEF Kept
<1>3. CASE pc = "number" /\ call.operation = "delete"
  <2>1. /\ n_users = 0 => Len(table) = 1 /\ table[1].unique_identifier = call.uid
        /\ number = n_users + 1
        /\ n_users > 0 => n_users = Len(table)
    BY <1>0, <1>3 DEF LastWriteInv
  <2>2. n_users = 0
    BY <1>0, <2>1 DEF files
  <2>3. table[1].unique_identifier # uid /\ Len(table) = 1
    BY <1>0, <1>3, <2>1, <2>2, OnDeletedUser
  <2>4. \A offset : ~Lists(uid, offset)
    BY <2>3, SingleEntry
  <2>5. table' = table /\ \A i \in 1 .. Len(table) : i = 1
    BY <1>0, <2>3 DEF files
  <2>6. \A offset : ~Lists(uid, offset)'
    BY <2>3, <2>5 DEF Lists
  <2> QED BY <2>4, <2>6 DEF Kept
<1> QED BY <1>0, <1>1, <1>2, <1>3 DEF CallOK

(***************************************************************************)
(* A step that leaves the table readable, or counts it as empty without a   *)
(* reset, keeps every user but that of the operation under way.             *)
(***************************************************************************)
LEMMA StepKeeps ==
    ASSUME OneKindOfFault, TableInv, OwnInv, LastWriteInv, [Next]_vars, ~Reset,
           NEW uid \in UserIds, ~OnUser(uid), Count' \in {0, Len(table')}
    PROVE  Kept(uid)
<1>1. ASSUME NEW user \in User, add_user(user) PROVE Kept(uid)
  BY <1>1, SameFilesKept DEF add_user, Return, Count, ram
<1>2. ASSUME NEW stored, NEW newName, modify_user(stored, newName) PROVE Kept(uid)
  BY <1>2, SameFilesKept DEF modify_user, Return, Count, ram
<1>3. ASSUME NEW u \in UserIds, NEW data \in Data, modify_user_object(u, data)
      PROVE  Kept(uid)
  BY <1>3, <1>2 DEF modify_user_object
<1>4. ASSUME NEW u \in UserIds, delete_user(u) PROVE Kept(uid)
  BY <1>4, SameFilesKept DEF delete_user, Return, Count, ram
<1>5. CASE WriteObject \/ WriteName
  BY <1>5, WriteObjectKeeps
<1>6. CASE WriteTableAdd
  BY <1>6, WriteTableAddKeeps
<1>7. CASE WriteTableDelete
  BY <1>7, WriteTableDeleteKeeps
<1>8. CASE WriteNumber
  BY <1>8, WriteNumberKeeps
<1>9. CASE init_database
  BY <1>9, InitDatabaseKeeps
<1>10. CASE PowerLoss
  BY <1>10, PowerLossKeeps
<1>11. CASE UNCHANGED vars
  BY <1>11, SameFilesKept DEF vars, files, Count
<1> QED BY <1>1, <1>2, <1>3, <1>4, <1>5, <1>6, <1>7, <1>8, <1>9, <1>10, <1>11 DEF Next

\* An ordered table lists a user once, so its entry decides what a look-up returns.
LEMMA ListedOnce ==
    ASSUME TypeOK, Sorted(table), NEW i \in 1 .. Len(table), NEW j \in 1 .. Len(table),
           table[i].unique_identifier = table[j].unique_identifier
    PROVE  i = j
<1>1. \A k \in 1 .. Len(table) : table[k].unique_identifier \in Nat
  BY ElementOfSeq, DescriptorType DEF TypeOK
<1>2. Len(table) \in Nat
  BY LenProperties DEF TypeOK
<1>3. ~(i < j) /\ ~(j < i)
  BY <1>1 DEF Sorted
<1> QED BY <1>2, <1>3

(***************************************************************************)
(* What a look-up and the view of the callers make of an entry, and of its  *)
(* absence.                                                                 *)
(***************************************************************************)
DecidedByEntry ==
    TypeOK /\ Sorted(table) =>
      \A uid \in UserIds :
        /\ \A offset \in Offsets :
             Lists(uid, offset) => /\ Lookup(uid) = object[offset]
                                   /\ DirectoryView[uid] = SeenAs(uid, offset)
        /\ (\A offset \in Offsets : ~Lists(uid, offset)) =>
             Lookup(uid) = NoObject /\ DirectoryView[uid] = NoUser

LEMMA EntryDecides == DecidedByEntry
<1> SUFFICES ASSUME TypeOK, Sorted(table), NEW uid \in UserIds
             PROVE  /\ \A offset \in Offsets :
                         Lists(uid, offset) => /\ Lookup(uid) = object[offset]
                                               /\ DirectoryView[uid] = SeenAs(uid, offset)
                    /\ (\A offset \in Offsets : ~Lists(uid, offset)) =>
                         Lookup(uid) = NoObject /\ DirectoryView[uid] = NoUser
  BY DEF DecidedByEntry
<1>1. ASSUME NEW offset \in Offsets, Lists(uid, offset)
      PROVE  Lookup(uid) = object[offset] /\ DirectoryView[uid] = SeenAs(uid, offset)
  <2>1. PICK i \in 1 .. Len(table) : table[i].unique_identifier = uid
                                     /\ table[i].object_offset = offset
    BY <1>1 DEF Lists
  <2>2. Count = Len(table) /\ Len(table) \in Nat
    BY <1>1, LenProperties DEF Lists, TypeOK
  <2>3. Count # 0
    BY <2>1, <2>2
  <2>4. \A k \in 1 .. Count : table[k].unique_identifier = uid => k = i
    BY <2>1, <2>2, ListedOnce
  <2>5. PICK k : k = CHOOSE c \in 1 .. Count : table[c].unique_identifier = uid
    OBVIOUS
  <2>6. k \in 1 .. Count /\ table[k].unique_identifier = uid
    BY <2>1, <2>2, <2>5
  <2>7. k = i
    BY <2>4, <2>6
  <2>8. Lookup(uid) = object[offset]
    BY <2>1, <2>2, <2>3, <2>5, <2>7 DEF Lookup
  <2>9. DirectoryView[uid] = SeenAs(uid, offset)
    BY <2>1, <2>2, <2>5, <2>7 DEF DirectoryView
  <2> QED BY <2>8, <2>9
<1>2. ASSUME \A offset \in Offsets : ~Lists(uid, offset)
      PROVE  Lookup(uid) = NoObject /\ DirectoryView[uid] = NoUser
  <2>1. ASSUME Count = Len(table), NEW i \in 1 .. Count, table[i].unique_identifier = uid
        PROVE  FALSE
    <3>1. table[i].object_offset \in Offsets
      BY <2>1, ElementOfSeq, DescriptorType DEF TypeOK
    <3> QED BY <1>2, <2>1, <3>1 DEF Lists
  <2> QED BY <2>1 DEF Lookup, DirectoryView
<1> QED BY <1>1, <1>2

LEMMA EntryDecidesNext == DecidedByEntry'
BY EntryDecides, PTL

(***************************************************************************)
(* As long as one kind of fault occurs, no step of an operation changes,    *)
(* hides or invents another user than its own, for every number of users.   *)
(* Both hypotheses are needed.  A restart after a reset whose write failed  *)
(* brings old users back; and a table too long for the compare buffer that  *)
(* lost its last entry is not written, so a power loss before the number is *)
(* written makes it readable again.                                         *)
(***************************************************************************)
THEOREM OtherUsersUntouched ==
    ASSUME OneKindOfFault
    PROVE  Spec => OthersUntouched
<1> DEFINE Step == \A uid \in UserIds :
                     \/ Reset
                     \/ OnUser(uid)
                     \/ Lookup(uid)' = Lookup(uid)
                     \/ Count' \notin {0, Len(table')}
<1>1. TableInv /\ OwnInv /\ LastWriteInv /\ TableInv' /\ [Next]_vars => Step
  <2> SUFFICES ASSUME TableInv, OwnInv, LastWriteInv, TableInv', [Next]_vars, ~Reset,
                      NEW uid \in UserIds, ~OnUser(uid), Count' \in {0, Len(table')}
               PROVE  Lookup(uid)' = Lookup(uid)
    OBVIOUS
  <2>1. TypeOK /\ Sorted(table) /\ TypeOK' /\ Sorted(table)'
    BY DEF TableInv, TableSound
  <2>2. \A offset \in Offsets :
          /\ Lists(uid, offset)' <=> Lists(uid, offset)
          /\ Lists(uid, offset) => object'[offset] = object[offset]
    BY StepKeeps DEF Kept
  <2>3. CASE \E offset \in Offsets : Lists(uid, offset)
    <3>1. PICK offset \in Offsets : Lists(uid, offset)
      BY <2>3
    <3>2. Lookup(uid) = object[offset]
      BY <2>1, <3>1, EntryDecides DEF DecidedByEntry
    <3>3. Lookup(uid)' = object'[offset]
      BY <2>1, <2>2, <3>1, EntryDecidesNext DEF DecidedByEntry
    <3> QED BY <2>2, <3>1, <3>2, <3>3
  <2>4. CASE \A offset \in Offsets : ~Lists(uid, offset)
    <3>1. Lookup(uid) = NoObject
      BY <2>1, <2>4, EntryDecides DEF DecidedByEntry
    <3>2. Lookup(uid)' = NoObject
      BY <2>1, <2>2, <2>4, EntryDecidesNext DEF DecidedByEntry, NoObject
    <3> QED BY <3>1, <3>2
  <2> QED BY <2>3, <2>4
<1>2. Spec => [](TableInv /\ OwnInv /\ LastWriteInv)
  BY DirectoryInvAlways
<1> QED BY <1>1, <1>2, PTL DEF Spec, OthersUntouched

------------------------------------------------------------------------------
(* The database implements the dictionary *)

\* What callers see of a user is a user with its identifier, or none.
LEMMA ViewType ==
    ASSUME TableInv, OwnInv, LastWriteInv, NEW uid \in UserIds
    PROVE  DirectoryView[uid] \in UsersOf(uid) \cup {NoUser}
<1>1. TypeOK /\ Sorted(table)
  BY DEF TableInv, TableSound
<1>2. CASE \A offset \in Offsets : ~Lists(uid, offset)
  BY <1>1, <1>2, EntryDecides DEF DecidedByEntry
<1>3. CASE \E offset \in Offsets : Lists(uid, offset)
  <2>1. PICK offset \in Offsets : Lists(uid, offset)
    BY <1>3
  <2>2. DirectoryView[uid] = SeenAs(uid, offset)
    BY <1>1, <2>1, EntryDecides DEF DecidedByEntry
  <2>3. object[offset].unique_identifier = uid
    BY <2>1 DEF Lists, OwnInv, OwnObjects, OwnTable
  <2>4. CASE pc = "name" /\ call.operation = "modify" /\ OnUser(uid)
    <3>1. call.stored \in StoredUser /\ call.name \in Names
      BY <1>1, <2>4, WritingCall DEF TypeOK, LastWriteInv
    <3>2. call.stored.data \in Data
      BY <3>1 DEF StoredUser
    <3>3. SeenAs(uid, offset)
            = [unique_identifier |-> uid, data |-> call.stored.data, name |-> call.name]
      BY <2>4 DEF SeenAs
    <3> QED BY <2>2, <3>1, <3>2, <3>3 DEF UsersOf
  <2>5. CASE ~(pc = "name" /\ call.operation = "modify" /\ OnUser(uid))
    <3>1. CASE object[offset] # NoObject /\ NameReadable(offset)
      <4>1. object[offset] \in StoredUser /\ name[offset] \in Names
        BY <1>1, <3>1 DEF TypeOK, NameReadable
      <4>2. object[offset].data \in Data
        BY <4>1 DEF StoredUser
      <4>3. SeenAs(uid, offset) = [unique_identifier |-> uid,
                                   data |-> object[offset].data, name |-> name[offset]]
        BY <2>3, <2>5, <3>1 DEF SeenAs
      <4> QED BY <2>2, <4>1, <4>2, <4>3 DEF UsersOf
    <3>2. CASE ~(object[offset] # NoObject /\ NameReadable(offset))
      BY <2>2, <2>5, <3>2 DEF SeenAs
    <3> QED BY <3>1, <3>2
  <2> QED BY <2>4, <2>5
<1> QED BY <1>2, <1>3

\* An operation is about one user.
LEMMA OneUserAtATime ==
    ASSUME TypeOK, NEW u, NEW v, OnUser(u), OnUser(v)
    PROVE  u = v
<1>1. CASE call \in [operation : {"add", "modify"}, stored : StoredUser,
                     name : Names \cup {NoName}, offset : Offsets]
  <2>1. "uid" \notin DOMAIN call
    BY <1>1
  <2> QED BY <2>1 DEF OnUser
<1>2. CASE call \in [operation : {"delete"}, index : 1 .. MaxUsers, uid : UserIds]
  <2>1. "stored" \notin DOMAIN call
    BY <1>2
  <2> QED BY <2>1 DEF OnUser
<1>3. CASE call = NoCall
  <2>1. "stored" \notin DOMAIN call /\ "uid" \notin DOMAIN call
    BY <1>3 DEF NoCall
  <2> QED BY <2>1 DEF OnUser
<1> QED BY <1>1, <1>2, <1>3 DEF TypeOK, Calls

\* The name is written by the operation that wrote the object.
LEMMA NameFollowsObject ==
    ASSUME [Next]_vars, pc' = "name"
    PROVE  call' = call
BY DEF Next, vars, add_user, modify_user, modify_user_object, delete_user, WriteObject,
       WriteName, WriteTableAdd, WriteTableDelete, WriteNumber, Reset, init_database,
       PowerLoss, Return

\* What the callers see of the users an operation is not about stays.
LEMMA OthersLookTheSame ==
    ASSUME OneKindOfFault, TableInv, OwnInv, LastWriteInv, TableInv', [Next]_vars, ~Reset,
           NEW uid \in UserIds, ~OnUser(uid), Count' \in {0, Len(table')}
    PROVE  DirectoryView'[uid] = DirectoryView[uid]
<1>1. TypeOK /\ Sorted(table) /\ TypeOK' /\ Sorted(table)'
  BY DEF TableInv, TableSound
<1>2. \A offset \in Offsets :
        /\ Lists(uid, offset)' <=> Lists(uid, offset)
        /\ Lists(uid, offset) => /\ object'[offset] = object[offset]
                                 /\ name'[offset] = name[offset]
  BY StepKeeps DEF Kept
<1>3. CASE \E offset \in Offsets : Lists(uid, offset)
  <2>1. PICK offset \in Offsets : Lists(uid, offset)
    BY <1>3
  <2>2. DirectoryView[uid] = SeenAs(uid, offset)
    BY <1>1, <2>1, EntryDecides DEF DecidedByEntry
  <2>3. DirectoryView'[uid] = SeenAs(uid, offset)'
    BY <1>1, <1>2, <2>1, EntryDecidesNext DEF DecidedByEntry
  <2>4. object'[offset] = object[offset] /\ name'[offset] = name[offset]
    BY <1>2, <2>1
  <2>5. NameReadable(offset)' <=> NameReadable(offset)
    BY <2>4 DEF NameReadable
  <2>6. ~(pc' = "name" /\ call'.operation = "modify" /\ OnUser(uid)')
    BY NameFollowsObject DEF OnUser
  <2>7. SeenAs(uid, offset)' = SeenAs(uid, offset)
    BY <2>4, <2>5, <2>6 DEF SeenAs, NoObject, NoUser
  <2> QED BY <2>2, <2>3, <2>7
<1>4. CASE \A offset \in Offsets : ~Lists(uid, offset)
  <2>1. DirectoryView[uid] = NoUser
    BY <1>1, <1>4, EntryDecides DEF DecidedByEntry
  <2>2. DirectoryView'[uid] = NoUser
    BY <1>1, <1>2, <1>4, EntryDecidesNext DEF DecidedByEntry, NoUser
  <2> QED BY <2>1, <2>2
<1> QED BY <1>3, <1>4

\* Steps after which the table cannot be read, or counts as empty.
LEMMA NothingListed ==
    ASSUME TableInv', Count' \notin {Len(table')} \/ Len(table') = 0, NEW uid \in UserIds
    PROVE  DirectoryView'[uid] = NoUser
<1>1. \A offset \in Offsets : ~Lists(uid, offset)'
  BY DEF Lists
<1>2. TypeOK' /\ Sorted(table)'
  BY DEF TableInv, TableSound
<1> QED BY <1>1, <1>2, EntryDecidesNext DEF DecidedByEntry, NoUser

\* There is room for the users that are seen.
RoomForPresent ==
    TableInv => /\ IsFiniteSet(Directory!Present)
                /\ Cardinality(Directory!Present) <= MaxUsers

LEMMA PresentFit == RoomForPresent
<1> SUFFICES ASSUME TableInv
             PROVE  /\ IsFiniteSet(Directory!Present)
                    /\ Cardinality(Directory!Present) <= MaxUsers
  BY DEF RoomForPresent
<1>1. TypeOK /\ Sorted(table) /\ Len(table) \in Nat /\ Len(table) <= MaxUsers
  BY LenProperties DEF TableInv, TableSound, TypeOK
<1>2. PICK present : present = Directory!Present
  OBVIOUS
<1>3. ASSUME NEW uid \in present
      PROVE  \E i \in 1 .. Len(table) : table[i].unique_identifier = uid
  <2>1. uid \in UserIds /\ DirectoryView[uid] # NoUser
    BY <1>2 DEF Directory!Present
  <2>2. \E offset \in Offsets : Lists(uid, offset)
    BY <1>1, <2>1, EntryDecides DEF DecidedByEntry
  <2> QED BY <2>2 DEF Lists
<1> DEFINE places == {i \in 1 .. Len(table) : table[i].unique_identifier \in present}
           user == [i \in places |-> table[i].unique_identifier]
<1>4. user \in Surjection(places, present)
  BY <1>3 DEF Surjection
<1>5. IsFiniteSet(places) /\ Cardinality(places) <= Len(table)
  <2>1. /\ IsFiniteSet(1 .. Len(table)) /\ Cardinality(1 .. Len(table)) = Len(table)
        /\ places \in SUBSET (1 .. Len(table))
    BY <1>1, FS_Interval
  <2> HIDE DEF places
  <2> QED BY <2>1, FS_Subset
<1> HIDE DEF places, user
<1>6. IsFiniteSet(present) /\ Cardinality(present) <= Cardinality(places)
  BY <1>4, <1>5, FS_Surjection
<1>7. Cardinality(present) \in Nat /\ Cardinality(places) \in Nat
  BY <1>5, <1>6, FS_CardinalityType
<1> QED BY <1>1, <1>2, <1>5, <1>6, <1>7, BoundsAssumption

LEMMA PresentFitNext == RoomForPresent'
BY PresentFit, PTL

(***************************************************************************)
(* A step that changes what is seen of one user is one of the dictionary's. *)
(***************************************************************************)
LEMMA OneUserStep ==
    ASSUME TableInv', NEW id \in UserIds,
           \A uid \in UserIds \ {id} : DirectoryView'[uid] = DirectoryView[uid],
           DirectoryView'[id] \in UsersOf(id) \cup {NoUser}
    PROVE  [Directory!Next]_DirectoryView
<1>1. DirectoryView' = [DirectoryView EXCEPT ![id] = DirectoryView'[id]]
  <2>1. PICK now : now = DirectoryView
    OBVIOUS
  <2>2. PICK next : next = DirectoryView'
    OBVIOUS
  <2>3. now = [uid \in UserIds |-> now[uid]] /\ next = [uid \in UserIds |-> next[uid]]
    BY <2>1, <2>2 DEF DirectoryView
  <2>4. \A uid \in UserIds \ {id} : next[uid] = now[uid]
    BY <2>1, <2>2
  <2>5. next = [now EXCEPT ![id] = next[id]]
    BY <2>3, <2>4
  <2> QED BY <2>1, <2>2, <2>5
<1>2. CASE DirectoryView'[id] = DirectoryView[id]
  BY <1>1, <1>2 DEF DirectoryView
<1>3. CASE DirectoryView[id] # NoUser /\ DirectoryView'[id] = NoUser
  <2>1. Directory!Delete(id)
    BY <1>1, <1>3 DEF Directory!Delete, Directory!Present
  <2> QED BY <2>1 DEF Directory!Next
<1>4. CASE DirectoryView[id] # NoUser /\ DirectoryView'[id] \in UsersOf(id)
  <2>1. Directory!Modify(id)
    BY <1>1, <1>4 DEF Directory!Modify, Directory!Put, Directory!Present
  <2> QED BY <2>1 DEF Directory!Next
<1>5. CASE DirectoryView[id] = NoUser /\ DirectoryView'[id] # NoUser
  <2>1. PICK now : now = Directory!Present
    OBVIOUS
  <2>2. PICK next : next = Directory!Present'
    OBVIOUS
  <2>3. now = next \ {id} /\ id \in next /\ id \notin now
    BY <1>5, <2>1, <2>2 DEF Directory!Present, NoUser
  <2>4. IsFiniteSet(next) /\ Cardinality(next) <= MaxUsers
    BY <2>2, PresentFitNext DEF RoomForPresent
  <2>5. Cardinality(next) \in Nat /\ Cardinality(now) = Cardinality(next) - 1
    BY <2>3, <2>4, FS_RemoveElement, FS_CardinalityType
  <2>6. id \notin Directory!Present /\ Cardinality(Directory!Present) < MaxUsers
    BY <2>1, <2>3, <2>4, <2>5, BoundsAssumption
  <2>7. Directory!Add(id)
    <3>1. Directory!Cardinality(Directory!Present) = Cardinality(Directory!Present)
      BY DEF Directory!Cardinality, Cardinality
    <3> QED BY <1>1, <1>5, <2>6, <3>1 DEF Directory!Add, Directory!Put
  <2> QED BY <2>7 DEF Directory!Next
<1> QED BY <1>2, <1>3, <1>4, <1>5

LEMMA DirectoryInit == Init => Directory!Init
<1> SUFFICES ASSUME Init PROVE DirectoryView = [id \in UserIds |-> NoUser]
  BY DEF Directory!Init
<1>1. Count # Len(table)
  BY DEF Init, Count, UNSET
<1> QED BY <1>1 DEF DirectoryView

LEMMA DirectoryStep ==
    ASSUME OneKindOfFault, TableInv, OwnInv, LastWriteInv,
           TableInv', OwnInv', LastWriteInv', [Next]_vars,
           \A uid \in UserIds : DirectoryView'[uid] \in UsersOf(uid) \cup {NoUser}
    PROVE  [Directory!Next]_DirectoryView
<1>1. CASE Reset \/ Count' \notin {0, Len(table')}
  <2>1. Count' \notin {Len(table')} \/ Len(table') = 0
    <3>1. Reset => Count' = 0
      BY DEF Reset, factory_reset, Return, Count
    <3> QED BY <1>1, <3>1
  <2>2. \A uid \in UserIds : DirectoryView'[uid] = NoUser
    BY <2>1, NothingListed
  <2>3. DirectoryView' = [id \in UserIds |-> NoUser]
    BY <2>2 DEF DirectoryView
  <2> QED BY <2>3 DEF Directory!Next, Directory!Clear
<1>2. CASE ~Reset /\ Count' \in {0, Len(table')}
  <2>1. \A uid \in UserIds : ~OnUser(uid) => DirectoryView'[uid] = DirectoryView[uid]
    BY <1>2, OthersLookTheSame
  <2>2. CASE \A uid \in UserIds : ~OnUser(uid)
    <3>1. DirectoryView' = DirectoryView
      BY <2>1, <2>2 DEF DirectoryView
    <3> QED BY <3>1
  <2>3. CASE \E id \in UserIds : OnUser(id)
    <3>1. PICK id \in UserIds : OnUser(id)
      BY <2>3
    <3>2. \A uid \in UserIds \ {id} : ~OnUser(uid)
      BY <3>1, OneUserAtATime DEF TableInv
    <3>3. \A uid \in UserIds \ {id} : DirectoryView'[uid] = DirectoryView[uid]
      BY <2>1, <3>2
    <3> QED BY <3>3, OneUserStep
  <2> QED BY <2>2, <2>3
<1> QED BY <1>1, <1>2

\* What ViewType says of a state.
ViewTyped ==
    TableInv /\ OwnInv /\ LastWriteInv =>
        \A uid \in UserIds : DirectoryView[uid] \in UsersOf(uid) \cup {NoUser}

LEMMA ViewIsTyped == ViewTyped
BY ViewType DEF ViewTyped

LEMMA ViewIsTypedNext == ViewTyped'
BY ViewIsTyped, PTL

(***************************************************************************)
(* As long as one kind of fault occurs, the descriptor table, the ring of   *)
(* objects, the names and the number of users together implement the        *)
(* dictionary UserDirectory: every NVM write, failure and power loss adds,  *)
(* changes or removes one user, is invisible, or loses all users at once.   *)
(***************************************************************************)
THEOREM DatabaseImplementsDirectory ==
    ASSUME OneKindOfFault
    PROVE  Spec => ImplementsDirectory
<1>1. /\ TableInv /\ OwnInv /\ LastWriteInv /\ TableInv' /\ OwnInv' /\ LastWriteInv'
      /\ [Next]_vars
      => [Directory!Next]_DirectoryView
  <2> SUFFICES ASSUME TableInv, OwnInv, LastWriteInv, TableInv', OwnInv', LastWriteInv',
                      [Next]_vars
               PROVE  [Directory!Next]_DirectoryView
    OBVIOUS
  <2>1. \A uid \in UserIds : DirectoryView'[uid] \in UsersOf(uid) \cup {NoUser}
    BY ViewIsTypedNext DEF ViewTyped, NoUser, UsersOf
  <2> QED BY <2>1, DirectoryStep
<1>2. Spec => [](TableInv /\ OwnInv /\ LastWriteInv)
  BY DirectoryInvAlways
<1> QED BY <1>1, <1>2, DirectoryInit, PTL DEF Spec, ImplementsDirectory, Directory!Spec

==============================================================================
