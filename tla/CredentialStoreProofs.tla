------------------------- MODULE CredentialStoreProofs -------------------------
(***************************************************************************)
(* Proofs about CredentialStore, for every number of users, slots, codes   *)
(* and objects, every compare buffer and every number of faults.           *)
(*                                                                         *)
(* CoreInv is the inductive invariant that the others rest on: the types,  *)
(* the order of the stored table, metadata for every entry, and what the   *)
(* operation under way found in the table and has already written.         *)
(* NumberInv relates the number in NVM to the one in RAM.  OwnersInv and   *)
(* IntactInv speak of the entries that can be read now or after a power    *)
(* loss (Remaining): each has its user, and each has its contents unless   *)
(* it is torn.  UniqueInv says the same of codes: of those that count, and *)
(* of the one that the operation under way is about to write.              *)
(***************************************************************************)
EXTENDS CredentialStore, TableLemmas

-------------------------------------------------------------------------------
(* The inductive invariant *)

\* A table in the order of its keys, with one object for each of them.
Sound(t) ==
  \A i, j \in 1 .. Len(t) : i < j => t[i].key < t[j].key /\ t[i].object # t[j].object

\* The bulk deletion that is under way, if one is.
Loops ==
  {NoLoop} \cup
  {l \in [users : Seq(Users), filter : Types \cup {"any"}, drop : BOOLEAN,
          target : Keys \cup {0}] : l.users # <<>>}

LoopOK ==
  /\ loop \in Loops
  /\ pc = "loop" => loop # NoLoop
  /\ loop # NoLoop => \/ pc = "loop"
                      \/ pc \in {"table", "number"} /\ call.operation = "delete"

Writing == {"metadata", "data", "table", "number"}

\* The writes of each operation.
Order(p, c) ==
  /\ p = "metadata" => c.operation \in {"add", "modify", "move"}
  /\ p = "data" => /\ c.operation \in {"add", "modify"}
                   /\ c.ok \in BOOLEAN /\ (c.operation = "add" => c.ok)
  /\ p = "table" => c.operation \in {"add", "delete", "move"}
  /\ p = "number" => c.operation \in {"add", "delete"}

Arguments(c) ==
  /\ c.operation \in {"add", "modify", "move", "delete"} /\ c.key \in Keys
  /\ c.operation # "delete" => c.user \in Users /\ c.object \in Offsets
  /\ c.operation \in {"add", "modify"} => c.code \in Codes

Fields(c) ==
  {"operation", "key", "user", "object"}
    \cup (IF c.operation = "move" THEN {} ELSE {"code"}) \subseteq DOMAIN c

\* What the operation found in the table still holds when it writes.
Fresh(c) ==
  /\ TableReadable
  /\ c.operation = "add" => n_credentials < Capacity /\ ~Stored(c.key) /\ ~Owned(c.object)
  /\ c.operation # "add" => Stored(c.key)
  /\ c.operation \in {"modify", "move"} => c.object = Entry(c.key).object
  /\ c.operation = "modify" => c.user = Entry(c.key).user

Header(c) == [user |-> c.user, length |-> CodeLength[c.code]]

CallOK ==
  /\ Order(pc, call)
  /\ pc \in Writing => Arguments(call) /\ result = "none"
  /\ pc = "metadata" => Fields(call)
  /\ pc \in {"metadata", "data", "table"} => Fresh(call)
  /\ pc = "data" /\ call.ok => metadata[call.object] = Header(call)
  /\ pc \in {"table", "number"} /\ call.operation = "add" =>
       metadata[call.object] = Header(call) /\ data[call.object] = call.code
  /\ pc = "number" /\ call.operation = "add" =>
       /\ n_credentials # 0 /\ TableReadable
       /\ [key |-> call.key, user |-> call.user, object |-> call.object] \in Entries
  /\ pc = "number" /\ call.operation = "delete" =>
       /\ n_credentials < Capacity
       /\ \A e \in Entries : e.key # call.key

CoreInv ==
  /\ CredentialTypeOK
  /\ Sound(table)
  /\ \A i \in 1 .. Len(table) : metadata[table[i].object] # NoMetadata
  /\ LoopOK
  /\ CallOK

-------------------------------------------------------------------------------
(* Owners *)

\* The entries that are found with a number of m, now or after a restart.
Visible(m) == IF m = 0 \/ ReadSucceeds(table, m) THEN {table[i] : i \in 1 .. m} ELSE {}

Resetting == {"reset users", "reset number", "reset admin"}

\* The number in NVM, as long as nothing went wrong that the code cannot repair.
NumberInv ==
  spoiled = {} =>
    /\ pc \in Resetting => n_credentials = 0
    /\ pc \notin {"number", "reset users", "reset number"} => number = n_credentials
    /\ pc = "number" => IF call.operation = "add" THEN number = n_credentials - 1
                        ELSE number = n_credentials + 1

Remaining == Entries \cup IF pc = "reset number" THEN {} ELSE Visible(number)

\* The credentials of a user that is about to be deleted are all still to be targets.
TargetsLeft ==
  loop # NoLoop /\ loop.drop =>
    /\ loop.filter = "any"
    /\ \A e \in Entries : e.user = Head(loop.users) =>
         \/ loop.target # 0 /\ e.key >= loop.target
         \/ pc = "table" /\ e.key = call.key

OwnersInv ==
  spoiled = {} =>
    /\ \A e \in Remaining : e.user \in users
    /\ pc \in Writing /\ call.operation \in {"add", "move"} => call.user \in users
    /\ pc = "add default" => 1 \in users
    /\ TargetsLeft

-------------------------------------------------------------------------------
(* Contents *)

Readable(e) == data[e.object] # NoCode /\ CodeLength[data[e.object]] = metadata[e.object].length

Intact(e) ==
  /\ <<e.object, "data">> \notin torn => Readable(e)
  /\ {<<e.object, "user">>, <<e.object, "data">>} \cap torn = {}
       => metadata[e.object].user = e.user

IntactInv ==
  spoiled = {} =>
    /\ \A e \in Remaining : Intact(e)
    /\ pc = "data" => <<call.object, "data">> \in torn
    /\ pc = "table" /\ call.operation = "move" =>
         IF "ok" \in DOMAIN call
         THEN /\ <<call.object, "user">> \in torn
              /\ call.ok => metadata[call.object].user = call.user
         ELSE Entry(call.key).user = call.user

-------------------------------------------------------------------------------
(* Calls *)

\* Between operations no call is left over.
IdleInv == pc \notin Writing => call = NoCall

\* The deletion of the last credential leaves its entry in NVM until the number is written.
LastInv ==
  spoiled = {} /\ pc = "number" /\ call.operation = "delete" /\ n_credentials = 0 =>
    \A e \in Visible(number) : e.key = call.key

-------------------------------------------------------------------------------
(* Codes *)

\* As long as nothing has failed all data count; after that those that can be read do.
Known(e) == IF faults = 0 \/ Readable(e) THEN data[e.object] ELSE NoCode

\* Half-way through a modification, old data that a fault has hidden may show up again.
Exempt(e) == faults = 1 /\ pc = "data" /\ e.key = call.key

\* The only PIN that may be the admin code is the one added without validation.
NotAdmin(key, code) ==
  Type(key) = "PIN" /\ code = admin => key = 1 /\ admin = DefaultCode

\* No other credential of the type has this code.
OnlyKnown(key, code) ==
  \A f \in Remaining :
    f.key # key /\ Type(f.key) = Type(key) /\ ~Exempt(f) => Known(f) # code

UniqueInv ==
  spoiled = {} /\ faults <= 1 =>
    /\ \A e \in Remaining : ~Exempt(e) /\ Known(e) # NoCode =>
         OnlyKnown(e.key, Known(e)) /\ NotAdmin(e.key, Known(e))
    /\ pc \in Writing /\ call.operation \in {"add", "modify"} =>
         OnlyKnown(call.key, call.code) /\ NotAdmin(call.key, call.code)
    /\ pc = "add default" => Remaining = {}
    /\ faults = 0 /\ pc = "data" => call.ok
    /\ faults = 0 => \A o \in Offsets : <<o, "data">> \in torn => pc = "data" /\ o = call.object
-------------------------------------------------------------------------------
(* Tables *)

Elements(t) == {t[i] : i \in 1 .. Len(t)}

\* Keys and users are numbers, objects are offsets.
LEMMA DescriptorType ==
  ASSUME NEW d \in Descriptors
  PROVE  d.key \in Keys /\ d.key \in Nat /\ d.user \in Users /\ d.object \in Offsets
<1>1. d.key \in Keys /\ d.user \in Users /\ d.object \in Offsets
  BY DEF Descriptors
<1> QED BY <1>1 DEF Keys

LEMMA ElementType ==
  ASSUME NEW t \in Seq(Descriptors), NEW i \in 1 .. Len(t)
  PROVE  t[i] \in Descriptors /\ t[i].key \in Nat /\ Len(t) \in Nat
<1>1. t[i] \in Descriptors
  BY ElementOfSeq
<1> QED BY <1>1, DescriptorType, LenProperties

\* The memmove and the assignment of add_credential keep a table sound.
LEMMA InsertSound ==
  ASSUME NEW t \in Seq(Descriptors), Sound(t), NEW d \in Descriptors,
         NEW p \in 1 .. Len(t) + 1,
         \A i \in 1 .. Len(t) : i < p <=> t[i].key < d.key,
         \A i \in 1 .. Len(t) : t[i].key # d.key /\ t[i].object # d.object
  PROVE  LET r == InsertAt(t, p, d)
         IN  /\ r \in Seq(Descriptors) /\ Len(r) = Len(t) + 1 /\ Sound(r)
             /\ Elements(r) = Elements(t) \cup {d}
<1> DEFINE r == InsertAt(t, p, d)
           at(j) == IF j < p THEN j ELSE j - 1
<1>1. r \in Seq(Descriptors) /\ Len(r) = Len(t) + 1
  BY InsertAtType
<1>2. \A j \in 1 .. Len(t) + 1 : r[j] = IF j < p THEN t[j] ELSE IF j = p THEN d ELSE t[j - 1]
  BY InsertAtEntry
<1>3. Len(t) \in Nat /\ d.key \in Nat /\ \A i \in 1 .. Len(t) : t[i].key \in Nat
  BY LenProperties, ElementType, DescriptorType
<1> HIDE DEF r
<1>4. \A j \in 1 .. Len(r) : j # p => r[j] = t[at(j)] /\ at(j) \in 1 .. Len(t)
  BY <1>1, <1>2, <1>3
<1>5. r[p] = d /\ p \in 1 .. Len(r)
  BY <1>1, <1>2, <1>3
<1>6. ASSUME NEW i \in 1 .. Len(r), NEW j \in 1 .. Len(r), i < j
      PROVE  r[i].key < r[j].key /\ r[i].object # r[j].object
  <2>1. CASE i = p
    <3>1. r[j] = t[at(j)] /\ at(j) \in 1 .. Len(t)
      BY <1>4, <1>6, <2>1
    <3>2. ~(at(j) < p)
      BY <1>3, <1>6, <2>1
    <3> HIDE DEF at
    <3>3. ~(t[at(j)].key < d.key) /\ t[at(j)].key # d.key /\ t[at(j)].object # d.object
      BY <3>1, <3>2
    <3>4. t[at(j)].key \in Nat
      BY <1>3, <3>1
    <3>5. d.key < t[at(j)].key
      BY <1>3, <3>3, <3>4
    <3> QED BY <1>5, <2>1, <3>1, <3>3, <3>5
  <2>2. CASE j = p
    <3>1. r[i] = t[at(i)] /\ at(i) \in 1 .. Len(t) /\ at(i) < p
      BY <1>3, <1>4, <1>6, <2>2
    <3> HIDE DEF at
    <3>2. t[at(i)].key < d.key /\ t[at(i)].object # d.object
      BY <3>1
    <3> QED BY <1>5, <2>2, <3>1, <3>2
  <2>3. CASE i # p /\ j # p
    <3>1. r[i] = t[at(i)] /\ at(i) \in 1 .. Len(t) /\ r[j] = t[at(j)] /\ at(j) \in 1 .. Len(t)
      BY <1>4, <2>3
    <3>2. at(i) < at(j)
      BY <1>3, <1>6, <2>3
    <3> HIDE DEF at
    <3> QED BY <3>1, <3>2 DEF Sound
  <2> QED BY <2>1, <2>2, <2>3
<1>7. Sound(r)
  BY <1>6 DEF Sound
<1>8. Elements(r) \subseteq Elements(t) \cup {d}
  <2> SUFFICES ASSUME NEW j \in 1 .. Len(r) PROVE r[j] \in Elements(t) \cup {d}
    BY DEF Elements
  <2>1. CASE j = p
    BY <1>5, <2>1
  <2>2. CASE j # p
    <3>1. r[j] = t[at(j)] /\ at(j) \in 1 .. Len(t)
      BY <1>4, <2>2
    <3> HIDE DEF at
    <3> QED BY <3>1 DEF Elements
  <2> QED BY <2>1, <2>2
<1>9. ASSUME NEW i \in 1 .. Len(t) PROVE t[i] \in Elements(r)
  <2>1. CASE i < p
    <3>1. r[i] = t[i] /\ i \in 1 .. Len(r)
      BY <1>1, <1>2, <1>3, <2>1
    <3> QED BY <3>1 DEF Elements
  <2>2. CASE ~(i < p)
    <3>1. r[i + 1] = t[i] /\ i + 1 \in 1 .. Len(r)
      BY <1>1, <1>2, <1>3, <2>2
    <3> QED BY <3>1 DEF Elements
  <2> QED BY <2>1, <2>2
<1>10. Elements(r) = Elements(t) \cup {d}
  <2>1. d \in Elements(r)
    BY <1>5 DEF Elements
  <2>2. Elements(t) \subseteq Elements(r)
    BY <1>9 DEF Elements
  <2> QED BY <1>8, <2>1, <2>2
<1> QED BY <1>1, <1>7, <1>10 DEF r

\* The memmove of delete_credential keeps a table sound and takes one entry out.
LEMMA RemoveSound ==
  ASSUME NEW t \in Seq(Descriptors), Sound(t), NEW p \in 1 .. Len(t)
  PROVE  LET r == RemoveAt(t, p)
         IN  /\ r \in Seq(Descriptors) /\ Len(r) = Len(t) - 1 /\ Sound(r)
             /\ Elements(r) = {e \in Elements(t) : e.key # t[p].key}
<1> DEFINE r == RemoveAt(t, p)
           at(j) == IF j < p THEN j ELSE j + 1
<1>1. /\ r \in Seq(Descriptors) /\ Len(r) = Len(t) - 1
      /\ \A j \in 1 .. Len(t) - 1 : r[j] = IF j < p THEN t[j] ELSE t[j + 1]
  BY RemoveAtProperties
<1>2. Len(t) \in Nat /\ \A i \in 1 .. Len(t) : t[i].key \in Nat
  BY LenProperties, ElementType
<1> HIDE DEF r
<1>3. \A j \in 1 .. Len(r) : r[j] = t[at(j)] /\ at(j) \in 1 .. Len(t) /\ at(j) # p
  BY <1>1, <1>2
<1>4. \A i, j \in 1 .. Len(r) : i < j => at(i) < at(j)
  BY <1>1, <1>2
<1>5. \A i \in 1 .. Len(t) : i # p => t[i].key # t[p].key
  <2> SUFFICES ASSUME NEW i \in 1 .. Len(t), i # p PROVE t[i].key # t[p].key
    OBVIOUS
  <2>1. i < p \/ p < i
    BY <1>2
  <2>2. t[i].key < t[p].key \/ t[p].key < t[i].key
    BY <2>1 DEF Sound
  <2> QED BY <1>2, <2>2
<1>6. ASSUME NEW i \in 1 .. Len(t), i # p PROVE t[i] \in Elements(r)
  <2>1. CASE i < p
    <3>1. r[i] = t[i] /\ i \in 1 .. Len(r)
      BY <1>1, <1>2, <2>1
    <3> QED BY <3>1 DEF Elements
  <2>2. CASE ~(i < p)
    <3>1. r[i - 1] = t[i] /\ i - 1 \in 1 .. Len(r)
      BY <1>1, <1>2, <1>6, <2>2
    <3> QED BY <3>1 DEF Elements
  <2> QED BY <2>1, <2>2
<1> HIDE DEF at
<1>7. Sound(r)
  BY <1>3, <1>4 DEF Sound
<1>8. Elements(r) = {e \in Elements(t) : e.key # t[p].key}
  <2>1. ASSUME NEW j \in 1 .. Len(r)
        PROVE  r[j] \in Elements(t) /\ r[j].key # t[p].key
    BY <1>3, <1>5 DEF Elements
  <2>2. ASSUME NEW e \in Elements(t), e.key # t[p].key PROVE e \in Elements(r)
    BY <1>6, <2>2 DEF Elements
  <2>3. \A e \in Elements(r) : e \in Elements(t) /\ e.key # t[p].key
    BY <2>1 DEF Elements
  <2> QED BY <2>2, <2>3
<1> QED BY <1>1, <1>7, <1>8 DEF r

\* move_credential changes the user of one entry.
LEMMA ReplaceSound ==
  ASSUME NEW t \in Seq(Descriptors), Sound(t), NEW p \in 1 .. Len(t), NEW u \in Users
  PROVE  LET r == [t EXCEPT ![p].user = u]
         IN  /\ r \in Seq(Descriptors) /\ Len(r) = Len(t) /\ Sound(r)
             /\ Elements(r) = {e \in Elements(t) : e.key # t[p].key}
                                \cup {[t[p] EXCEPT !.user = u]}
<1> DEFINE d == [t[p] EXCEPT !.user = u]
           r == [t EXCEPT ![p] = d]
<1>1. t[p] \in Descriptors /\ Len(t) \in Nat
  BY ElementType
<1>2. d \in Descriptors /\ d.key = t[p].key /\ d.object = t[p].object
  BY <1>1 DEF Descriptors
<1> HIDE DEF d
<1>3. /\ r \in Seq(Descriptors) /\ Len(r) = Len(t)
      /\ \A i \in 1 .. Len(t) : r[i] = IF i = p THEN d ELSE t[i]
  BY <1>2, ExceptSeq
<1>4. \A i \in 1 .. Len(t) : t[i].key \in Nat
  BY ElementType
<1> HIDE DEF r
<1>5. \A i \in 1 .. Len(t) : r[i].key = t[i].key /\ r[i].object = t[i].object
  BY <1>2, <1>3
<1>6. Sound(r)
  BY <1>3, <1>5 DEF Sound
<1>7. \A i \in 1 .. Len(t) : i # p => t[i].key # t[p].key
  <2> SUFFICES ASSUME NEW i \in 1 .. Len(t), i # p PROVE t[i].key # t[p].key
    OBVIOUS
  <2>1. i < p \/ p < i
    BY <1>1
  <2>2. t[i].key < t[p].key \/ t[p].key < t[i].key
    BY <2>1 DEF Sound
  <2> QED BY <1>4, <2>2
<1>8. Elements(r) = {e \in Elements(t) : e.key # t[p].key} \cup {d}
  <2>1. ASSUME NEW j \in 1 .. Len(r)
        PROVE  r[j] \in {e \in Elements(t) : e.key # t[p].key} \cup {d}
    BY <1>3, <1>7 DEF Elements
  <2>2. ASSUME NEW e \in Elements(t), e.key # t[p].key PROVE e \in Elements(r)
    BY <1>3, <2>2 DEF Elements
  <2>3. d \in Elements(r)
    BY <1>3 DEF Elements
  <2>4. Elements(r) \subseteq {e \in Elements(t) : e.key # t[p].key} \cup {d}
    BY <2>1 DEF Elements
  <2> QED BY <2>2, <2>3, <2>4
<1>9. [t EXCEPT ![p].user = u] = r
  BY DEF r, d
<1> QED BY <1>3, <1>6, <1>8, <1>9 DEF d
-------------------------------------------------------------------------------
(* What an operation sees of the table *)

LEMMA Numbers ==
  ASSUME CredentialTypeOK
  PROVE  /\ n_credentials \in Nat /\ n_credentials <= Capacity /\ Capacity \in Nat
         /\ table \in Seq(Descriptors) /\ Len(table) \in Nat /\ Len(table) <= Capacity
<1>1. Capacity \in Nat
  BY CredentialAssumption
<1>2. n_credentials \in 0 .. Capacity /\ table \in Seq(Descriptors) /\ Len(table) <= Capacity
  BY DEF CredentialTypeOK
<1>3. Len(table) \in Nat
  BY <1>2, LenProperties
<1> QED BY <1>1, <1>2, <1>3

\* A table that can be read is there with all its entries, or nothing is to be read.
LEMMA Reading ==
  ASSUME CredentialTypeOK, TableReadable
  PROVE  LET current == SubSeq(table, 1, n_credentials)
         IN  /\ current \in Seq(Descriptors) /\ Len(current) = n_credentials
             /\ n_credentials <= Len(table) /\ n_credentials \in Nat
             /\ n_credentials # 0 => n_credentials = Len(table) /\ current = table
             /\ \A i \in 1 .. n_credentials : current[i] = table[i]
             /\ Entries = Elements(current)
<1>1. table \in Seq(Descriptors) /\ Len(table) \in Nat /\ n_credentials \in Nat
  BY Numbers
<1>2. CASE n_credentials = 0
  <2>1. SubSeq(table, 1, 0) = <<>>
    BY <1>1, SubSeqEmpty
  <2>2. Entries = {}
    BY <1>2 DEF Entries
  <2>3. Elements(<<>>) = {} /\ <<>> \in Seq(Descriptors) /\ Len(<<>>) = 0
    BY DEF Elements
  <2>4. SubSeq(table, 1, n_credentials) = <<>>
    BY <1>2, <2>1
  <2>5. \A i \in 1 .. n_credentials : FALSE
    BY <1>2
  <2>6. n_credentials <= Len(table) /\ n_credentials \in Nat
    BY <1>1, <1>2
  <2>7. Entries = Elements(SubSeq(table, 1, n_credentials))
    BY <2>2, <2>3, <2>4
  <2> QED BY <1>2, <2>3, <2>4, <2>5, <2>6, <2>7, Zenon
<1>3. CASE n_credentials # 0
  <2>1. n_credentials = Len(table)
    BY <1>3 DEF TableReadable, ReadSucceeds
  <2>2. SubSeq(table, 1, Len(table)) = table
    BY <1>1, SubSeqFull
  <2> QED BY <1>1, <2>1, <2>2 DEF Entries, Elements
<1> QED BY <1>2, <1>3

\* The entries are descriptors of the stored table.
LEMMA EntryPlace ==
  ASSUME CredentialTypeOK, NEW e \in Entries
  PROVE  /\ TableReadable /\ e \in Descriptors
         /\ \E i \in 1 .. n_credentials : i \in 1 .. Len(table) /\ e = table[i]
<1>1. TableReadable
  BY DEF Entries
<1>2. PICK i \in 1 .. n_credentials : e = table[i]
  BY <1>1 DEF Entries
<1>3. table \in Seq(Descriptors) /\ Len(table) \in Nat
      /\ n_credentials \in Nat /\ n_credentials <= Len(table)
  BY <1>1, Reading, Numbers
<1>4. i \in 1 .. Len(table)
  BY <1>3
<1> QED BY <1>1, <1>2, <1>3, <1>4, ElementType

\* In a sound table a key or an object leads to one entry.
LEMMA EntryUnique ==
  ASSUME CredentialTypeOK, Sound(table), NEW e \in Entries
  PROVE  /\ TableReadable /\ e \in Descriptors /\ Stored(e.key) /\ Entry(e.key) = e
         /\ \A f \in Entries : f.key = e.key \/ f.object = e.object => f = e
<1>1. TableReadable /\ e \in Descriptors
  BY EntryPlace
<1>2. ASSUME NEW f \in Entries, f.key = e.key \/ f.object = e.object PROVE f = e
  <2>1. PICK i \in 1 .. Len(table) : e = table[i]
    BY EntryPlace
  <2>2. PICK j \in 1 .. Len(table) : f = table[j]
    BY EntryPlace
  <2>3. e.key \in Nat /\ f.key \in Nat
    BY EntryPlace, DescriptorType
  <2>4. i < j => e.key < f.key /\ e.object # f.object
    BY <2>1, <2>2 DEF Sound
  <2>5. j < i => f.key < e.key /\ f.object # e.object
    BY <2>1, <2>2 DEF Sound
  <2>6. Len(table) \in Nat
    BY LenProperties DEF CredentialTypeOK
  <2>7. ~(i < j) /\ ~(j < i)
    BY <1>2, <2>3, <2>4, <2>5
  <2>8. i = j
    BY <2>6, <2>7
  <2> QED BY <2>1, <2>2, <2>8
<1>3. Stored(e.key)
  BY DEF Stored
<1>4. Entry(e.key) \in Entries /\ Entry(e.key).key = e.key
  BY DEF Entry
<1> QED BY <1>1, <1>2, <1>3, <1>4

LEMMA StoredEntry ==
  ASSUME NEW key, Stored(key)
  PROVE  Entry(key) \in Entries /\ Entry(key).key = key
BY DEF Stored, Entry

\* get_credential_descriptor_index finds the place of a key.
LEMMA PlaceFound ==
  ASSUME CredentialTypeOK, Sound(table), TableReadable, NEW key \in Keys
  PROVE  /\ Place(key) \in 1 .. n_credentials + 1
         /\ \A i \in 1 .. n_credentials : i < Place(key) <=> table[i].key < key
         /\ Stored(key) => /\ Place(key) \in 1 .. n_credentials
                           /\ table[Place(key)] = Entry(key)
<1> DEFINE n == n_credentials
           k == [i \in 1 .. n |-> table[i].key]
<1>1. n \in Nat /\ n <= Len(table) /\ Len(table) \in Nat /\ table \in Seq(Descriptors)
  BY Reading, LenProperties DEF CredentialTypeOK
<1>2. key \in Nat
  BY DEF Keys
<1>3. \A i \in 1 .. n : i \in 1 .. Len(table) /\ table[i].key \in Nat
  <2>1. \A i \in 1 .. n : i \in 1 .. Len(table)
    BY <1>1
  <2> QED BY <1>1, <2>1, ElementType
<1>4. k \in [1 .. n -> Nat] /\ \A i, j \in 1 .. n : i < j => k[i] < k[j]
  BY <1>3 DEF Sound
<1>5. {i \in 1 .. n : k[i] < key} = {i \in 1 .. n : table[i].key < key}
  OBVIOUS
<1>6. Place(key) = 1 + Cardinality({i \in 1 .. n : k[i] < key})
  BY <1>5 DEF Place
<1> HIDE DEF k
<1>7. /\ Place(key) \in 1 .. n + 1
      /\ \A i \in 1 .. n : i < Place(key) <=> k[i] < key
  <2>1. LET p == 1 + Cardinality({i \in 1 .. n : k[i] < key})
        IN  p \in 1 .. n + 1 /\ \A i \in 1 .. n : i < p <=> k[i] < key
    <3> HIDE DEF n
    <3> QED BY <1>1, <1>2, <1>4, CountIsPlace
  <2> QED BY <1>6, <2>1, Zenon
<1>8. \A i \in 1 .. n : i < Place(key) <=> table[i].key < key
  BY <1>7 DEF k
<1>9. ASSUME Stored(key) PROVE Place(key) \in 1 .. n /\ table[Place(key)] = Entry(key)
  <2>1. Entry(key) \in Entries /\ Entry(key).key = key
    BY <1>9, StoredEntry
  <2>2. PICK i \in 1 .. n : Entry(key) = table[i]
    BY <2>1, EntryPlace
  <2>3. ~(i < Place(key))
    BY <1>2, <1>8, <2>1, <2>2
  <2>4. ~(Place(key) < i)
    <3> SUFFICES ASSUME Place(key) < i PROVE FALSE
      OBVIOUS
    <3>1. Place(key) \in 1 .. n
      BY <1>1, <1>7
    <3>2. table[Place(key)].key < key
      BY <1>3, <2>1, <2>2, <3>1 DEF Sound
    <3>3. Place(key) < Place(key)
      BY <1>8, <3>1, <3>2
    <3> QED BY <3>1, <3>3
  <2>5. i = Place(key)
    BY <1>1, <1>7, <2>3, <2>4
  <2> QED BY <2>2, <2>5
<1> QED BY <1>7, <1>8, <1>9

\* A table that has grown is never mistaken for the stored one.
LEMMA GrownIsWritten ==
  ASSUME CredentialTypeOK, TableReadable, NEW new \in Seq(Descriptors),
         Len(new) = n_credentials + 1
  PROVE  Written(table, new, ChunkEntries) = new
<1> SUFFICES ASSUME MatchesStored(table, new, ChunkEntries) PROVE table = new
  BY DEF Written
<1>1. Len(new) <= Len(table) /\ new = SubSeq(table, 1, Len(new))
  BY DEF MatchesStored, IsPrefix
<1>2. table \in Seq(Descriptors) /\ Len(table) \in Nat /\ n_credentials \in Nat
  BY Numbers
<1>3. n_credentials = 0
  BY <1>1, <1>2 DEF TableReadable, ReadSucceeds
<1>4. Len(table) = Len(new)
  BY <1>3, CredentialAssumption DEF MatchesStored
<1>5. SubSeq(table, 1, Len(table)) = table
  BY <1>2, SubSeqFull
<1> QED BY <1>1, <1>4, <1>5

LEMMA SameLengthIsWritten ==
  ASSUME CredentialTypeOK, NEW new \in Seq(Descriptors), Len(new) = Len(table)
  PROVE  Written(table, new, ChunkEntries) = new
<1> SUFFICES ASSUME MatchesStored(table, new, ChunkEntries) PROVE table = new
  BY DEF Written
<1>1. new = SubSeq(table, 1, Len(new))
  BY DEF MatchesStored, IsPrefix
<1>2. SubSeq(table, 1, Len(table)) = table
  BY SubSeqFull DEF CredentialTypeOK
<1> QED BY <1>1, <1>2

NewDescriptor == [key |-> call.key, user |-> call.user, object |-> call.object]

\* What WriteTable writes, by operation.
LEMMA NewTableAdd ==
  ASSUME CoreInv, pc = "table", call.operation = "add"
  PROVE  /\ NewTable \in Seq(Descriptors) /\ Len(NewTable) = n_credentials + 1
         /\ Sound(NewTable) /\ Elements(NewTable) = Entries \cup {NewDescriptor}
         /\ NewDescriptor \in Descriptors
<1> DEFINE current == SubSeq(table, 1, n_credentials)
<1>1. /\ CredentialTypeOK /\ Sound(table) /\ TableReadable
      /\ ~Stored(call.key) /\ ~Owned(call.object)
      /\ call.key \in Keys /\ call.user \in Users /\ call.object \in Offsets
  BY DEF CoreInv, CallOK, Fresh, Arguments, Writing
<1>2. NewDescriptor \in Descriptors /\ NewDescriptor.key = call.key
      /\ NewDescriptor.object = call.object
  BY <1>1 DEF NewDescriptor, Descriptors
<1>3. /\ current \in Seq(Descriptors) /\ Len(current) = n_credentials
      /\ n_credentials <= Len(table) /\ n_credentials \in Nat
      /\ \A i \in 1 .. n_credentials : current[i] = table[i]
      /\ Entries = Elements(current)
  BY <1>1, Reading
<1>4. NewTable = InsertAt(current, Place(call.key), NewDescriptor)
  BY DEF NewTable, NewDescriptor
<1> HIDE DEF current
<1>5. /\ Place(call.key) \in 1 .. n_credentials + 1
      /\ \A i \in 1 .. n_credentials : i < Place(call.key) <=> table[i].key < call.key
  BY <1>1, PlaceFound
<1>6. Sound(current)
  <2>1. \A i \in 1 .. n_credentials : i \in 1 .. Len(table)
    BY <1>1, <1>3, LenProperties DEF CredentialTypeOK
  <2> QED BY <1>1, <1>3, <2>1 DEF Sound
<1>7. \A i \in 1 .. Len(current) : /\ current[i].key # NewDescriptor.key
                                   /\ current[i].object # NewDescriptor.object
  <2>1. \A i \in 1 .. Len(current) : current[i] \in Entries
    BY <1>3 DEF Elements
  <2> QED BY <1>1, <1>2, <2>1 DEF Stored, Owned
<1>8. \A i \in 1 .. Len(current) : i < Place(call.key) <=> current[i].key < NewDescriptor.key
  BY <1>2, <1>3, <1>5
<1> QED BY <1>2, <1>3, <1>4, <1>5, <1>6, <1>7, <1>8, InsertSound

LEMMA NewTableOld ==
  ASSUME CoreInv, pc = "table", call.operation \in {"delete", "move"}
  PROVE  /\ n_credentials = Len(table) /\ n_credentials # 0
         /\ NewTable \in Seq(Descriptors) /\ Sound(NewTable)
         /\ call.operation = "delete" =>
              /\ Len(NewTable) = n_credentials - 1
              /\ Elements(NewTable) = {e \in Entries : e.key # call.key}
         /\ call.operation = "move" =>
              /\ Len(NewTable) = n_credentials
              /\ Elements(NewTable) = {e \in Entries : e.key # call.key}
                                        \cup {[Entry(call.key) EXCEPT !.user = call.user]}
<1> DEFINE current == SubSeq(table, 1, n_credentials)
           p == Place(call.key)
<1>1. /\ CredentialTypeOK /\ Sound(table) /\ TableReadable
      /\ Stored(call.key) /\ call.key \in Keys
      /\ call.operation = "move" => call.user \in Users
  BY DEF CoreInv, CallOK, Fresh, Arguments, Writing
<1>2. p \in 1 .. n_credentials /\ table[p] = Entry(call.key)
  BY <1>1, PlaceFound
<1>3. Entry(call.key).key = call.key
  BY <1>1, StoredEntry
<1>4. /\ n_credentials \in Nat /\ n_credentials # 0 /\ n_credentials = Len(table)
      /\ current = table /\ Entries = Elements(table)
  <2>1. n_credentials \in Nat
    BY <1>1, Numbers
  <2>2. n_credentials # 0
    BY <1>2, <2>1
  <2> QED BY <1>1, <2>1, <2>2, Reading
<1>5. table \in Seq(Descriptors)
  BY <1>1 DEF CredentialTypeOK
<1>6. /\ call.operation = "delete" => NewTable = RemoveAt(table, p)
      /\ call.operation = "move" => NewTable = [table EXCEPT ![p].user = call.user]
  BY <1>4 DEF NewTable
<1> HIDE DEF current, p
<1>7. CASE call.operation = "delete"
  BY <1>1, <1>2, <1>3, <1>4, <1>5, <1>6, <1>7, RemoveSound
<1>8. CASE call.operation = "move"
  <2> DEFINE new == [table EXCEPT ![p].user = call.user]
  <2>1. /\ new \in Seq(Descriptors) /\ Len(new) = Len(table) /\ Sound(new)
        /\ Elements(new) = {e \in Elements(table) : e.key # table[p].key}
                             \cup {[table[p] EXCEPT !.user = call.user]}
    BY <1>1, <1>2, <1>4, <1>5, <1>8, ReplaceSound
  <2>2. NewTable = new
    BY <1>6, <1>8
  <2> HIDE DEF new
  <2> QED BY <1>2, <1>3, <1>4, <1>8, <2>1, <2>2
<1> QED BY <1>4, <1>7, <1>8
-------------------------------------------------------------------------------
(* The inductive invariant: steps that leave the table and the objects alone *)

LEMMA LoopType ==
  ASSUME NEW l \in Loops
  PROVE  /\ l.target \in Keys \cup {0} /\ l.users \in Seq(Users)
         /\ l # NoLoop => /\ l.users # <<>> /\ l.filter \in Types \cup {"any"}
                          /\ l.drop \in BOOLEAN
                          /\ l \in [users : Seq(Users), filter : Types \cup {"any"},
                                    drop : BOOLEAN, target : Keys \cup {0}]
<1>1. CASE l = NoLoop
  BY <1>1 DEF NoLoop
<1>2. CASE l # NoLoop
  BY <1>2 DEF Loops
<1> QED BY <1>1, <1>2

LEMMA FaultType ==
  ASSUME faults \in 0 .. MaxFaults, Fault \/ NoFault
  PROVE  faults' \in 0 .. MaxFaults
BY CredentialAssumption DEF Fault, NoFault

\* The variables that such a step may change keep their types.
SideTypes ==
  /\ n_credentials \in 0 .. Capacity /\ number \in 0 .. Capacity
  /\ credentials_buffer_head \in Offsets
  /\ admin \in Codes \cup {NoCode}
  /\ users \subseteq Users
  /\ pc \in {"idle", "metadata", "data", "table", "number", "loop", "add default",
             "reset users", "reset number", "reset admin"}
  /\ result \in {"none", "SUCCESS"}
  /\ faults \in 0 .. MaxFaults
  /\ spoiled \subseteq {"number", "delete", "reset"}

LEMMA CoreKept ==
  ASSUME CoreInv, UNCHANGED <<table, metadata, data, torn>>, SideTypes', LoopOK', CallOK'
  PROVE  CoreInv'
<1>1. loop' \in Loops
  BY DEF LoopOK
<1>2. loop'.target \in Keys \cup {0} /\ loop'.users \in Seq(Users)
  BY <1>1, LoopType
<1>3. CredentialTypeOK'
  BY <1>2 DEF CoreInv, CredentialTypeOK, SideTypes
<1>4. Sound(table)' /\ \A i \in 1 .. Len(table') : metadata'[table'[i].object] # NoMetadata
  BY DEF CoreInv, Sound
<1> QED BY <1>3, <1>4 DEF CoreInv

\* Between operations there is no call to look after.
LEMMA NoCallOK ==
  ASSUME pc' \notin Writing
  PROVE  CallOK'
BY DEF CallOK, Order, Writing

\* How an operation begins: it returns at once or goes on to its first write.
Over == pc' = (IF loop = NoLoop THEN "idle" ELSE "loop") /\ call' = NoCall

Started ==
  /\ pc' \in {"metadata", "table"} /\ result' = "none"
  /\ Order(pc', call') /\ Arguments(call') /\ Fresh(call')
  /\ pc' = "metadata" => Fields(call')
  /\ call'.operation = "add" => pc' = "metadata"

LEMMA StartedOK ==
  ASSUME CoreInv, Started, UNCHANGED <<n_credentials, table>>
  PROVE  CallOK'
<1>1. Fresh(call)'
  BY DEF Started, Fresh, TableReadable, Stored, Owned, Entry, Entries
<1>2. Order(pc, call)' /\ Arguments(call)' /\ (pc' = "metadata" => Fields(call)')
  BY DEF Started, Order, Arguments, Fields
<1> QED BY <1>1, <1>2 DEF Started, CallOK

\* Operations called from the event loop or from a bulk deletion.
LEMMA BeginOK ==
  ASSUME CoreInv, UNCHANGED <<n_credentials, number, table, metadata, data, torn, spoiled>>,
         admin' \in Codes \cup {NoCode}, faults' \in 0 .. MaxFaults,
         credentials_buffer_head' \in Offsets, users' \subseteq Users,
         result' \in {"none", "SUCCESS"}, Over \/ Started,
         \/ loop = NoLoop /\ loop' = NoLoop
         \/ /\ loop # NoLoop /\ loop' # NoLoop /\ loop' \in Loops
            /\ Started => call'.operation = "delete"
  PROVE  CoreInv'
<1>1. NoLoop \in Loops
  BY DEF Loops
<1>2. CASE Over
  <2>1. pc' \in {"idle", "loop"} /\ (pc' = "loop" <=> loop' # NoLoop)
    BY <1>2 DEF Over
  <2>2. CallOK'
    BY <2>1, NoCallOK DEF Writing
  <2>3. LoopOK'
    BY <1>1, <2>1 DEF LoopOK
  <2>4. SideTypes'
    BY <2>1 DEF SideTypes, CoreInv, CredentialTypeOK
  <2> QED BY <2>2, <2>3, <2>4, CoreKept
<1>3. CASE Started
  <2>1. pc' \in {"metadata", "table"}
    BY <1>3 DEF Started
  <2>2. CallOK'
    BY <1>3, StartedOK
  <2>3. LoopOK'
    <3>1. loop' # NoLoop => pc' = "table"
      BY <1>3, <2>1 DEF Started, Order
    <3> QED BY <1>1, <1>3, <2>1, <3>1 DEF LoopOK
  <2>4. SideTypes'
    BY <2>1 DEF SideTypes, CoreInv, CredentialTypeOK
  <2> QED BY <2>2, <2>3, <2>4, CoreKept
<1> QED BY <1>2, <1>3

LEMMA CandidateIsOffset ==
  ASSUME CredentialTypeOK, NEW i \in Offsets
  PROVE  Candidate(i) \in Offsets
<1>1. Capacity \in Nat \ {0} /\ credentials_buffer_head \in Offsets
  BY CredentialAssumption DEF CredentialTypeOK
<1> QED BY <1>1 DEF Candidate, Offsets

LEMMA AddStarts ==
  ASSUME CredentialTypeOK, NEW user \in Users, NEW key \in Keys, NEW code \in Codes,
         add_credential(user, key, code)
  PROVE  /\ UNCHANGED n_credentials /\ credentials_buffer_head' \in Offsets
         /\ \/ Over /\ result' = "none"
            \/ /\ Started /\ call'.operation = "add"
               /\ call'.key = key /\ call'.user = user /\ call'.code = code
<1>1. CASE Return("none") /\ UNCHANGED ram
  BY <1>1 DEF Return, ram, Over, CredentialTypeOK
<1>2. ASSUME n_credentials < Capacity, TableReadable, NEW i \in Offsets,
             FirstAttempt(key, i), credentials_buffer_head' = Candidate(i),
             ~MeetsKey(key, Candidate(i)),
             Begin("metadata", [operation |-> "add", key |-> key, user |-> user,
                                code |-> code, object |-> Candidate(i)])
      PROVE  Started /\ call'.operation = "add"
             /\ call'.key = key /\ call'.user = user /\ call'.code = code
  <2> DEFINE o == Candidate(i)
  <2>1. o \in Offsets
    BY CandidateIsOffset
  <2>2. ~Owned(o)
    BY <1>2 DEF FirstAttempt, EndsSearch
  <2>3. ~Stored(key)
    <3> SUFFICES ASSUME NEW e \in Entries, e.key = key PROVE FALSE
      BY DEF Stored
    <3>1. PICK k \in 1 .. n_credentials : e = table[k]
      BY EntryPlace
    <3>2. n_credentials \in Nat
      BY Numbers
    <3>3. \A j \in 1 .. k - 1 : table[j] \in Entries
      <4>1. \A j \in 1 .. k - 1 : j \in 1 .. n_credentials
        BY <3>2
      <4> QED BY <1>2, <4>1 DEF Entries
    <3>4. \A j \in 1 .. k - 1 : table[j].object # o
      BY <2>2, <3>3 DEF Owned
    <3> QED BY <1>2, <3>1, <3>4 DEF MeetsKey
  <2> HIDE DEF o
  <2>4. /\ pc' = "metadata" /\ result' = "none"
        /\ call' = [operation |-> "add", key |-> key, user |-> user, code |-> code,
                    object |-> o]
    BY <1>2 DEF Begin, o
  <2>5. /\ call'.operation = "add" /\ call'.key = key /\ call'.user = user
        /\ call'.code = code /\ call'.object = o
    BY <2>4
  <2>6. Fields(call')
    BY <2>4 DEF Fields
  <2>7. Arguments(call') /\ Order(pc', call')
    BY <2>1, <2>4, <2>5 DEF Arguments, Order
  <2>8. Fresh(call')
    BY <1>2, <2>2, <2>3, <2>5 DEF Fresh
  <2> QED BY <2>4, <2>5, <2>6, <2>7, <2>8 DEF Started
<1>3. ASSUME n_credentials < Capacity, TableReadable, NEW i \in Offsets,
             FirstAttempt(key, i), credentials_buffer_head' = Candidate(i),
             MeetsKey(key, Candidate(i)), Return("none")
      PROVE  Over /\ result' = "none"
  BY <1>3 DEF Return, Over
<1>4. CASE /\ n_credentials < Capacity /\ TableReadable
           /\ \E i \in Offsets :
                /\ FirstAttempt(key, i)
                /\ credentials_buffer_head' = Candidate(i)
                /\ IF MeetsKey(key, Candidate(i)) THEN Return("none")
                   ELSE Begin("metadata", [operation |-> "add", key |-> key, user |-> user,
                                           code |-> code, object |-> Candidate(i)])
           /\ UNCHANGED n_credentials
  <2>1. PICK i \in Offsets :
                /\ FirstAttempt(key, i)
                /\ credentials_buffer_head' = Candidate(i)
                /\ IF MeetsKey(key, Candidate(i)) THEN Return("none")
                   ELSE Begin("metadata", [operation |-> "add", key |-> key, user |-> user,
                                           code |-> code, object |-> Candidate(i)])
    BY <1>4
  <2>2. credentials_buffer_head' \in Offsets
    BY <2>1, CandidateIsOffset
  <2>3. CASE MeetsKey(key, Candidate(i))
    BY <1>3, <1>4, <2>1, <2>2, <2>3
  <2>4. CASE ~MeetsKey(key, Candidate(i))
    BY <1>2, <1>4, <2>1, <2>2, <2>4
  <2> QED BY <2>3, <2>4
<1> QED BY <1>1, <1>4 DEF add_credential

\* The object of a stored credential.
LEMMA EntryObject ==
  ASSUME CredentialTypeOK, NEW key, Stored(key)
  PROVE  /\ TableReadable /\ Entry(key) \in Entries /\ Entry(key).key = key
         /\ Entry(key) \in Descriptors
         /\ Entry(key).object \in Offsets /\ Entry(key).user \in Users
<1>1. Entry(key) \in Entries /\ Entry(key).key = key
  BY StoredEntry
<1> QED BY <1>1, EntryPlace, DescriptorType

LEMMA ModifyStarts ==
  ASSUME CredentialTypeOK, NEW user, NEW key \in Keys, NEW code \in Codes,
         modify_credential(user, key, code)
  PROVE  /\ UNCHANGED ram
         /\ \/ Over /\ result' = "none"
            \/ /\ Started /\ call'.operation = "modify" /\ call'.key = key
               /\ call'.user = user /\ call'.code = code
<1>1. CASE Return("none") /\ UNCHANGED ram
  BY <1>1 DEF Return, Over
<1>2. CASE /\ UNCHANGED ram /\ Modifiable(user, key, code)
           /\ Begin("metadata", [operation |-> "modify", key |-> key, user |-> user,
                                 code |-> code, object |-> Entry(key).object])
  <2>1. Stored(key) /\ Entry(key).user = user
    BY <1>2 DEF Modifiable
  <2>2. TableReadable /\ Entry(key).object \in Offsets /\ user \in Users
    BY <2>1, EntryObject
  <2>3. /\ pc' = "metadata" /\ result' = "none"
        /\ call' = [operation |-> "modify", key |-> key, user |-> user, code |-> code,
                    object |-> Entry(key).object]
    BY <1>2 DEF Begin
  <2>4. /\ call'.operation = "modify" /\ call'.key = key /\ call'.user = user
        /\ call'.code = code /\ call'.object = Entry(key).object
    BY <2>3
  <2>5. Fields(call')
    BY <2>3 DEF Fields
  <2>6. Arguments(call') /\ Order(pc', call')
    BY <2>2, <2>3, <2>4 DEF Arguments, Order
  <2>7. Fresh(call')
    BY <2>1, <2>2, <2>4 DEF Fresh
  <2> QED BY <1>2, <2>3, <2>4, <2>5, <2>6, <2>7 DEF Started
<1> QED BY <1>1, <1>2 DEF modify_credential

LEMMA MoveStarts ==
  ASSUME CredentialTypeOK, NEW user \in Users, NEW key \in Keys, move_credential(key, user)
  PROVE  /\ UNCHANGED ram
         /\ \/ Over /\ result' = "none"
            \/ /\ Started /\ call'.operation = "move"
               /\ call'.key = key /\ call'.user = user
               /\ pc' = "table" => "ok" \notin DOMAIN call' /\ Entry(key).user = user
<1>1. CASE Return("none") /\ UNCHANGED ram
  BY <1>1 DEF Return, Over
<1>2. CASE /\ UNCHANGED ram /\ Stored(key)
           /\ Begin(IF Entry(key).user = user THEN "table" ELSE "metadata",
                    [operation |-> "move", key |-> key, user |-> user,
                     object |-> Entry(key).object])
  <2>1. TableReadable /\ Entry(key).object \in Offsets
    BY <1>2, EntryObject
  <2>2. /\ pc' \in {"metadata", "table"} /\ result' = "none"
        /\ pc' = "table" => Entry(key).user = user
        /\ call' = [operation |-> "move", key |-> key, user |-> user,
                    object |-> Entry(key).object]
    BY <1>2 DEF Begin
  <2>3. /\ call'.operation = "move" /\ call'.key = key /\ call'.user = user
        /\ call'.object = Entry(key).object /\ "ok" \notin DOMAIN call'
    BY <2>2
  <2>4. Fields(call')
    BY <2>2 DEF Fields
  <2>5. Arguments(call') /\ Order(pc', call')
    BY <2>1, <2>2, <2>3 DEF Arguments, Order
  <2>6. Fresh(call')
    BY <1>2, <2>1, <2>3 DEF Fresh
  <2> QED BY <1>2, <2>2, <2>3, <2>4, <2>5, <2>6 DEF Started
<1> QED BY <1>1, <1>2 DEF move_credential

LEMMA DeleteStarts ==
  ASSUME CredentialTypeOK, NEW key \in Keys, delete_credential(key)
  PROVE  /\ UNCHANGED ram
         /\ \/ Over /\ result' = "none" /\ ~Stored(key)
            \/ /\ Started /\ pc' = "table"
               /\ call'.operation = "delete" /\ call'.key = key
<1>1. CASE Return("none") /\ UNCHANGED ram /\ (~TableReadable \/ ~Stored(key))
  <2>1. ~Stored(key)
    BY <1>1 DEF Stored, Entries
  <2> QED BY <1>1, <2>1 DEF Return, Over
<1>2. CASE /\ UNCHANGED ram /\ Stored(key)
           /\ Begin("table", [operation |-> "delete", key |-> key])
  <2>1. TableReadable
    BY <1>2, EntryObject
  <2>2. /\ pc' = "table" /\ result' = "none"
        /\ call' = [operation |-> "delete", key |-> key]
    BY <1>2 DEF Begin
  <2>3. call'.operation = "delete" /\ call'.key = key
    BY <2>2
  <2>4. Arguments(call') /\ Order(pc', call')
    BY <2>2, <2>3 DEF Arguments, Order
  <2>5. Fresh(call')
    BY <1>2, <2>1, <2>3 DEF Fresh
  <2> QED BY <1>2, <2>2, <2>3, <2>4, <2>5 DEF Started
<1> QED BY <1>1, <1>2 DEF delete_credential
-------------------------------------------------------------------------------
(* The inductive invariant: one lemma per action *)

LEMMA CoreInit == Init => CoreInv
<1> SUFFICES ASSUME Init PROVE CoreInv
  OBVIOUS
<1>1. Capacity \in Nat \ {0} /\ MaxFaults \in Nat
  BY CredentialAssumption
<1>2. table = <<>> /\ Len(table) = 0 /\ table \in Seq(Descriptors)
  BY DEF Init
<1>3. loop \in Loops /\ loop = NoLoop /\ pc = "idle"
  BY DEF Init, Loops
<1>4. CredentialTypeOK
  <2>1. loop.target \in Keys \cup {0} /\ loop.users \in Seq(Users)
    BY <1>3, LoopType
  <2>2. 0 \in Offsets /\ 0 \in 0 .. Capacity /\ 0 \in 0 .. MaxFaults
    BY <1>1 DEF Offsets
  <2>3. Len(table) <= Capacity
    BY <1>1, <1>2
  <2> QED BY <1>2, <1>3, <2>1, <2>2, <2>3 DEF Init, CredentialTypeOK
<1>5. Sound(table) /\ \A i \in 1 .. Len(table) : metadata[table[i].object] # NoMetadata
  BY <1>2 DEF Sound
<1>6. LoopOK
  BY <1>3 DEF LoopOK
<1>7. CallOK
  BY <1>3 DEF CallOK, Order, Writing
<1> QED BY <1>4, <1>5, <1>6, <1>7 DEF CoreInv

LEMMA FirstIsLeast ==
  ASSUME NEW S \in SUBSET Nat
  PROVE  IF S = {} THEN First(S) = 0
         ELSE First(S) \in S /\ \A j \in S : First(S) <= j
<1>1. CASE S = {}
  BY <1>1 DEF First
<1>2. CASE S # {}
  <2>1. \E k \in S : \A j \in S : k <= j
    BY <1>2, LeastElement
  <2> QED BY <1>2, <2>1 DEF First
<1> QED BY <1>1, <1>2

\* The credentials of a user that get_next_credential chooses from.
Following(user, type, key) ==
  {e.key : e \in {e \in Entries : /\ e.user = user
                                  /\ IF key = 0 THEN type \in {"any", Type(e.key)}
                                     ELSE e.key > key}}

LEMMA NextIsLeast ==
  ASSUME CredentialTypeOK, NEW user, NEW type, NEW key
  PROVE  LET next == get_next_credential(user, type, key)
         IN  /\ next \in Keys \cup {0}
             /\ next = 0 => Following(user, type, key) = {}
             /\ next # 0 => \A k \in Following(user, type, key) : k >= next
<1> DEFINE S == Following(user, type, key)
<1>1. \A k \in S : k \in Keys /\ k \in Nat /\ k # 0
  <2> SUFFICES ASSUME NEW e \in Entries PROVE e.key \in Keys /\ e.key \in Nat /\ e.key # 0
    BY DEF Following
  <2>1. e \in Descriptors
    BY EntryPlace
  <2>2. e.key \in Keys /\ e.key \in Nat
    BY <2>1, DescriptorType
  <2> QED BY <2>2 DEF Keys
<1>2. get_next_credential(user, type, key) = First(S)
  BY DEF get_next_credential, Following
<1>3. S \in SUBSET Nat
  BY <1>1
<1> HIDE DEF S
<1>4. IF S = {} THEN First(S) = 0 ELSE First(S) \in S /\ \A j \in S : First(S) <= j
  BY <1>3, FirstIsLeast
<1>5. CASE S = {}
  BY <1>2, <1>4, <1>5 DEF S
<1>6. CASE S # {}
  <2>1. First(S) \in Keys /\ First(S) # 0 /\ First(S) \in Nat /\ \A j \in S : First(S) <= j
    BY <1>1, <1>4, <1>6
  <2>2. \A j \in S : j >= First(S)
    BY <1>1, <2>1
  <2> QED BY <1>2, <2>1, <2>2 DEF S
<1> QED BY <1>5, <1>6

\* Between operations there is no bulk deletion.
LEMMA IdleLoop ==
  ASSUME CoreInv, pc \notin {"loop", "table", "number"}
  PROVE  loop = NoLoop
BY DEF CoreInv, LoopOK

\* Steps that start no write.
LEMMA RestOK ==
  ASSUME CoreInv, UNCHANGED <<table, metadata, data, torn>>,
         n_credentials' \in 0 .. Capacity, number' \in 0 .. Capacity,
         credentials_buffer_head' \in Offsets, admin' \in Codes \cup {NoCode},
         users' \subseteq Users, result' \in {"none", "SUCCESS"},
         faults' \in 0 .. MaxFaults, spoiled' \subseteq {"number", "delete", "reset"},
         \/ pc' \in {"idle", "add default", "reset users", "reset number", "reset admin"}
            /\ loop' = NoLoop
         \/ pc' = "loop" /\ loop' # NoLoop /\ loop' \in Loops
  PROVE  CoreInv'
<1>1. SideTypes'
  BY DEF SideTypes
<1>2. LoopOK'
  BY DEF LoopOK, Loops
<1>3. CallOK'
  BY NoCallOK DEF Writing
<1> QED BY <1>1, <1>2, <1>3, CoreKept

LEMMA CoreTypes ==
  ASSUME CoreInv
  PROVE  /\ n_credentials \in 0 .. Capacity /\ number \in 0 .. Capacity
         /\ credentials_buffer_head \in Offsets /\ admin \in Codes \cup {NoCode}
         /\ users \subseteq Users /\ result \in {"none", "SUCCESS"}
         /\ faults \in 0 .. MaxFaults /\ spoiled \subseteq {"number", "delete", "reset"}
         /\ 0 \in 0 .. Capacity /\ 0 \in Offsets
<1>1. 0 \in 0 .. Capacity /\ 0 \in Offsets
  BY CredentialAssumption DEF Offsets
<1> QED BY <1>1 DEF CoreInv, CredentialTypeOK

LEMMA AddUserOK ==
  ASSUME CoreInv, NEW user \in Users, AddUser(user)
  PROVE  CoreInv'
<1>1. /\ pc = "idle" /\ pc' = "idle" /\ loop' = loop /\ users' \subseteq Users
      /\ UNCHANGED <<table, metadata, data, torn, n_credentials, number,
                     credentials_buffer_head, admin, result, faults, spoiled>>
  BY CoreTypes DEF AddUser, Start, files, ram, history
<1> QED BY <1>1, CoreTypes, IdleLoop, RestOK

LEMMA CredentialSetOK ==
  ASSUME CoreInv, NEW user \in Users, NEW key \in Keys, NEW code \in Codes,
         CredentialSet(user, key, code)
  PROVE  CoreInv'
<1>1. /\ pc = "idle" /\ loop' = loop /\ UNCHANGED users
      /\ UNCHANGED <<table, metadata, data, torn, number, admin, faults, spoiled>>
  BY DEF CredentialSet, Start, files, history
<1>2. loop = NoLoop /\ loop' = NoLoop
  BY <1>1, IdleLoop
<1>3. /\ UNCHANGED n_credentials /\ credentials_buffer_head' \in Offsets
      /\ (Over /\ result' = "none") \/ Started
  <2>1. CASE add_credential(user, key, code)
    BY <2>1, AddStarts DEF CoreInv
  <2>2. CASE modify_credential(user, key, code)
    BY <2>2, ModifyStarts, CoreTypes DEF CoreInv, ram
  <2> QED BY <2>1, <2>2 DEF CredentialSet
<1>4. result' \in {"none", "SUCCESS"}
  BY <1>3 DEF Started
<1> QED BY <1>1, <1>2, <1>3, <1>4, CoreTypes, BeginOK

LEMMA CredentialDeleteOK ==
  ASSUME CoreInv, NEW key \in Keys, CredentialDelete(key)
  PROVE  CoreInv'
<1>1. /\ pc = "idle" /\ loop' = loop /\ UNCHANGED users
      /\ UNCHANGED <<table, metadata, data, torn, number, admin, faults, spoiled>>
  BY DEF CredentialDelete, Start, files, history
<1>2. loop = NoLoop /\ loop' = NoLoop
  BY <1>1, IdleLoop
<1>3. UNCHANGED ram /\ ((Over /\ result' = "none") \/ Started)
  BY DeleteStarts DEF CredentialDelete, CoreInv
<1>4. result' \in {"none", "SUCCESS"} /\ UNCHANGED <<n_credentials, credentials_buffer_head>>
  BY <1>3 DEF Started, ram
<1> QED BY <1>1, <1>2, <1>3, <1>4, CoreTypes, BeginOK

LEMMA AssociationSetOK ==
  ASSUME CoreInv, NEW key \in Keys, NEW user \in Users, AssociationSet(key, user)
  PROVE  CoreInv'
<1>1. /\ pc = "idle" /\ loop' = loop /\ UNCHANGED users
      /\ UNCHANGED <<table, metadata, data, torn, number, admin, faults, spoiled>>
  BY DEF AssociationSet, Start, files, history
<1>2. loop = NoLoop /\ loop' = NoLoop
  BY <1>1, IdleLoop
<1>3. UNCHANGED ram /\ ((Over /\ result' = "none") \/ Started)
  BY MoveStarts DEF AssociationSet, CoreInv
<1>4. result' \in {"none", "SUCCESS"} /\ UNCHANGED <<n_credentials, credentials_buffer_head>>
  BY <1>3 DEF Started, ram
<1> QED BY <1>1, <1>2, <1>3, <1>4, CoreTypes, BeginOK

\* A PIN slot is a key and also the identifier of a user.
LEMMA PinSlot ==
  ASSUME NEW key \in 1 .. PinSlots
  PROVE  key \in Keys /\ key \in Users /\ 1 \in Keys /\ 1 \in Users
<1>1. key \in Users /\ 1 \in Users
  BY CredentialAssumption
<1> QED BY <1>1, CredentialAssumption DEF Keys

LEMMA UserCodeSetOK ==
  ASSUME CoreInv, NEW key \in 1 .. PinSlots, NEW code \in Codes, UserCodeSet(key, code)
  PROVE  CoreInv'
<1>1. /\ pc = "idle" /\ loop' = loop
      /\ UNCHANGED <<table, metadata, data, torn, number, admin, faults, spoiled>>
  BY DEF UserCodeSet, Start, files, history
<1>2. loop = NoLoop /\ loop' = NoLoop
  BY <1>1, IdleLoop
<1>3. key \in Keys /\ key \in Users
  BY PinSlot
<1>4. users' \subseteq Users
  <2>1. users' \subseteq users \cup {key}
    BY DEF UserCodeSet
  <2> QED BY <1>3, <2>1, CoreTypes
<1>5. CASE UNCHANGED <<ram, pc, call, result>>
  <2>1. UNCHANGED <<n_credentials, credentials_buffer_head>>
    BY <1>5 DEF ram
  <2> QED BY <1>1, <1>2, <1>4, <1>5, <2>1, CoreTypes, RestOK
<1>6. CASE /\ UNCHANGED n_credentials /\ credentials_buffer_head' \in Offsets
           /\ (Over /\ result' = "none") \/ Started
  <2>1. result' \in {"none", "SUCCESS"}
    BY <1>6 DEF Started
  <2> QED BY <1>1, <1>2, <1>4, <1>6, <2>1, CoreTypes, BeginOK
<1>7. CASE Stored(key) /\ modify_credential(metadata[Entry(key).object].user, key, code)
  BY <1>3, <1>6, <1>7, ModifyStarts, CoreTypes DEF CoreInv, ram
<1>8. CASE ~Stored(key) /\ add_credential(key, key, code)
  BY <1>3, <1>6, <1>8, AddStarts DEF CoreInv
<1> QED BY <1>5, <1>7, <1>8 DEF UserCodeSet

LEMMA AdminCodeSetOK ==
  ASSUME CoreInv, NEW code \in Codes \cup {NoCode}, AdminCodeSet(code)
  PROVE  CoreInv'
<1>1. /\ pc = "idle" /\ pc' = "idle" /\ loop' = loop
      /\ admin' = code \/ admin' = admin
      /\ Fault \/ NoFault
      /\ UNCHANGED <<table, metadata, data, torn, n_credentials, number, users,
                     credentials_buffer_head, result, spoiled>>
  BY DEF AdminCodeSet, ram
<1>2. faults' \in 0 .. MaxFaults
  BY <1>1, CoreTypes, FaultType
<1> QED BY <1>1, <1>2, CoreTypes, IdleLoop, RestOK

LEMMA DeleteOK ==
  ASSUME CoreInv, NEW sequence \in Seq(Users), NEW type \in Types \cup {"any"},
         NEW drop \in BOOLEAN, Delete(sequence, type, drop)
  PROVE  CoreInv'
<1> DEFINE target == get_next_credential(Head(sequence), type, 0)
<1>1. target \in Keys \cup {0}
  BY NextIsLeast DEF CoreInv
<1>2. /\ sequence # <<>> /\ pc' = "loop" /\ result' = "none"
      /\ loop' = [users |-> sequence, filter |-> type, drop |-> drop, target |-> target]
      /\ UNCHANGED <<table, metadata, data, torn, n_credentials, number, users, admin,
                     credentials_buffer_head, faults, spoiled>>
  BY DEF Delete, ram, files, history
<1> HIDE DEF target
<1>3. loop' \in Loops /\ loop' # NoLoop
  BY <1>1, <1>2 DEF Loops, NoLoop
<1> QED BY <1>2, <1>3, CoreTypes, RestOK

LEMMA AscendingType ==
  ASSUME CoreInv, NEW s \in Ascending(users)
  PROVE  s \in Seq(Users)
<1>1. Cardinality(users) \in Nat
  <2>1. IsFiniteSet(users)
    BY CoreTypes, CredentialAssumption, FS_Subset
  <2> QED BY <2>1, FS_CardinalityType
<1>2. s \in [1 .. Cardinality(users) -> Users]
  BY CoreTypes DEF Ascending
<1> QED BY <1>1, <1>2, SeqDef

LEMMA AddDefaultUserOK ==
  ASSUME CoreInv, AddDefaultUser
  PROVE  CoreInv'
<1>1. /\ pc = "idle" /\ pc' = "add default" /\ loop' = loop /\ users' = {1}
      /\ UNCHANGED <<table, metadata, data, torn, n_credentials, number, admin,
                     credentials_buffer_head, result, faults, spoiled>>
  BY DEF AddDefaultUser, Start, files, ram, history
<1>2. 1 \in 1 .. PinSlots
  BY CredentialAssumption
<1>3. users' \subseteq Users
  BY <1>1, <1>2, PinSlot
<1> QED BY <1>1, <1>3, CoreTypes, IdleLoop, RestOK

LEMMA FactoryResetOK ==
  ASSUME CoreInv, FactoryReset
  PROVE  CoreInv'
<1>1. /\ pc = "idle" /\ pc' = "reset users" /\ loop' = loop /\ n_credentials' = 0
      /\ result' = "none"
      /\ UNCHANGED <<table, metadata, data, torn, number, admin, users,
                     credentials_buffer_head, faults, spoiled>>
  BY DEF FactoryReset, files, history
<1> QED BY <1>1, CoreTypes, IdleLoop, RestOK

LEMMA CommandsOK ==
  ASSUME CoreInv, Commands
  PROVE  CoreInv'
<1>1. ASSUME NEW user \in Users, AddUser(user) PROVE CoreInv'
  BY <1>1, AddUserOK
<1>2. ASSUME NEW user \in Users, NEW key \in Keys, NEW code \in Codes,
             CredentialSet(user, key, code)
      PROVE  CoreInv'
  BY <1>2, CredentialSetOK
<1>3. ASSUME NEW key \in Keys, CredentialDelete(key) PROVE CoreInv'
  BY <1>3, CredentialDeleteOK
<1>4. ASSUME NEW key \in Keys, NEW user \in Users, AssociationSet(key, user) PROVE CoreInv'
  BY <1>4, AssociationSetOK
<1>5. ASSUME NEW key \in 1 .. PinSlots, NEW code \in Codes, UserCodeSet(key, code)
      PROVE  CoreInv'
  BY <1>5, UserCodeSetOK
<1>6. ASSUME NEW code \in Codes \cup {NoCode}, AdminCodeSet(code) PROVE CoreInv'
  BY <1>6, AdminCodeSetOK
<1>7. ASSUME NEW user \in Users, NEW type \in Types \cup {"any"}, NEW drop \in BOOLEAN,
             Delete(<<user>>, type, drop)
      PROVE  CoreInv'
  <2>1. <<user>> \in Seq(Users)
    OBVIOUS
  <2> QED BY <1>7, <2>1, DeleteOK
<1>8. ASSUME NEW sequence \in Ascending(users), NEW type \in Types \cup {"any"},
             NEW drop \in BOOLEAN, Delete(sequence, type, drop)
      PROVE  CoreInv'
  BY <1>8, AscendingType, DeleteOK
<1>9. CASE AddDefaultUser
  BY <1>9, AddDefaultUserOK
<1>10. CASE FactoryReset
  BY <1>10, FactoryResetOK
<1>11. users \subseteq Users
  BY CoreTypes
<1> QED
  BY <1>1, <1>2, <1>3, <1>4, <1>5, <1>6, <1>7, <1>8, <1>9, <1>10, <1>11 DEF Commands
-------------------------------------------------------------------------------
(* The inductive invariant: the writes *)

\* The files and what the code relies on in them.
FilesOK ==
  /\ table \in Seq(Descriptors) /\ Len(table) <= Capacity /\ Sound(table)
  /\ metadata \in [Offsets -> [user : Users, length : Nat \ {0}] \cup {NoMetadata}]
  /\ \A i \in 1 .. Len(table) : metadata[table[i].object] # NoMetadata
  /\ data \in [Offsets -> Codes \cup {NoCode}]
  /\ torn \subseteq Offsets \X {"user", "data"}

LEMMA CoreFiles ==
  ASSUME CoreInv
  PROVE  FilesOK /\ SideTypes
BY DEF CoreInv, CredentialTypeOK, FilesOK, SideTypes

LEMMA CoreStep ==
  ASSUME FilesOK', SideTypes', LoopOK', CallOK'
  PROVE  CoreInv'
<1>1. loop'.target \in Keys \cup {0} /\ loop'.users \in Seq(Users)
  BY LoopType DEF LoopOK
<1>2. CredentialTypeOK'
  BY <1>1 DEF FilesOK, SideTypes, CredentialTypeOK
<1> QED BY <1>2 DEF CoreInv, FilesOK

\* Nothing is seen of a write to an object.
LEMMA SameTable ==
  ASSUME UNCHANGED <<n_credentials, table>>
  PROVE  /\ TableReadable' = TableReadable /\ Entries' = Entries
         /\ \A key : Stored(key)' = Stored(key) /\ Entry(key)' = Entry(key)
         /\ \A o : Owned(o)' = Owned(o)
BY DEF TableReadable, Entries, Stored, Entry, Owned

\* The call remembers whether the metadata was written.
Outcome(c, ok) == [f \in DOMAIN c \cup {"ok"} |-> IF f = "ok" THEN ok ELSE c[f]]

LEMMA Recorded ==
  ASSUME NEW c, NEW b \in BOOLEAN, Fields(c)
  PROVE  LET d == Outcome(c, b)
         IN  /\ d.operation = c.operation /\ d.key = c.key /\ d.user = c.user
             /\ d.object = c.object /\ d.ok = b /\ "ok" \in DOMAIN d
             /\ c.operation # "move" => d.code = c.code
BY DEF Fields, Outcome

LEMMA HeaderType ==
  ASSUME NEW c, c.user \in Users, c.code \in Codes
  PROVE  Header(c) \in [user : Users, length : Nat \ {0}] /\ Header(c) # NoMetadata
<1>1. CodeLength[c.code] \in Nat \ {0}
  BY CredentialAssumption
<1> QED BY <1>1 DEF Header, NoMetadata

\* What is known of the call before the metadata is written.
LEMMA WriteMetadataCall ==
  ASSUME CoreInv, WriteMetadata
  PROVE  /\ loop = NoLoop /\ loop' = NoLoop /\ pc = "metadata" /\ result = "none"
         /\ UNCHANGED <<n_credentials, credentials_buffer_head, number, table, data, admin,
                        users, spoiled>>
         /\ Arguments(call) /\ Fields(call) /\ Fresh(call)
         /\ call.operation \in {"add", "modify", "move"}
         /\ call.key \in Keys /\ call.user \in Users /\ call.object \in Offsets
<1>1. pc = "metadata" /\ loop' = loop
  BY DEF WriteMetadata
<1>2. Arguments(call) /\ Fields(call) /\ Fresh(call) /\ Order(pc, call) /\ result = "none"
  BY <1>1 DEF CoreInv, CallOK, Writing
<1>3. loop = NoLoop
  BY <1>1, IdleLoop
<1> QED BY <1>1, <1>2, <1>3 DEF WriteMetadata, ram, Arguments, Order

LEMMA WriteMetadataOK ==
  ASSUME CoreInv, WriteMetadata
  PROVE  CoreInv'
<1> DEFINE o == call.object
<1>1. /\ loop' = NoLoop /\ pc = "metadata" /\ result = "none"
      /\ UNCHANGED <<n_credentials, credentials_buffer_head, number, table, data, admin,
                     users, spoiled>>
      /\ Arguments(call) /\ Fields(call) /\ Fresh(call)
      /\ call.operation \in {"add", "modify", "move"}
      /\ call.key \in Keys /\ call.user \in Users /\ o \in Offsets
  BY WriteMetadataCall
<1>2. PICK ok \in BOOLEAN :
       /\ IF ok THEN NoFault ELSE Fault
       /\ metadata' = IF ~ok THEN metadata
                      ELSE IF call.operation = "move" THEN [metadata EXCEPT ![o].user = call.user]
                      ELSE [metadata EXCEPT ![o] = [user |-> call.user,
                                                    length |-> CodeLength[call.code]]]
       /\ torn' = torn \cup {<<o, IF call.operation = "move" THEN "user" ELSE "data">>}
       /\ IF call.operation = "add" /\ ~ok THEN Return("none")
          ELSE /\ pc' = IF call.operation = "move" THEN "table" ELSE "data"
               /\ call' = Outcome(call, ok)
               /\ UNCHANGED result
  BY DEF WriteMetadata, Outcome
<1>3. call.operation # "move" => call.code \in Codes
  BY <1>1 DEF Arguments
<1> DEFINE M == [user : Users, length : Nat \ {0}]
<1>4. /\ metadata \in [Offsets -> M \cup {NoMetadata}]
      /\ \A i \in 1 .. Len(table) : metadata[table[i].object] # NoMetadata
      /\ FilesOK /\ SideTypes
  BY CoreFiles DEF FilesOK
<1>5. call.operation = "move" => metadata[o] \in M
  <2> SUFFICES ASSUME call.operation = "move" PROVE metadata[o] \in M
    OBVIOUS
  <2>1. Stored(call.key) /\ o = Entry(call.key).object
    BY <1>1 DEF Fresh
  <2>2. Entry(call.key) \in Entries
    BY <2>1, StoredEntry
  <2>3. \E i \in 1 .. Len(table) : Entry(call.key) = table[i]
    BY <2>2, EntryPlace DEF CoreInv
  <2>4. metadata[o] # NoMetadata
    BY <1>4, <2>1, <2>3
  <2> QED BY <1>1, <1>4, <2>4
<1>6. \E m \in M : metadata' = metadata \/ metadata' = [metadata EXCEPT ![o] = m]
  <2>1. CASE ~ok
    <3>1. [user |-> call.user, length |-> 1] \in M
      BY <1>1
    <3> QED BY <1>2, <2>1, <3>1
  <2>2. CASE ok /\ call.operation = "move"
    <3>1. [metadata[o] EXCEPT !.user = call.user] \in M
      BY <1>1, <1>5, <2>2
    <3> QED BY <1>2, <2>2, <3>1
  <2>3. CASE ok /\ call.operation # "move"
    <3>1. Header(call) \in M
      BY <1>1, <1>3, <2>3, HeaderType
    <3> QED BY <1>2, <2>3, <3>1 DEF Header
  <2> QED BY <2>1, <2>2, <2>3
<1>7. /\ metadata' \in [Offsets -> M \cup {NoMetadata}]
      /\ \A i \in 1 .. Len(table) : metadata'[table[i].object] # NoMetadata
  <2>1. PICK m \in M : metadata' = metadata \/ metadata' = [metadata EXCEPT ![o] = m]
    BY <1>6
  <2>2. m # NoMetadata
    BY DEF NoMetadata
  <2>3. \A i \in 1 .. Len(table) : table[i].object \in Offsets
    BY <1>4, ElementType, DescriptorType DEF FilesOK
  <2> QED BY <1>1, <1>4, <2>1, <2>2, <2>3
<1>8. FilesOK'
  <2>1. torn' \subseteq Offsets \X {"user", "data"}
    BY <1>1, <1>2, <1>4 DEF FilesOK
  <2> QED BY <1>1, <1>4, <1>7, <2>1 DEF FilesOK, Sound
<1>9. pc' \in {"idle", "table", "data"} /\ result' = "none"
  BY <1>1, <1>2, WriteMetadataCall DEF Return
<1>10. SideTypes'
  <2>1. faults' \in 0 .. MaxFaults
    BY <1>2, <1>4, FaultType DEF SideTypes
  <2> QED BY <1>1, <1>4, <1>9, <2>1 DEF SideTypes
<1>11. LoopOK'
  BY <1>1, <1>9 DEF LoopOK, Loops
<1>12. CallOK'
  <2>1. CASE call.operation = "add" /\ ~ok
    <3>1. pc' = "idle"
      BY <1>2, <2>1, WriteMetadataCall DEF Return
    <3> QED BY <3>1, NoCallOK DEF Writing
  <2>2. CASE ~(call.operation = "add" /\ ~ok)
    <3>1. /\ pc' = IF call.operation = "move" THEN "table" ELSE "data"
          /\ call' = Outcome(call, ok)
      BY <1>2, <2>2
    <3>2. /\ call'.operation = call.operation /\ call'.key = call.key
          /\ call'.user = call.user /\ call'.object = call.object /\ call'.ok = ok
          /\ call.operation # "move" => call'.code = call.code
      BY <1>1, <3>1, Recorded
    <3>3. Arguments(call)' /\ Order(pc, call)'
      BY <1>1, <2>2, <3>1, <3>2 DEF Arguments, Order
    <3>4. Fresh(call)'
      BY <1>1, <3>2, SameTable DEF Fresh
    <3>5. pc' = "data" /\ call'.ok => metadata'[call'.object] = Header(call')
      BY <1>1, <1>2, <1>4, <3>1, <3>2 DEF Header
    <3> QED BY <1>1, <1>9, <3>1, <3>2, <3>3, <3>4, <3>5 DEF CallOK, Header
  <2> QED BY <2>1, <2>2
<1> QED BY <1>8, <1>10, <1>11, <1>12, CoreStep

LEMMA WriteDataCall ==
  ASSUME CoreInv, WriteData
  PROVE  /\ loop = NoLoop /\ loop' = NoLoop /\ pc = "data" /\ result = "none"
         /\ UNCHANGED <<n_credentials, credentials_buffer_head, number, table, metadata, admin,
                        users, spoiled>>
         /\ Arguments(call) /\ Fresh(call)
         /\ call.operation \in {"add", "modify"} /\ call.ok \in BOOLEAN
         /\ call.operation = "add" => call.ok
         /\ call.ok => metadata[call.object] = Header(call)
         /\ call.key \in Keys /\ call.user \in Users /\ call.object \in Offsets
         /\ call.code \in Codes
<1>1. pc = "data" /\ loop' = loop
  BY DEF WriteData
<1>2. /\ Arguments(call) /\ Fresh(call) /\ Order(pc, call) /\ result = "none"
      /\ call.ok => metadata[call.object] = Header(call)
  BY <1>1 DEF CoreInv, CallOK, Writing
<1>3. loop = NoLoop
  BY <1>1, IdleLoop
<1> QED BY <1>1, <1>2, <1>3 DEF WriteData, ram, Arguments, Order

LEMMA WriteDataOK ==
  ASSUME CoreInv, WriteData
  PROVE  CoreInv'
<1>1. /\ loop = NoLoop /\ loop' = NoLoop /\ pc = "data" /\ result = "none"
      /\ UNCHANGED <<n_credentials, credentials_buffer_head, number, table, metadata, admin,
                     users, spoiled>>
      /\ Arguments(call) /\ Fresh(call)
      /\ call.operation \in {"add", "modify"} /\ call.ok \in BOOLEAN
      /\ call.operation = "add" => call.ok
      /\ call.ok => metadata[call.object] = Header(call)
      /\ call.object \in Offsets /\ call.code \in Codes
  BY WriteDataCall
<1>2. FilesOK /\ SideTypes
  BY CoreFiles
<1>3. CASE Fault /\ Return("none") /\ UNCHANGED <<data, torn>>
  <2>1. pc' = "idle" /\ result' = "none"
    BY <1>1, <1>3 DEF Return
  <2>2. faults' \in 0 .. MaxFaults
    BY <1>2, <1>3, FaultType DEF SideTypes
  <2> QED BY <1>1, <1>3, <2>1, <2>2, CoreTypes, RestOK
<1>4. CASE /\ NoFault
           /\ data' = [data EXCEPT ![call.object] = call.code]
           /\ torn' = IF call.ok THEN torn \ {<<call.object, "user">>, <<call.object, "data">>}
                      ELSE torn
           /\ IF call.operation = "add" THEN pc' = "table" /\ UNCHANGED <<call, result>>
              ELSE Return(IF call.ok THEN "SUCCESS" ELSE "none")
  <2>1. FilesOK'
    <3>1. torn' \subseteq Offsets \X {"user", "data"}
      BY <1>2, <1>4 DEF FilesOK
    <3>2. data' \in [Offsets -> Codes \cup {NoCode}]
      BY <1>1, <1>2, <1>4 DEF FilesOK
    <3> QED BY <1>1, <1>2, <3>1, <3>2 DEF FilesOK, Sound
  <2>2. pc' \in {"idle", "table"} /\ result' \in {"none", "SUCCESS"}
    BY <1>1, <1>4 DEF Return
  <2>3. SideTypes'
    <3>1. faults' \in 0 .. MaxFaults
      BY <1>2, <1>4, FaultType DEF SideTypes
    <3> QED BY <1>1, <1>2, <2>2, <3>1 DEF SideTypes
  <2>4. LoopOK'
    BY <1>1, <2>2 DEF LoopOK, Loops
  <2>5. CallOK'
    <3>1. CASE call.operation = "add"
      <4>1. pc' = "table" /\ call' = call /\ result' = "none"
        BY <1>1, <1>4, <3>1
      <4>2. Fresh(call)'
        BY <1>1, <4>1, SameTable DEF Fresh
      <4>3. Arguments(call)' /\ Order(pc, call)'
        BY <1>1, <3>1, <4>1 DEF Arguments, Order
      <4>4. metadata'[call'.object] = Header(call') /\ data'[call'.object] = call'.code
        BY <1>1, <1>2, <1>4, <3>1, <4>1 DEF FilesOK
      <4> QED BY <4>1, <4>2, <4>3, <4>4 DEF CallOK, Header
    <3>2. CASE call.operation # "add"
      <4>1. pc' = "idle"
        BY <1>1, <1>4, <3>2 DEF Return
      <4> QED BY <4>1, NoCallOK DEF Writing
    <3> QED BY <3>1, <3>2
  <2> QED BY <2>1, <2>3, <2>4, <2>5, CoreStep
<1> QED BY <1>3, <1>4 DEF WriteData

\* A table of n_credentials entries is read in full.
LEMMA ReadAll ==
  ASSUME table' \in Seq(Descriptors), n_credentials' = Len(table')
  PROVE  TableReadable' /\ Entries' = Elements(table')
<1>1. TableReadable'
  BY DEF TableReadable, ReadSucceeds
<1> QED BY <1>1 DEF Entries, Elements

\* What a reader finds after the table was written.
LEMMA TableWritten ==
  ASSUME CoreInv, pc = "table", n_credentials' = Len(NewTable),
         table' = IF NewTable = <<>> THEN table ELSE Written(table, NewTable, ChunkEntries)
  PROVE  /\ n_credentials' \in 0 .. Capacity /\ table' \in {table, NewTable}
         /\ table' \in Seq(Descriptors) /\ Len(table') <= Capacity /\ Sound(table')
         /\ call.operation = "add" =>
              /\ n_credentials' = n_credentials + 1 /\ table' = NewTable
              /\ TableReadable' /\ Entries' = Entries \cup {NewDescriptor}
         /\ call.operation = "delete" =>
              /\ n_credentials' = n_credentials - 1
              /\ n_credentials = Len(table) /\ Len(NewTable) = n_credentials - 1
              /\ TableReadable' => Entries' = {e \in Entries : e.key # call.key}
         /\ call.operation = "move" =>
              /\ n_credentials' = n_credentials /\ table' = NewTable /\ TableReadable'
              /\ Entries' = {e \in Entries : e.key # call.key}
                              \cup {[Entry(call.key) EXCEPT !.user = call.user]}
<1>1. /\ n_credentials \in Nat /\ n_credentials <= Capacity /\ Capacity \in Nat
      /\ table \in Seq(Descriptors) /\ Len(table) \in Nat /\ Len(table) <= Capacity
      /\ CredentialTypeOK /\ Sound(table)
  BY Numbers DEF CoreInv
<1>2. call.operation \in {"add", "delete", "move"} /\ Fresh(call)
  BY DEF CoreInv, CallOK, Order
<1>3. CASE call.operation = "add"
  <2>1. /\ NewTable \in Seq(Descriptors) /\ Len(NewTable) = n_credentials + 1
        /\ Sound(NewTable) /\ Elements(NewTable) = Entries \cup {NewDescriptor}
    BY <1>3, NewTableAdd
  <2>2. TableReadable /\ n_credentials < Capacity
    BY <1>2, <1>3 DEF Fresh
  <2>3. NewTable # <<>>
    BY <1>1, <2>1
  <2>4. table' = NewTable
    BY <1>1, <2>1, <2>2, <2>3, GrownIsWritten
  <2>5. TableReadable' /\ Entries' = Elements(table')
    BY <2>1, <2>4, ReadAll
  <2>6. n_credentials' \in 0 .. Capacity /\ Len(NewTable) <= Capacity
    BY <1>1, <2>1, <2>2
  <2> QED BY <1>3, <2>1, <2>4, <2>5, <2>6
<1>4. CASE call.operation = "delete"
  <2>1. /\ n_credentials = Len(table) /\ n_credentials # 0
        /\ NewTable \in Seq(Descriptors) /\ Sound(NewTable)
        /\ Len(NewTable) = n_credentials - 1
        /\ Elements(NewTable) = {e \in Entries : e.key # call.key}
    BY <1>4, NewTableOld
  <2>2. table' \in {table, NewTable}
    BY WrittenOldOrNew
  <2>3. n_credentials' \in 0 .. Capacity /\ Len(NewTable) <= Capacity
    BY <1>1, <2>1
  <2>4. TableReadable' => Entries' = {e \in Entries : e.key # call.key}
    <3>1. CASE table' = NewTable
      BY <2>1, <3>1, ReadAll
    <3>2. CASE table' # NewTable
      <4>1. table' = table
        BY <2>2, <3>2
      <4> SUFFICES ASSUME TableReadable' PROVE Entries' = {e \in Entries : e.key # call.key}
        OBVIOUS
      <4>2. n_credentials' = 0
        BY <1>1, <2>1, <4>1 DEF TableReadable, ReadSucceeds
      <4>3. Entries' = {}
        BY <4>2 DEF Entries
      <4>4. NewTable = <<>>
        BY <2>1, <4>2, EmptySeq
      <4>5. Elements(NewTable) = {}
        BY <4>4 DEF Elements
      <4> QED BY <2>1, <4>3, <4>5
    <3> QED BY <3>1, <3>2
  <2> QED BY <1>1, <1>4, <2>1, <2>2, <2>3, <2>4
<1>5. CASE call.operation = "move"
  <2>1. /\ n_credentials = Len(table) /\ n_credentials # 0
        /\ NewTable \in Seq(Descriptors) /\ Sound(NewTable)
        /\ Len(NewTable) = n_credentials
        /\ Elements(NewTable) = {e \in Entries : e.key # call.key}
                                  \cup {[Entry(call.key) EXCEPT !.user = call.user]}
    BY <1>5, NewTableOld
  <2>2. NewTable # <<>>
    BY <1>1, <2>1
  <2>3. table' = NewTable
    BY <1>1, <2>1, <2>2, SameLengthIsWritten
  <2>4. TableReadable' /\ Entries' = Elements(table')
    BY <2>1, <2>3, ReadAll
  <2> QED BY <1>1, <1>5, <2>1, <2>3, <2>4
<1> QED BY <1>2, <1>3, <1>4, <1>5

\* A successful write of the table.
TableStep ==
  /\ NoFault
  /\ n_credentials' = Len(NewTable)
  /\ table' = IF NewTable = <<>> THEN table ELSE Written(table, NewTable, ChunkEntries)
  /\ torn' = IF call.operation = "move" /\ "ok" \in DOMAIN call /\ call.ok
             THEN torn \ {<<call.object, "user">>} ELSE torn
  /\ IF call.operation = "move" THEN Return("SUCCESS")
     ELSE pc' = "number" /\ UNCHANGED <<call, result>>
  /\ UNCHANGED spoiled

TableFault ==
  /\ Fault /\ Return("none")
  /\ spoiled' = IF loop = NoLoop THEN spoiled ELSE spoiled \cup {"delete"}
  /\ UNCHANGED <<n_credentials, table, torn>>

LEMMA WriteTableCall ==
  ASSUME CoreInv, WriteTable
  PROVE  /\ pc = "table" /\ loop' = loop /\ loop \in Loops
         /\ UNCHANGED <<credentials_buffer_head, number, metadata, data, admin, users>>
         /\ TableStep \/ TableFault
         /\ call.operation \in {"add", "delete", "move"}
         /\ Arguments(call) /\ Fresh(call) /\ result = "none"
         /\ loop # NoLoop => call.operation = "delete"
<1>1. pc = "table"
  BY DEF WriteTable
<1>2. Arguments(call) /\ Fresh(call) /\ Order(pc, call) /\ result = "none"
  BY <1>1 DEF CoreInv, CallOK, Writing
<1>3. loop \in Loops /\ (loop # NoLoop => call.operation = "delete")
  BY <1>1 DEF CoreInv, LoopOK
<1> QED BY <1>1, <1>2, <1>3 DEF WriteTable, TableStep, TableFault, Order

\* Every entry of the written table has metadata.
LEMMA WrittenMetadata ==
  ASSUME CoreInv, WriteTable, TableStep
  PROVE  FilesOK'
<1>1. /\ pc = "table" /\ UNCHANGED <<metadata, data>> /\ Arguments(call) /\ Fresh(call)
      /\ call.operation \in {"add", "delete", "move"}
  BY WriteTableCall
<1>2. FilesOK
  BY CoreFiles
<1>3. /\ table' \in {table, NewTable}
      /\ table' \in Seq(Descriptors) /\ Len(table') <= Capacity /\ Sound(table')
  BY <1>1, TableWritten DEF TableStep
<1>4. \A e \in Elements(table) : metadata[e.object] # NoMetadata
  BY <1>2 DEF FilesOK, Elements
<1>5. Entries \subseteq Elements(table)
  BY EntryPlace DEF CoreInv, Elements
<1>6. \A e \in Elements(NewTable) : metadata[e.object] # NoMetadata
  <2>1. CASE call.operation = "add"
    <3>1. Elements(NewTable) = Entries \cup {NewDescriptor}
      BY <1>1, <2>1, NewTableAdd
    <3>2. metadata[call.object] = Header(call) /\ call.user \in Users /\ call.code \in Codes
      BY <1>1, <2>1 DEF CoreInv, CallOK, Arguments
    <3>3. metadata[NewDescriptor.object] # NoMetadata
      BY <3>2, HeaderType DEF NewDescriptor
    <3> QED BY <1>4, <1>5, <3>1, <3>3
  <2>2. CASE call.operation = "delete"
    BY <1>1, <1>4, <1>5, <2>2, NewTableOld
  <2>3. CASE call.operation = "move"
    <3>1. Elements(NewTable) = {e \in Entries : e.key # call.key}
                                 \cup {[Entry(call.key) EXCEPT !.user = call.user]}
      BY <1>1, <2>3, NewTableOld
    <3>2. Entry(call.key) \in Entries /\ Entry(call.key) \in Descriptors
      BY <1>1, <2>3, EntryObject DEF Fresh, CoreInv
    <3>3. [Entry(call.key) EXCEPT !.user = call.user].object = Entry(call.key).object
      BY <3>2 DEF Descriptors
    <3> QED BY <1>4, <1>5, <3>1, <3>2, <3>3
  <2> QED BY <1>1, <2>1, <2>2, <2>3
<1>7. \A i \in 1 .. Len(table') : metadata'[table'[i].object] # NoMetadata
  BY <1>1, <1>3, <1>4, <1>6 DEF Elements
<1>8. torn' \subseteq torn
  BY DEF TableStep
<1> QED BY <1>1, <1>2, <1>3, <1>7, <1>8 DEF FilesOK, Sound

LEMMA WriteTableOK ==
  ASSUME CoreInv, WriteTable
  PROVE  CoreInv'
<1>1. /\ pc = "table" /\ loop' = loop /\ loop \in Loops
      /\ UNCHANGED <<credentials_buffer_head, number, metadata, data, admin, users>>
      /\ TableStep \/ TableFault
      /\ call.operation \in {"add", "delete", "move"}
      /\ Arguments(call) /\ Fresh(call) /\ result = "none"
      /\ loop # NoLoop => call.operation = "delete"
  BY WriteTableCall
<1>2. FilesOK /\ SideTypes
  BY CoreFiles
<1>3. CASE TableFault
  <2>1. faults' \in 0 .. MaxFaults
    BY <1>2, <1>3, FaultType DEF SideTypes, TableFault
  <2>2. spoiled' \subseteq {"number", "delete", "reset"}
    BY <1>2, <1>3 DEF SideTypes, TableFault
  <2>3. /\ pc' = IF loop = NoLoop THEN "idle" ELSE "loop"
        /\ result' = "none" /\ UNCHANGED <<n_credentials, table, torn>>
    BY <1>3 DEF TableFault, Return
  <2> QED BY <1>1, <2>1, <2>2, <2>3, CoreTypes, RestOK
<1>4. CASE TableStep
  <2>1. FilesOK'
    BY <1>4, WrittenMetadata
  <2>2. n_credentials' \in 0 .. Capacity
    BY <1>1, <1>4, TableWritten DEF TableStep
  <2>3. /\ call.operation = "move" => pc' = "idle" /\ result' = "SUCCESS"
        /\ call.operation # "move" => pc' = "number" /\ call' = call /\ result' = "none"
    BY <1>1, <1>4 DEF TableStep, Return
  <2>4. SideTypes'
    BY <1>1, <1>2, <1>4, <2>2, <2>3 DEF SideTypes, TableStep, NoFault
  <2>5. LoopOK'
    BY <1>1, <2>3 DEF LoopOK
  <2>6. CallOK'
    <3>1. CASE call.operation = "move"
      BY <2>3, <3>1, NoCallOK DEF Writing
    <3>2. CASE call.operation # "move"
      <4>1. pc' = "number" /\ call' = call /\ result' = "none"
        BY <2>3, <3>2
      <4>2. Arguments(call)' /\ Order(pc, call)'
        BY <1>1, <3>2, <4>1 DEF Arguments, Order
      <4>3. call.operation = "add" =>
              /\ metadata'[call'.object] = Header(call') /\ data'[call'.object] = call'.code
              /\ n_credentials' # 0 /\ TableReadable'
              /\ [key |-> call'.key, user |-> call'.user, object |-> call'.object] \in Entries'
        <5> SUFFICES ASSUME call.operation = "add"
                     PROVE  /\ metadata'[call'.object] = Header(call')
                            /\ data'[call'.object] = call'.code
                            /\ n_credentials' # 0 /\ TableReadable'
                            /\ [key |-> call'.key, user |-> call'.user, object |-> call'.object]
                                 \in Entries'
          OBVIOUS
        <5>1. metadata[call.object] = Header(call) /\ data[call.object] = call.code
          BY <1>1 DEF CoreInv, CallOK
        <5>2. /\ n_credentials' = n_credentials + 1 /\ TableReadable'
              /\ Entries' = Entries \cup {NewDescriptor}
          BY <1>1, <1>4, TableWritten DEF TableStep
        <5>3. n_credentials \in Nat
          BY Numbers DEF CoreInv
        <5>4. n_credentials' # 0
          BY <5>2, <5>3
        <5> QED BY <1>1, <4>1, <5>1, <5>2, <5>4 DEF NewDescriptor
      <4>4. call.operation = "delete" =>
              n_credentials' < Capacity /\ \A e \in Entries' : e.key # call'.key
        <5> SUFFICES ASSUME call.operation = "delete"
                     PROVE  n_credentials' < Capacity /\ \A e \in Entries' : e.key # call'.key
          OBVIOUS
        <5>1. /\ n_credentials' = n_credentials - 1
              /\ TableReadable' => Entries' = {e \in Entries : e.key # call.key}
          BY <1>1, <1>4, TableWritten DEF TableStep
        <5>2. n_credentials' < Capacity
          BY <5>1, Numbers DEF CoreInv
        <5>3. ~TableReadable' => Entries' = {}
          BY DEF Entries
        <5> QED BY <4>1, <5>1, <5>2, <5>3
      <4> QED BY <4>1, <4>2, <4>3, <4>4 DEF CallOK, Header
    <3> QED BY <3>1, <3>2
  <2> QED BY <2>1, <2>4, <2>5, <2>6, CoreStep
<1> QED BY <1>1, <1>3, <1>4

\* Operations return to the bulk deletion or to the event loop.
LEMMA ReturnOK ==
  ASSUME CoreInv, NEW code \in {"none", "SUCCESS"}, Return(code), loop' = loop,
         UNCHANGED <<table, metadata, data, torn>>,
         n_credentials' \in 0 .. Capacity, number' \in 0 .. Capacity,
         credentials_buffer_head' \in Offsets, admin' \in Codes \cup {NoCode},
         users' \subseteq Users, faults' \in 0 .. MaxFaults,
         spoiled' \subseteq {"number", "delete", "reset"}
  PROVE  CoreInv'
<1>1. pc' = (IF loop = NoLoop THEN "idle" ELSE "loop") /\ result' = code
  BY DEF Return
<1>2. loop \in Loops
  BY DEF CoreInv, LoopOK
<1> QED BY <1>1, <1>2, RestOK

LEMMA WriteNumberOK ==
  ASSUME CoreInv, WriteNumber
  PROVE  CoreInv'
<1>1. pc = "number" /\ loop' = loop /\ UNCHANGED <<table, metadata, data, torn, admin, users>>
  BY DEF WriteNumber
<1>2. n_credentials \in Nat /\ n_credentials <= Capacity /\ Capacity \in Nat
  BY Numbers DEF CoreInv
<1>3. call.operation = "add" => n_credentials # 0
  BY <1>1 DEF CoreInv, CallOK
<1>4. CASE /\ NoFault /\ number' = n_credentials
           /\ credentials_buffer_head' =
                IF call.operation = "delete" /\ credentials_buffer_head >= n_credentials THEN 0
                ELSE credentials_buffer_head
           /\ Return("SUCCESS")
           /\ UNCHANGED <<n_credentials, spoiled>>
  <2>1. credentials_buffer_head' \in Offsets
    BY <1>4, CoreTypes
  <2>2. faults' \in 0 .. MaxFaults
    BY <1>4, CoreTypes, FaultType
  <2> QED BY <1>1, <1>4, <2>1, <2>2, CoreTypes, ReturnOK
<1>5. CASE /\ Fault /\ Return("none")
           /\ n_credentials' = IF call.operation = "add" THEN n_credentials - 1 ELSE n_credentials
           /\ spoiled' = spoiled \cup {"number"}
           /\ UNCHANGED <<number, credentials_buffer_head>>
  <2>1. n_credentials' \in 0 .. Capacity
    BY <1>2, <1>3, <1>5
  <2>2. faults' \in 0 .. MaxFaults
    BY <1>5, CoreTypes, FaultType
  <2>3. spoiled' \subseteq {"number", "delete", "reset"}
    BY <1>5, CoreTypes
  <2> QED BY <1>1, <1>5, <2>1, <2>2, <2>3, CoreTypes, ReturnOK
<1> QED BY <1>4, <1>5 DEF WriteNumber

LEMMA DeleteTargetOK ==
  ASSUME CoreInv, DeleteTarget
  PROVE  CoreInv'
<1>1. /\ pc = "loop" /\ loop.target # 0 /\ loop' = [loop EXCEPT !.target = NextTarget]
      /\ delete_credential(loop.target)
      /\ UNCHANGED <<number, table, metadata, data, admin, users, faults, torn, spoiled>>
  BY DEF DeleteTarget, files, history
<1>2. loop \in Loops /\ loop # NoLoop
  BY <1>1 DEF CoreInv, LoopOK
<1>3. loop.target \in Keys
  BY <1>1, <1>2, LoopType
<1>4. NextTarget \in Keys \cup {0}
  BY NextIsLeast DEF NextTarget, CoreInv
<1>5. loop' \in Loops /\ loop' # NoLoop
  <2>1. loop \in [users : Seq(Users), filter : Types \cup {"any"}, drop : BOOLEAN,
                  target : Keys \cup {0}] /\ loop.users # <<>>
    BY <1>2, LoopType
  <2>2. loop' \in [users : Seq(Users), filter : Types \cup {"any"}, drop : BOOLEAN,
                   target : Keys \cup {0}] /\ loop'.users # <<>>
    BY <1>1, <1>4, <2>1
  <2> QED BY <2>2 DEF Loops, NoLoop
<1>6. /\ UNCHANGED ram
      /\ \/ Over /\ result' = "none"
         \/ Started /\ call'.operation = "delete"
  BY <1>1, <1>3, DeleteStarts DEF CoreInv
<1>7. result' \in {"none", "SUCCESS"} /\ UNCHANGED <<n_credentials, credentials_buffer_head>>
  BY <1>6 DEF Started, ram
<1>8. Started => call'.operation = "delete"
  BY <1>6 DEF Started, Over
<1> QED BY <1>1, <1>2, <1>5, <1>6, <1>7, <1>8, CoreTypes, BeginOK

LEMMA NextUserOK ==
  ASSUME CoreInv, NextUser
  PROVE  CoreInv'
<1> DEFINE rest == Tail(loop.users)
           first == get_next_credential(Head(rest), loop.filter, 0)
<1>1. /\ pc = "loop" /\ loop.target = 0
      /\ Fault \/ NoFault
      /\ users' = users \/ users' = users \ {Head(loop.users)}
      /\ UNCHANGED <<n_credentials, credentials_buffer_head, number, table, metadata, data,
                     admin, result, torn, spoiled>>
      /\ IF rest = <<>> THEN loop' = NoLoop /\ pc' = "idle"
         ELSE /\ loop' = [loop EXCEPT !.users = rest, !.target = first]
              /\ pc' = "loop"
  BY DEF NextUser, ram, files
<1>2. loop \in Loops /\ loop # NoLoop
  BY <1>1 DEF CoreInv, LoopOK
<1>3. first \in Keys \cup {0}
  BY NextIsLeast DEF CoreInv
<1>4. loop \in [users : Seq(Users), filter : Types \cup {"any"}, drop : BOOLEAN,
                target : Keys \cup {0}] /\ loop.users # <<>>
  BY <1>2, LoopType
<1>5. rest \in Seq(Users)
  BY <1>4, HeadTailProperties
<1> HIDE DEF rest, first
<1>6. rest # <<>> => loop' \in Loops /\ loop' # NoLoop
  <2> SUFFICES ASSUME rest # <<>> PROVE loop' \in Loops /\ loop' # NoLoop
    OBVIOUS
  <2>1. loop' \in [users : Seq(Users), filter : Types \cup {"any"}, drop : BOOLEAN,
                   target : Keys \cup {0}] /\ loop'.users # <<>>
    BY <1>1, <1>3, <1>4, <1>5
  <2> QED BY <2>1 DEF Loops, NoLoop
<1>7. faults' \in 0 .. MaxFaults /\ users' \subseteq Users
  BY <1>1, CoreTypes, FaultType
<1> QED BY <1>1, <1>6, <1>7, CoreTypes, RestOK

LEMMA AddDefaultPinOK ==
  ASSUME CoreInv, AddDefaultPin
  PROVE  CoreInv'
<1>1. /\ pc = "add default" /\ loop' = loop /\ add_credential(1, 1, DefaultCode)
      /\ UNCHANGED <<number, table, metadata, data, admin, users, faults, torn, spoiled>>
  BY DEF AddDefaultPin, files, history
<1>2. loop = NoLoop
  BY <1>1, IdleLoop
<1>3. 1 \in 1 .. PinSlots
  BY CredentialAssumption
<1>4. 1 \in Users /\ 1 \in Keys /\ DefaultCode \in Codes
  BY <1>3, PinSlot, CredentialAssumption
<1>5. /\ UNCHANGED n_credentials /\ credentials_buffer_head' \in Offsets
      /\ (Over /\ result' = "none") \/ Started
  BY <1>1, <1>4, AddStarts DEF CoreInv
<1>6. result' \in {"none", "SUCCESS"}
  BY <1>5 DEF Started
<1> QED BY <1>1, <1>2, <1>5, <1>6, CoreTypes, BeginOK

LEMMA ResetWritesOK ==
  ASSUME CoreInv, ResetWrites
  PROVE  CoreInv'
<1>1. /\ pc \in {"reset users", "reset number", "reset admin"}
      /\ pc' \in {"reset number", "reset admin", "idle"}
      /\ UNCHANGED <<n_credentials, table, metadata, data, loop, result, torn>>
      /\ Fault \/ NoFault
      /\ number' = number \/ number' = 0
      /\ admin' = admin \/ admin' = NoCode
      /\ users' = users \/ users' = {}
      /\ credentials_buffer_head' = credentials_buffer_head \/ credentials_buffer_head' = 0
      /\ spoiled' = spoiled \/ spoiled' = spoiled \cup {"reset"}
  BY DEF ResetWrites
<1>2. loop = NoLoop
  BY <1>1, IdleLoop
<1>3. faults' \in 0 .. MaxFaults
  BY <1>1, CoreTypes, FaultType
<1> QED BY <1>1, <1>2, <1>3, CoreTypes, RestOK

LEMMA PowerLossOK ==
  ASSUME CoreInv, PowerLoss
  PROVE  CoreInv'
<1>1. /\ Fault /\ n_credentials' = number /\ credentials_buffer_head' = 0
      /\ pc' = "idle" /\ loop' = NoLoop /\ result' = "none"
      /\ spoiled' \subseteq spoiled \cup {"reset"}
      /\ UNCHANGED <<number, table, metadata, data, admin, users, torn>>
  BY DEF PowerLoss, files
<1>2. faults' \in 0 .. MaxFaults
  BY <1>1, CoreTypes, FaultType
<1> QED BY <1>1, <1>2, CoreTypes, RestOK

LEMMA CoreStutter ==
  ASSUME CoreInv, UNCHANGED vars
  PROVE  CoreInv'
<1>1. /\ UNCHANGED <<n_credentials, credentials_buffer_head, number, table, metadata, data, admin,
                     users, pc, call, loop, result, faults, torn, spoiled>>
  BY DEF vars, ram, files, history
<1>2. SideTypes' /\ LoopOK'
  BY <1>1 DEF SideTypes, LoopOK, CoreInv, CredentialTypeOK
<1>3. CallOK'
  BY <1>1, SameTable DEF CoreInv, CallOK, Order, Arguments, Fields, Fresh, Header
<1> QED BY <1>1, <1>2, <1>3, CoreKept

LEMMA CoreNext == CoreInv /\ [Next]_vars => CoreInv'
<1> SUFFICES ASSUME CoreInv, [Next]_vars PROVE CoreInv'
  OBVIOUS
<1> QED
  BY CommandsOK, WriteMetadataOK, WriteDataOK, WriteTableOK, WriteNumberOK, DeleteTargetOK,
     NextUserOK, AddDefaultPinOK, ResetWritesOK, PowerLossOK, CoreStutter DEF Next

LEMMA CoreAlways == Spec => []CoreInv
BY CoreInit, CoreNext, PTL DEF Spec

(***************************************************************************)
(* The variables of the credential database keep their types: the count    *)
(* stays within max_credentials, also when add_credential takes its entry  *)
(* back, and every object of the table has metadata.                       *)
(***************************************************************************)
THEOREM CredentialTypes == Spec => []CredentialTypeOK
<1>1. CoreInv => CredentialTypeOK
  BY DEF CoreInv
<1> QED BY <1>1, CoreAlways, PTL

\* Fewer entries than objects leave an object without owner.
LEMMA FreeCredentialObject ==
  ASSUME CredentialTypeOK, TableReadable, n_credentials < Capacity
  PROVE  \E o \in Offsets : ~Owned(o)
<1> SUFFICES ASSUME \A o \in Offsets : Owned(o) PROVE FALSE
  OBVIOUS
<1> DEFINE I == 1 .. n_credentials
           owner(o) == CHOOSE i \in I : table[i].object = o
           f == [o \in Offsets |-> owner(o)]
<1>1. \A o \in Offsets : \E i \in I : table[i].object = o
  BY DEF Owned, Entries
<1>2. \A o \in Offsets : owner(o) \in I /\ table[owner(o)].object = o
  BY <1>1
<1>3. f \in [Offsets -> I]
  BY <1>2
<1>4. n_credentials \in Nat /\ Capacity \in Nat \ {0}
  BY Numbers, CredentialAssumption
<1>5. IsFiniteSet(I) /\ Cardinality(I) = n_credentials
  BY <1>4, FS_Interval
<1>6. IsFiniteSet(Offsets) /\ Cardinality(Offsets) = Capacity
  BY <1>4, FS_Interval DEF Offsets
<1> HIDE DEF f, I
<1>7. PICK o, p \in Offsets : o # p /\ f[o] = f[p]
  BY <1>3, <1>5, <1>6, FS_PigeonHole
<1>8. owner(o) = owner(p)
  BY <1>7 DEF f
<1> HIDE DEF owner
<1> QED BY <1>2, <1>7, <1>8

\* From every head the attempts reach every object.
LEMMA AttemptReaches ==
  ASSUME CredentialTypeOK, NEW o \in Offsets
  PROVE  \E i \in Offsets : Candidate(i) = o
<1> DEFINE head == credentials_buffer_head
<1>1. Capacity \in Nat \ {0} /\ head \in Offsets
  BY CredentialAssumption DEF CredentialTypeOK
<1> HIDE DEF head
<1>2. CASE o >= head
  <2>1. o - head \in Offsets
    BY <1>1, <1>2 DEF Offsets
  <2>2. (head + (o - head)) % Capacity = o
    BY <1>1, <1>2 DEF Offsets
  <2> QED BY <2>1, <2>2 DEF Candidate, head
<1>3. CASE o < head
  <2>1. o + Capacity - head \in Offsets
    BY <1>1, <1>3 DEF Offsets
  <2>2. (head + (o + Capacity - head)) % Capacity = o
    BY <1>1, <1>3 DEF Offsets
  <2> QED BY <2>1, <2>2 DEF Candidate, head
<1> QED BY <1>1, <1>2, <1>3 DEF Offsets

(***************************************************************************)
(* Whatever failed before, the descriptor table that is read is in the     *)
(* order that insertions and walks rely on, no two credentials share an        *)
(* object, and the "Impossible path!" of add_credential is impossible.     *)
(***************************************************************************)
THEOREM TableSound == Spec => []DescriptorsSound
<1>1. CoreInv => DescriptorsSound
  <2> SUFFICES ASSUME CoreInv, TableReadable PROVE DescriptorsSound
    BY DEF DescriptorsSound
  <2>1. CredentialTypeOK /\ Sound(table)
    BY DEF CoreInv
  <2>2. \A i \in 1 .. n_credentials : i \in 1 .. Len(table)
    BY <2>1, Reading, Numbers
  <2>3. ASSUME n_credentials < Capacity, NEW key \in Keys
        PROVE  \E i \in Offsets : EndsSearch(key, i)
    <3>1. PICK o \in Offsets : ~Owned(o)
      BY <2>1, <2>3, FreeCredentialObject
    <3>2. PICK i \in Offsets : Candidate(i) = o
      BY <2>1, AttemptReaches
    <3> QED BY <3>1, <3>2 DEF EndsSearch
  <2> QED BY <2>1, <2>2, <2>3 DEF DescriptorsSound, Sound
<1> QED BY <1>1, CoreAlways, PTL
-------------------------------------------------------------------------------
(* What the commands do, for the invariants that follow *)

\* A command that ends at once or goes on to its first write.
Opened ==
  /\ UNCHANGED <<n_credentials, number, table, metadata, data, torn, spoiled>>
  /\ users \subseteq users' /\ loop' = NoLoop
  /\ \/ pc' \in {"idle", "add default"} /\ call' \in {call, NoCall}
        /\ (pc' = "add default" => 1 \in users')
     \/ /\ Started
        /\ call'.operation \in {"add", "move"} => call'.user \in users'
        /\ pc' = "table" /\ call'.operation = "move" =>
             "ok" \notin DOMAIN call' /\ Entry(call'.key).user = call'.user

\* A command that begins to delete the credentials of users.
Deleting ==
  /\ UNCHANGED <<n_credentials, number, table, metadata, data, torn, spoiled, users>>
  /\ pc' = "loop" /\ call' = NoCall
  /\ loop' \in [users : Seq(Users), filter : Types \cup {"any"}, drop : BOOLEAN,
                target : Keys \cup {0}]
  /\ loop'.drop => loop'.filter = "any"
  /\ loop'.target = get_next_credential(Head(loop'.users), loop'.filter, 0)

\* The reset of the database.
Cleared ==
  /\ UNCHANGED <<number, table, metadata, data, torn, spoiled, users>>
  /\ n_credentials' = 0 /\ pc' = "reset users" /\ call' = NoCall /\ loop' = NoLoop

LEMMA AddOpens ==
  ASSUME CoreInv, loop = NoLoop, loop' = NoLoop,
         NEW user \in Users, NEW key \in Keys, NEW code \in Codes,
         add_credential(user, key, code),
         UNCHANGED <<number, table, metadata, data, torn, spoiled>>,
         users \subseteq users', user \in users'
  PROVE  Opened
<1>1. /\ UNCHANGED n_credentials
      /\ \/ Over
         \/ Started /\ call'.operation = "add" /\ call'.user = user
  BY AddStarts DEF CoreInv
<1> QED BY <1>1 DEF Opened, Over

LEMMA ModifyOpens ==
  ASSUME CoreInv, loop = NoLoop, loop' = NoLoop,
         NEW user, NEW key \in Keys, NEW code \in Codes,
         modify_credential(user, key, code),
         UNCHANGED <<number, table, metadata, data, torn, spoiled>>,
         users \subseteq users'
  PROVE  Opened
<1>1. /\ UNCHANGED ram
      /\ \/ Over
         \/ Started /\ call'.operation = "modify"
  BY ModifyStarts DEF CoreInv
<1> QED BY <1>1 DEF Opened, Over, ram

LEMMA DeleteCommand ==
  ASSUME CoreInv, NEW sequence \in Seq(Users), NEW type \in Types \cup {"any"},
         NEW drop \in BOOLEAN, Delete(sequence, type, drop), drop => type = "any"
  PROVE  Deleting
<1> DEFINE target == get_next_credential(Head(sequence), type, 0)
<1>1. target \in Keys \cup {0}
  BY NextIsLeast DEF CoreInv
<1>2. /\ pc' = "loop" /\ call' = NoCall
      /\ loop' = [users |-> sequence, filter |-> type, drop |-> drop, target |-> target]
      /\ UNCHANGED <<n_credentials, number, table, metadata, data, torn, spoiled, users>>
  BY DEF Delete, ram, files, history
<1>3. /\ loop'.users = sequence /\ loop'.filter = type /\ loop'.drop = drop
      /\ loop'.target = target
  BY <1>2
<1>4. loop' \in [users : Seq(Users), filter : Types \cup {"any"}, drop : BOOLEAN,
                target : Keys \cup {0}]
  <2> HIDE DEF target
  <2> QED BY <1>1, <1>2
<1> QED BY <1>2, <1>3, <1>4 DEF Deleting

LEMMA CommandKinds ==
  ASSUME CoreInv, Commands
  PROVE  pc = "idle" /\ (Opened \/ Deleting \/ Cleared)
<1>1. ASSUME NEW user \in Users, AddUser(user) PROVE pc = "idle" /\ Opened
  <2>1. pc = "idle" /\ pc' = pc /\ call' = call /\ loop' = loop
    BY <1>1 DEF AddUser, Start
  <2>2. loop = NoLoop
    BY <2>1, IdleLoop
  <2> QED BY <1>1, <2>1, <2>2 DEF Opened, AddUser, Start, ram, files, history
<1>2. ASSUME NEW user \in Users, NEW key \in Keys, NEW code \in Codes,
             CredentialSet(user, key, code)
      PROVE  pc = "idle" /\ Opened
  <2>1. /\ pc = "idle" /\ loop' = loop /\ user \in users /\ UNCHANGED users
        /\ UNCHANGED <<number, table, metadata, data, torn, spoiled>>
        /\ add_credential(user, key, code) \/ modify_credential(user, key, code)
    BY <1>2 DEF CredentialSet, Start, files, history
  <2>2. loop = NoLoop
    BY <2>1, IdleLoop
  <2> QED BY <2>1, <2>2, AddOpens, ModifyOpens
<1>3. ASSUME NEW key \in Keys, CredentialDelete(key) PROVE pc = "idle" /\ Opened
  <2>1. /\ pc = "idle" /\ loop' = loop /\ UNCHANGED users
        /\ UNCHANGED <<number, table, metadata, data, torn, spoiled>>
    BY <1>3 DEF CredentialDelete, Start, files, history
  <2>2. loop = NoLoop
    BY <2>1, IdleLoop
  <2>3. UNCHANGED ram /\ (Over \/ (Started /\ call'.operation = "delete"))
    BY <1>3, DeleteStarts DEF CredentialDelete, CoreInv
  <2> QED BY <2>1, <2>2, <2>3 DEF Opened, Over, ram
<1>4. ASSUME NEW key \in Keys, NEW user \in Users, AssociationSet(key, user)
      PROVE  pc = "idle" /\ Opened
  <2>1. /\ pc = "idle" /\ loop' = loop /\ UNCHANGED users /\ user \in users
        /\ UNCHANGED <<number, table, metadata, data, torn, spoiled>>
    BY <1>4 DEF AssociationSet, Start, files, history
  <2>2. loop = NoLoop
    BY <2>1, IdleLoop
  <2>3. /\ UNCHANGED ram
        /\ \/ Over
           \/ /\ Started /\ call'.operation = "move"
              /\ call'.key = key /\ call'.user = user
              /\ pc' = "table" => "ok" \notin DOMAIN call' /\ Entry(key).user = user
    BY <1>4, MoveStarts DEF AssociationSet, CoreInv
  <2> QED BY <2>1, <2>2, <2>3 DEF Opened, Over, ram
<1>5. ASSUME NEW key \in 1 .. PinSlots, NEW code \in Codes, UserCodeSet(key, code)
      PROVE  pc = "idle" /\ Opened
  <2>1. /\ pc = "idle" /\ loop' = loop /\ users \subseteq users'
        /\ ~Stored(key) => key \in users'
        /\ UNCHANGED <<number, table, metadata, data, torn, spoiled>>
    BY <1>5 DEF UserCodeSet, Start, files, history
  <2>2. loop = NoLoop
    BY <2>1, IdleLoop
  <2>3. key \in Keys /\ key \in Users
    BY PinSlot
  <2>4. CASE UNCHANGED <<ram, pc, call, result>>
    BY <2>1, <2>2, <2>4 DEF Opened, ram
  <2>5. CASE Stored(key) /\ modify_credential(metadata[Entry(key).object].user, key, code)
    BY <2>1, <2>2, <2>3, <2>5, ModifyOpens
  <2>6. CASE ~Stored(key) /\ add_credential(key, key, code)
    BY <2>1, <2>2, <2>3, <2>6, AddOpens
  <2> QED BY <1>5, <2>1, <2>4, <2>5, <2>6 DEF UserCodeSet
<1>6. ASSUME NEW code \in Codes \cup {NoCode}, AdminCodeSet(code) PROVE pc = "idle" /\ Opened
  <2>1. pc = "idle" /\ pc' = pc /\ call' = call /\ loop' = loop
    BY <1>6 DEF AdminCodeSet
  <2>2. loop = NoLoop
    BY <2>1, IdleLoop
  <2> QED BY <1>6, <2>1, <2>2 DEF Opened, AdminCodeSet, ram
<1>7. ASSUME NEW user \in Users, NEW type \in Types \cup {"any"}, NEW drop \in BOOLEAN,
             Delete(<<user>>, type, drop), drop => type = "any"
      PROVE  pc = "idle" /\ Deleting
  <2>1. <<user>> \in Seq(Users)
    OBVIOUS
  <2>2. pc = "idle"
    BY <1>7 DEF Delete
  <2> QED BY <1>7, <2>1, <2>2, DeleteCommand
<1>8. ASSUME NEW sequence \in Ascending(users), NEW type \in Types \cup {"any"},
             NEW drop \in BOOLEAN, Delete(sequence, type, drop), drop => type = "any"
      PROVE  pc = "idle" /\ Deleting
  <2>1. pc = "idle"
    BY <1>8 DEF Delete
  <2> QED BY <1>8, <2>1, AscendingType, DeleteCommand
<1>9. CASE AddDefaultUser
  <2>1. pc = "idle" /\ pc' = "add default" /\ call' = call /\ loop' = loop
    BY <1>9 DEF AddDefaultUser, Start
  <2>2. loop = NoLoop
    BY <2>1, IdleLoop
  <2> QED BY <1>9, <2>1, <2>2 DEF Opened, AddDefaultUser, Start, ram, files, history
<1>10. CASE FactoryReset
  <2>1. pc = "idle" /\ loop' = loop
    BY <1>10 DEF FactoryReset
  <2>2. loop = NoLoop
    BY <2>1, IdleLoop
  <2> QED BY <1>10, <2>1, <2>2 DEF FactoryReset, Cleared, files, history
<1>11. users \subseteq Users
  BY CoreTypes
<1> QED
  BY <1>1, <1>2, <1>3, <1>4, <1>5, <1>6, <1>7, <1>8, <1>9, <1>10, <1>11 DEF Commands

LEMMA DefaultPinOpens ==
  ASSUME CoreInv, AddDefaultPin, 1 \in users
  PROVE  Opened
<1>1. /\ pc = "add default" /\ loop' = loop /\ add_credential(1, 1, DefaultCode)
      /\ UNCHANGED <<number, table, metadata, data, users, torn, spoiled>>
  BY DEF AddDefaultPin, files, history
<1>2. loop = NoLoop
  BY <1>1, IdleLoop
<1>3. 1 \in 1 .. PinSlots
  BY CredentialAssumption
<1>4. 1 \in Users /\ 1 \in Keys /\ DefaultCode \in Codes
  BY <1>3, PinSlot, CredentialAssumption
<1> QED BY <1>1, <1>2, <1>4, AddOpens
-------------------------------------------------------------------------------
(* The number of credentials in NVM *)

LEMMA NumberNext == CoreInv /\ NumberInv /\ [Next]_vars => NumberInv'
<1> SUFFICES ASSUME CoreInv, NumberInv, [Next]_vars, spoiled' = {}
             PROVE  /\ pc' \in Resetting => n_credentials' = 0
                    /\ pc' \notin {"number", "reset users", "reset number"} =>
                         number' = n_credentials'
                    /\ pc' = "number" =>
                         IF call'.operation = "add" THEN number' = n_credentials' - 1
                         ELSE number' = n_credentials' + 1
  BY DEF NumberInv
<1>1. CASE Commands
  <2>1. pc = "idle" /\ (Opened \/ Deleting \/ Cleared)
    BY <1>1, CommandKinds
  <2>2. CASE Opened
    <3>1. pc' \in {"idle", "add default", "metadata", "table"}
      BY <2>2 DEF Opened, Started
    <3> QED BY <2>1, <2>2, <3>1 DEF Opened, NumberInv, Resetting
  <2>3. CASE Deleting
    BY <2>1, <2>3 DEF Deleting, NumberInv, Resetting
  <2>4. CASE Cleared
    BY <2>4 DEF Cleared, Resetting
  <2> QED BY <2>1, <2>2, <2>3, <2>4
<1>2. CASE WriteMetadata
  <2>1. /\ pc = "metadata" /\ loop = NoLoop
        /\ UNCHANGED <<n_credentials, number, spoiled>>
    BY <1>2, WriteMetadataCall
  <2>2. pc' \in {"idle", "data", "table"}
    BY <1>2, <2>1 DEF WriteMetadata, Return
  <2> QED BY <2>1, <2>2 DEF NumberInv, Resetting
<1>3. CASE WriteData
  <2>1. pc = "data" /\ loop = NoLoop /\ UNCHANGED <<n_credentials, number, spoiled>>
    BY <1>3, WriteDataCall
  <2>2. pc' \in {"idle", "table"}
    BY <1>3, <2>1 DEF WriteData, Return
  <2> QED BY <2>1, <2>2 DEF NumberInv, Resetting
<1>4. CASE WriteTable
  <2>1. /\ pc = "table" /\ UNCHANGED number /\ (TableStep \/ TableFault)
        /\ call.operation \in {"add", "delete", "move"}
    BY <1>4, WriteTableCall
  <2>2. n_credentials \in Nat
    BY Numbers DEF CoreInv
  <2>3. CASE TableFault
    <3>1. pc' \in {"idle", "loop"} /\ spoiled = {} /\ UNCHANGED n_credentials
      BY <2>3 DEF TableFault, Return
    <3> QED BY <2>1, <3>1 DEF NumberInv, Resetting
  <2>4. CASE TableStep
    <3>1. /\ call.operation = "add" => n_credentials' = n_credentials + 1
          /\ call.operation = "delete" => n_credentials' = n_credentials - 1
          /\ call.operation = "move" => n_credentials' = n_credentials
      BY <2>1, <2>4, TableWritten DEF TableStep
    <3>2. /\ call.operation = "move" => pc' \in {"idle", "loop"}
          /\ call.operation # "move" => pc' = "number" /\ call' = call
          /\ spoiled = {}
      BY <2>4 DEF TableStep, Return
    <3>3. number = n_credentials
      BY <2>1, <3>2 DEF NumberInv
    <3>4. /\ call.operation = "add" => number' = n_credentials' - 1
          /\ call.operation = "delete" => number' = n_credentials' + 1
          /\ call.operation = "move" => number' = n_credentials'
      BY <2>1, <2>2, <3>1, <3>3
    <3>5. CASE call.operation = "move"
      BY <3>2, <3>4, <3>5 DEF Resetting
    <3>6. CASE call.operation # "move"
      <4>1. pc' = "number" /\ call' = call /\ call.operation \in {"add", "delete"}
        BY <2>1, <3>2, <3>6
      <4> QED BY <3>4, <4>1 DEF Resetting
    <3> QED BY <3>5, <3>6
  <2> QED BY <2>1, <2>3, <2>4
<1>5. CASE WriteNumber
  BY <1>5 DEF WriteNumber, Return, Resetting
<1>6. CASE DeleteTarget
  <2>1. pc = "loop" /\ UNCHANGED <<n_credentials, number, spoiled>>
    BY <1>6 DEF DeleteTarget, delete_credential, ram, files, history
  <2>2. pc' \in {"idle", "loop", "table"}
    BY <1>6 DEF DeleteTarget, delete_credential, Return, Begin
  <2> QED BY <2>1, <2>2 DEF NumberInv, Resetting
<1>7. CASE NextUser
  <2>1. pc = "loop" /\ pc' \in {"idle", "loop"} /\ UNCHANGED <<n_credentials, number, spoiled>>
    BY <1>7 DEF NextUser, ram, files
  <2> QED BY <2>1 DEF NumberInv, Resetting
<1>8. CASE AddDefaultPin
  <2>1. pc = "add default" /\ UNCHANGED <<n_credentials, number, spoiled>>
    BY <1>8 DEF AddDefaultPin, add_credential, ram, files, history
  <2>2. pc' \in {"idle", "loop", "metadata"}
    BY <1>8 DEF AddDefaultPin, add_credential, Return, Begin
  <2> QED BY <2>1, <2>2 DEF NumberInv, Resetting
<1>9. CASE ResetWrites
  <2>1. spoiled = {} /\ UNCHANGED n_credentials
    BY <1>9 DEF ResetWrites
  <2>2. pc \in Resetting
    BY <1>9 DEF ResetWrites, Resetting
  <2>3. n_credentials = 0
    BY <2>1, <2>2 DEF NumberInv
  <2>4. pc = "reset admin" => number = n_credentials
    BY <2>1 DEF NumberInv
  <2> QED BY <1>9, <2>1, <2>3, <2>4 DEF ResetWrites
<1>10. CASE PowerLoss
  BY <1>10 DEF PowerLoss, files, Resetting
<1>11. CASE UNCHANGED vars
  BY <1>11 DEF vars, ram, files, history, NumberInv
<1> QED
  BY <1>1, <1>2, <1>3, <1>4, <1>5, <1>6, <1>7, <1>8, <1>9, <1>10, <1>11 DEF Next

-------------------------------------------------------------------------------
(* Every credential has its user *)

LEMMA NumberIsCount ==
  ASSUME NumberInv, spoiled = {}, pc \notin {"number", "reset users", "reset number"}
  PROVE  number = n_credentials /\ Visible(number) = Entries /\ Remaining = Entries
BY DEF NumberInv, Visible, Entries, TableReadable, Remaining

\* What remains after a step that writes neither the table nor a number.
LEMMA SameRemaining ==
  ASSUME UNCHANGED <<n_credentials, number, table>>, pc # "reset number"
  PROVE  Remaining' \subseteq Remaining /\ Entries' = Entries
BY SameTable DEF Remaining, Visible

\* What remains after the table was written.
LEMMA TableRemaining ==
  ASSUME CoreInv, NumberInv, WriteTable, TableStep, spoiled = {}
  PROVE  /\ call.operation = "add" => Remaining' \subseteq Remaining \cup {NewDescriptor}
         /\ call.operation = "delete" => Remaining' \subseteq Remaining
         /\ call.operation = "move" =>
              Remaining' \subseteq {e \in Remaining : e.key # call.key}
                                     \cup {[Entry(call.key) EXCEPT !.user = call.user]}
<1>1. /\ pc = "table" /\ UNCHANGED number /\ Fresh(call)
      /\ call.operation \in {"add", "delete", "move"}
  BY WriteTableCall
<1>2. number = n_credentials /\ Visible(number) = Entries /\ Remaining = Entries
  BY <1>1, NumberIsCount
<1>3. n_credentials \in Nat
  BY Numbers DEF CoreInv
<1>4. pc' # "reset number"
  BY <1>1 DEF TableStep, Return
<1>5. Remaining' = Entries' \cup Visible(number)'
  BY <1>4 DEF Remaining
<1>6. CASE call.operation = "add"
  <2>1. /\ Entries' = Entries \cup {NewDescriptor} /\ table' = NewTable
        /\ Len(NewTable) = n_credentials + 1
    BY <1>1, <1>6, TableWritten, NewTableAdd DEF TableStep
  <2>2. Visible(number)' = {}
    BY <1>1, <1>2, <1>3, <2>1 DEF Visible, ReadSucceeds
  <2> QED BY <1>2, <1>5, <1>6, <2>1, <2>2
<1>7. CASE call.operation = "delete"
  <2>1. /\ table' \in {table, NewTable} /\ n_credentials = Len(table)
        /\ Len(NewTable) = n_credentials - 1 /\ n_credentials # 0
        /\ TableReadable' => Entries' = {e \in Entries : e.key # call.key}
    BY <1>1, <1>7, TableWritten, NewTableOld DEF TableStep
  <2>2. Entries' \subseteq Entries
    BY <2>1 DEF Entries
  <2>3. Visible(number)' \subseteq Entries
    <3>1. CASE table' = table
      BY <1>1, <1>2, <3>1 DEF Visible
    <3>2. CASE table' = NewTable
      BY <1>1, <1>2, <1>3, <2>1, <3>2 DEF Visible, ReadSucceeds
    <3> QED BY <2>1, <3>1, <3>2
  <2> QED BY <1>2, <1>5, <1>7, <2>2, <2>3
<1>8. CASE call.operation = "move"
  <2>1. /\ n_credentials' = n_credentials
        /\ Entries' = {e \in Entries : e.key # call.key}
                        \cup {[Entry(call.key) EXCEPT !.user = call.user]}
    BY <1>1, <1>8, TableWritten DEF TableStep
  <2>2. Visible(number)' = Entries'
    BY <1>1, <1>2, <2>1 DEF Visible, Entries, TableReadable
  <2> QED BY <1>2, <1>5, <1>8, <2>1, <2>2
<1> QED BY <1>1, <1>6, <1>7, <1>8

\* A walk over all credentials of a user begins with the first of them.
LEMMA FirstTarget ==
  ASSUME CredentialTypeOK, NEW user, NEW e \in Entries, e.user = user
  PROVE  LET target == get_next_credential(user, "any", 0)
         IN  target # 0 /\ e.key >= target
<1>1. e.key \in Following(user, "any", 0)
  BY DEF Following
<1> QED BY <1>1, NextIsLeast

\* Steps that write nothing to the database.
LEMMA OwnersKept ==
  ASSUME OwnersInv, spoiled = {}, Remaining' \subseteq Remaining, users \subseteq users',
         pc' \in Writing /\ call'.operation \in {"add", "move"} => call'.user \in users',
         pc' = "add default" => 1 \in users', TargetsLeft'
  PROVE  OwnersInv'
BY DEF OwnersInv

\* Nothing is read with a number of 0.
LEMMA NothingRead ==
  /\ n_credentials' = 0 => Entries' = {}
  /\ number' = 0 => Visible(number)' = {}
<1>1. \A i \in 1 .. 0 : FALSE
  OBVIOUS
<1>2. ASSUME n_credentials' = 0 PROVE Entries' = {}
  <2>1. Entries' \subseteq {table'[i] : i \in 1 .. 0}
    BY <1>2 DEF Entries
  <2> QED BY <1>1, <2>1
<1>3. ASSUME number' = 0 PROVE Visible(number)' = {}
  <2>1. Visible(number)' \subseteq {table'[i] : i \in 1 .. 0}
    BY <1>3 DEF Visible
  <2> QED BY <1>1, <2>1
<1> QED BY <1>2, <1>3

LEMMA NoTargets ==
  ASSUME loop' = NoLoop
  PROVE  TargetsLeft'
BY DEF TargetsLeft

LEMMA CommandOwners ==
  ASSUME CoreInv, NumberInv, OwnersInv, Commands, spoiled' = {}
  PROVE  OwnersInv'
<1>1. pc = "idle" /\ (Opened \/ Deleting \/ Cleared)
  BY CommandKinds
<1>2. CASE Opened
  <2>1. UNCHANGED <<n_credentials, number, table, spoiled>> /\ users \subseteq users'
        /\ loop' = NoLoop
    BY <1>2 DEF Opened
  <2>2. Remaining' \subseteq Remaining
    BY <1>1, <2>1, SameRemaining
  <2>3. /\ pc' \in Writing /\ call'.operation \in {"add", "move"} => call'.user \in users'
        /\ pc' = "add default" => 1 \in users'
    BY <1>2 DEF Opened, Writing, Started
  <2> QED BY <2>1, <2>2, <2>3, NoTargets, OwnersKept
<1>3. CASE Deleting
  <2>1. /\ UNCHANGED <<n_credentials, number, table, spoiled, users>> /\ pc' = "loop"
        /\ loop'.drop => loop'.filter = "any"
        /\ loop'.target = get_next_credential(Head(loop'.users), loop'.filter, 0)
    BY <1>3 DEF Deleting
  <2>2. Remaining' \subseteq Remaining /\ Entries' = Entries
    BY <1>1, <2>1, SameRemaining
  <2>3. TargetsLeft'
    BY <2>1, <2>2, FirstTarget DEF TargetsLeft, CoreInv
  <2> QED BY <2>1, <2>2, <2>3, OwnersKept DEF Writing
<1>4. CASE Cleared
  <2>1. /\ UNCHANGED <<number, table, spoiled, users>> /\ n_credentials' = 0
        /\ pc' = "reset users" /\ loop' = NoLoop
    BY <1>4 DEF Cleared
  <2>2. Entries' = {}
    BY <2>1, NothingRead
  <2>3. Visible(number)' = Visible(number)
    BY <2>1 DEF Visible
  <2>4. Remaining' \subseteq Remaining
    BY <1>1, <2>1, <2>2, <2>3 DEF Remaining
  <2> QED BY <2>1, <2>4, NoTargets, OwnersKept DEF Writing
<1> QED BY <1>1, <1>2, <1>3, <1>4

LEMMA ObjectOwners ==
  ASSUME CoreInv, NumberInv, OwnersInv, WriteMetadata \/ WriteData, spoiled' = {}
  PROVE  OwnersInv'
<1>1. /\ pc \in {"metadata", "data"} /\ loop' = NoLoop /\ loop = NoLoop
      /\ UNCHANGED <<n_credentials, number, table, users, spoiled>>
  BY WriteMetadataCall, WriteDataCall
<1>2. Remaining' \subseteq Remaining
  BY <1>1, SameRemaining
<1>3. /\ pc' # "add default"
      /\ pc' \in Writing => call'.operation = call.operation /\ call'.user = call.user
  <2>1. CASE WriteMetadata
    <3>1. PICK ok \in BOOLEAN :
            IF call.operation = "add" /\ ~ok THEN Return("none")
            ELSE /\ pc' = IF call.operation = "move" THEN "table" ELSE "data"
                 /\ call' = Outcome(call, ok)
      BY <2>1 DEF WriteMetadata, Outcome
    <3>2. CASE Return("none")
      BY <1>1, <3>2 DEF Return, Writing
    <3>3. CASE /\ pc' = IF call.operation = "move" THEN "table" ELSE "data"
               /\ call' = Outcome(call, ok)
      BY <2>1, <3>3, WriteMetadataCall, Recorded
    <3> QED BY <3>1, <3>2, <3>3
  <2>2. CASE WriteData
    BY <1>1, <2>2 DEF WriteData, Return, Writing
  <2> QED BY <2>1, <2>2
<1>4. pc \in Writing
  BY <1>1 DEF Writing
<1>5. pc' \in Writing /\ call'.operation \in {"add", "move"} => call'.user \in users'
  BY <1>1, <1>3, <1>4 DEF OwnersInv
<1> QED BY <1>1, <1>2, <1>3, <1>5, NoTargets, OwnersKept

LEMMA TableOwners ==
  ASSUME CoreInv, NumberInv, OwnersInv, WriteTable, spoiled' = {}
  PROVE  OwnersInv'
<1>1. /\ pc = "table" /\ loop' = loop /\ UNCHANGED <<number, users>>
      /\ TableStep \/ TableFault
      /\ call.operation \in {"add", "delete", "move"} /\ Fresh(call)
      /\ loop # NoLoop => call.operation = "delete"
  BY WriteTableCall
<1>2. CASE TableFault
  <2>1. /\ loop = NoLoop /\ spoiled = {} /\ UNCHANGED <<n_credentials, table>>
        /\ pc' = "idle"
    BY <1>2 DEF TableFault, Return
  <2>2. Remaining' \subseteq Remaining
    BY <1>1, <2>1, SameRemaining
  <2> QED BY <1>1, <2>1, <2>2, NoTargets, OwnersKept DEF Writing
<1>3. CASE TableStep
  <2>1. spoiled = {}
    BY <1>3 DEF TableStep
  <2>2. (pc' = "number" /\ call' = call) \/ pc' = "idle"
    BY <1>1, <1>3 DEF TableStep, Return
  <2>3. call.operation \in {"add", "move"} => call.user \in users
    BY <1>1, <2>1 DEF OwnersInv, Writing
  <2>4. \A e \in Remaining' : e.user \in users'
    <3>1. \A e \in Remaining : e.user \in users
      BY <2>1 DEF OwnersInv
    <3>2. CASE call.operation = "add"
      <4>1. NewDescriptor.user \in users
        BY <2>3, <3>2 DEF NewDescriptor
      <4> QED BY <1>1, <1>3, <2>1, <3>1, <3>2, <4>1, TableRemaining
    <3>3. CASE call.operation = "delete"
      BY <1>1, <1>3, <2>1, <3>1, <3>3, TableRemaining
    <3>4. CASE call.operation = "move"
      <4>1. Entry(call.key) \in Descriptors
        BY <1>1, <3>4, EntryObject DEF Fresh, CoreInv
      <4>2. [Entry(call.key) EXCEPT !.user = call.user].user \in users
        BY <2>3, <3>4, <4>1 DEF Descriptors
      <4> QED BY <1>1, <1>3, <2>1, <3>1, <3>4, <4>2, TableRemaining
    <3> QED BY <1>1, <3>2, <3>3, <3>4
  <2>5. TargetsLeft'
    <3>1. CASE loop = NoLoop
      BY <1>1, <3>1, NoTargets
    <3>2. CASE loop # NoLoop
      <4>1. call.operation = "delete"
        BY <1>1, <3>2
      <4>2. TableReadable' => Entries' = {e \in Entries : e.key # call.key}
        BY <1>1, <1>3, <4>1, TableWritten DEF TableStep
      <4>3. \A e \in Entries' : e \in Entries /\ e.key # call.key
        BY <4>2 DEF Entries
      <4>4. TargetsLeft
        BY <2>1 DEF OwnersInv
      <4> QED BY <1>1, <4>3, <4>4 DEF TargetsLeft
    <3> QED BY <3>1, <3>2
  <2> QED BY <1>1, <2>2, <2>3, <2>4, <2>5 DEF OwnersInv, Writing
<1> QED BY <1>1, <1>2, <1>3

LEMMA NumberOwners ==
  ASSUME CoreInv, NumberInv, OwnersInv, WriteNumber, spoiled' = {}
  PROVE  OwnersInv'
<1>1. /\ pc = "number" /\ spoiled = {} /\ loop' = loop /\ UNCHANGED <<n_credentials, table, users>>
      /\ number' = n_credentials /\ pc' \in {"idle", "loop"}
  BY DEF WriteNumber, Return
<1>2. Entries' = Entries
  BY <1>1, SameTable
<1>3. Visible(number)' = Entries
  BY <1>1 DEF Visible, Entries, TableReadable
<1>4. Remaining' \subseteq Remaining
  BY <1>1, <1>2, <1>3 DEF Remaining
<1>5. TargetsLeft'
  <2>1. TargetsLeft
    BY <1>1 DEF OwnersInv
  <2> QED BY <1>1, <1>2, <2>1 DEF TargetsLeft
<1> QED BY <1>1, <1>4, <1>5, OwnersKept DEF Writing

LEMMA TargetOwners ==
  ASSUME CoreInv, NumberInv, OwnersInv, DeleteTarget, spoiled' = {}
  PROVE  OwnersInv'
<1> DEFINE next == get_next_credential(Head(loop.users), loop.filter, loop.target)
<1>1. /\ pc = "loop" /\ loop.target # 0 /\ loop' = [loop EXCEPT !.target = NextTarget]
      /\ delete_credential(loop.target)
      /\ UNCHANGED <<number, table, users, spoiled>>
  BY DEF DeleteTarget, files, history
<1>2. loop \in Loops /\ loop # NoLoop
  BY <1>1 DEF CoreInv, LoopOK
<1>3. loop.target \in Keys /\ loop \in [users : Seq(Users), filter : Types \cup {"any"},
                                        drop : BOOLEAN, target : Keys \cup {0}]
  BY <1>1, <1>2, LoopType
<1>4. /\ UNCHANGED ram
      /\ \/ Over /\ ~Stored(loop.target)
         \/ Started /\ pc' = "table" /\ call'.operation = "delete" /\ call'.key = loop.target
  BY <1>1, <1>3, DeleteStarts DEF CoreInv
<1>5. Remaining' \subseteq Remaining /\ Entries' = Entries
  BY <1>1, <1>4, SameRemaining DEF ram
<1>6. /\ loop'.users = loop.users /\ loop'.filter = loop.filter /\ loop'.drop = loop.drop
      /\ loop'.target = NextTarget
  BY <1>1, <1>3
<1>7. TargetsLeft'
  <2> SUFFICES ASSUME loop.drop
               PROVE  /\ loop.filter = "any"
                      /\ \A e \in Entries : e.user = Head(loop.users) =>
                           \/ NextTarget # 0 /\ e.key >= NextTarget
                           \/ pc' = "table" /\ e.key = call'.key
    BY <1>5, <1>6 DEF TargetsLeft
  <2>1. TargetsLeft
    BY <1>1 DEF OwnersInv
  <2>2. loop.filter = "any"
    BY <1>2, <2>1 DEF TargetsLeft
  <2>3. ASSUME NEW e \in Entries, e.user = Head(loop.users)
        PROVE  \/ NextTarget # 0 /\ e.key >= NextTarget
               \/ pc' = "table" /\ e.key = call'.key
    <3>1. e.key >= loop.target
      BY <1>1, <1>2, <2>1, <2>3 DEF TargetsLeft
    <3>2. e.key \in Nat /\ loop.target \in Nat
      <4>1. e \in Descriptors
        BY EntryPlace DEF CoreInv
      <4> QED BY <1>3, <4>1, DescriptorType DEF Keys
    <3>3. CASE e.key = loop.target
      <4>1. Stored(loop.target)
        BY <3>3 DEF Stored
      <4> QED BY <1>4, <3>3, <4>1
    <3>4. CASE e.key # loop.target
      <4>1. e.key > loop.target
        BY <3>1, <3>2, <3>4
      <4>2. e.key \in Following(Head(loop.users), loop.filter, loop.target)
        BY <1>1, <2>3, <4>1 DEF Following
      <4>3. next # 0 /\ e.key >= next
        BY <4>2, NextIsLeast DEF CoreInv
      <4>4. NextTarget = next
        BY <2>2, <4>3 DEF NextTarget
      <4> QED BY <4>3, <4>4
    <3> QED BY <3>3, <3>4
  <2> QED BY <2>2, <2>3
<1>8. pc' = "loop" \/ (pc' = "table" /\ call'.operation = "delete")
  BY <1>2, <1>4 DEF Over
<1> QED BY <1>1, <1>5, <1>7, <1>8, OwnersKept DEF Writing

LEMMA NextUserOwners ==
  ASSUME CoreInv, NumberInv, OwnersInv, NextUser, spoiled' = {}
  PROVE  OwnersInv'
<1> DEFINE rest == Tail(loop.users)
<1>1. /\ pc = "loop" /\ loop.target = 0
      /\ UNCHANGED <<n_credentials, number, table, spoiled>>
      /\ users' = users \/ (loop.drop /\ users' = users \ {Head(loop.users)})
      /\ IF rest = <<>> THEN loop' = NoLoop /\ pc' = "idle"
         ELSE /\ loop' = [loop EXCEPT !.users = rest,
                             !.target = get_next_credential(Head(rest), loop.filter, 0)]
              /\ pc' = "loop"
  BY DEF NextUser, ram, files
<1>2. loop \in Loops /\ loop # NoLoop
  BY <1>1 DEF CoreInv, LoopOK
<1>3. loop \in [users : Seq(Users), filter : Types \cup {"any"}, drop : BOOLEAN,
                target : Keys \cup {0}]
  BY <1>2, LoopType
<1>4. TargetsLeft /\ \A e \in Remaining : e.user \in users
  BY <1>1 DEF OwnersInv
<1>5. Remaining' \subseteq Remaining /\ Entries' = Entries
  BY <1>1, SameRemaining
<1>6. \A e \in Remaining : loop.drop => e.user # Head(loop.users)
  <2>1. Remaining = Entries
    BY <1>1, NumberIsCount
  <2> QED BY <1>1, <1>2, <1>4, <2>1 DEF TargetsLeft
<1>7. \A e \in Remaining' : e.user \in users'
  BY <1>1, <1>4, <1>5, <1>6
<1>8. TargetsLeft'
  <2>1. CASE rest = <<>>
    BY <1>1, <2>1, NoTargets
  <2>2. CASE rest # <<>>
    <3>1. /\ loop'.users = rest /\ loop'.filter = loop.filter /\ loop'.drop = loop.drop
          /\ loop'.target = get_next_credential(Head(rest), loop.filter, 0)
      BY <1>1, <1>3, <2>2
    <3>2. loop.drop => loop.filter = "any"
      BY <1>2, <1>4 DEF TargetsLeft
    <3> HIDE DEF rest
    <3> QED BY <1>5, <3>1, <3>2, FirstTarget DEF TargetsLeft, CoreInv
  <2> QED BY <2>1, <2>2
<1>9. pc' \in {"idle", "loop"}
  BY <1>1
<1> QED BY <1>7, <1>8, <1>9 DEF OwnersInv, Writing

LEMMA ResetOwners ==
  ASSUME CoreInv, NumberInv, OwnersInv, ResetWrites, spoiled' = {}
  PROVE  OwnersInv'
<1>1. /\ pc \in Resetting /\ loop' = loop /\ UNCHANGED <<n_credentials, table>> /\ spoiled = {}
      /\ pc' \in {"reset number", "reset admin", "idle"}
  BY DEF ResetWrites, Resetting
<1>2. loop = NoLoop
  BY <1>1, IdleLoop DEF Resetting
<1>3. n_credentials = 0 /\ n_credentials' = 0
  BY <1>1 DEF NumberInv
<1>4. pc' # "reset number" => number' = 0
  <2>1. pc = "reset admin" => number = n_credentials
    BY <1>1 DEF NumberInv
  <2> QED BY <1>3, <2>1 DEF ResetWrites
<1>5. Remaining' = {}
  BY <1>3, <1>4, NothingRead DEF Remaining
<1> QED BY <1>1, <1>2, <1>5, NoTargets DEF OwnersInv, Writing

LEMMA PowerOwners ==
  ASSUME CoreInv, NumberInv, OwnersInv, PowerLoss, spoiled' = {}
  PROVE  OwnersInv'
<1>1. /\ pc # "reset number" /\ spoiled = {} /\ n_credentials' = number
      /\ pc' = "idle" /\ loop' = NoLoop /\ UNCHANGED <<number, table, users>>
  BY DEF PowerLoss, files
<1>2. Entries' = Visible(number) /\ Visible(number)' = Visible(number)
  BY <1>1 DEF Visible, Entries, TableReadable
<1>3. Remaining' \subseteq Remaining
  BY <1>1, <1>2 DEF Remaining
<1> QED BY <1>1, <1>3, NoTargets, OwnersKept DEF Writing

LEMMA OwnersNext == CoreInv /\ NumberInv /\ OwnersInv /\ [Next]_vars => OwnersInv'
<1> SUFFICES ASSUME CoreInv, NumberInv, OwnersInv, [Next]_vars, spoiled' = {} PROVE OwnersInv'
  BY DEF OwnersInv
<1>1. CASE AddDefaultPin
  <2>1. pc = "add default" /\ spoiled = {}
    BY <1>1 DEF AddDefaultPin, history
  <2>2. 1 \in users
    BY <2>1 DEF OwnersInv
  <2>3. Opened
    BY <1>1, <2>2, DefaultPinOpens
  <2>4. UNCHANGED <<n_credentials, number, table, spoiled>> /\ users \subseteq users'
        /\ loop' = NoLoop
    BY <2>3 DEF Opened
  <2>5. Remaining' \subseteq Remaining
    BY <2>1, <2>4, SameRemaining
  <2>6. /\ pc' \in Writing /\ call'.operation \in {"add", "move"} => call'.user \in users'
        /\ pc' = "add default" => 1 \in users'
    BY <2>3 DEF Opened, Writing, Started
  <2> QED BY <2>1, <2>4, <2>5, <2>6, NoTargets, OwnersKept
<1>2. CASE UNCHANGED vars
  <2>1. UNCHANGED <<n_credentials, number, table, users, pc, call, loop, spoiled>>
    BY <1>2 DEF vars, ram, files, history
  <2>2. Remaining' = Remaining /\ TargetsLeft' = TargetsLeft
    BY <2>1, SameTable DEF Remaining, Visible, TargetsLeft
  <2> QED BY <2>1, <2>2 DEF OwnersInv
<1> QED
  BY <1>1, <1>2, CommandOwners, ObjectOwners, TableOwners, NumberOwners, TargetOwners,
     NextUserOwners, ResetOwners, PowerOwners DEF Next

LEMMA NumberAlways == Spec => []NumberInv
<1>1. Init => NumberInv
  BY DEF Init, NumberInv, Resetting
<1> QED BY <1>1, NumberNext, CoreAlways, PTL DEF Spec

LEMMA OwnersAlways == Spec => []OwnersInv
<1>1. Init => OwnersInv
  <2> SUFFICES ASSUME Init PROVE OwnersInv
    OBVIOUS
  <2>1. Remaining = {}
    BY DEF Init, Remaining, Visible, Entries
  <2> QED BY <2>1 DEF Init, OwnersInv, TargetsLeft, Writing
<1> QED BY <1>1, OwnersNext, NumberAlways, CoreAlways, PTL DEF Spec

(***************************************************************************)
(* The credentials of a user are deleted before the user, whoever is       *)
(* deleted, for every number of credentials and wherever the power fails:  *)
(* no credential is left without its user.                                 *)
(***************************************************************************)
THEOREM NoCredentialWithoutUser == Spec => []NoOrphanCredentials
<1>1. OwnersInv => NoOrphanCredentials
  BY DEF OwnersInv, NoOrphanCredentials, Remaining
<1> QED BY <1>1, OwnersAlways, PTL
-------------------------------------------------------------------------------
(* The contents of the objects *)

\* Steps that write no object.
LEMMA IntactKept ==
  ASSUME IntactInv, spoiled = {}, UNCHANGED <<metadata, data, torn>>,
         Remaining' \subseteq Remaining, pc' # "data",
         pc' = "table" => call'.operation # "move"
  PROVE  IntactInv'
BY DEF IntactInv, Intact, Readable

LEMMA OpenedIntact ==
  ASSUME IntactInv, spoiled = {}, Opened, pc # "reset number"
  PROVE  IntactInv'
<1>1. UNCHANGED <<n_credentials, number, table, metadata, data, torn>>
  BY DEF Opened
<1>2. Remaining' \subseteq Remaining
  BY <1>1, SameRemaining
<1>3. \A e \in Remaining' : Intact(e)'
  BY <1>1, <1>2 DEF IntactInv, Intact, Readable
<1>4. pc' # "data"
  BY DEF Opened, Started
<1>5. pc' = "table" /\ call'.operation = "move" =>
        "ok" \notin DOMAIN call' /\ Entry(call'.key).user = call'.user
  BY DEF Opened
<1>6. Entry(call.key)' = Entry(call'.key)
  BY <1>1, SameTable DEF Entry
<1> QED BY <1>3, <1>4, <1>5, <1>6 DEF IntactInv

\* Only one entry has the object of a credential.
LEMMA ObjectOfOne ==
  ASSUME CoreInv, Fresh(call), NEW e \in Entries, e.object = call.object
  PROVE  /\ call.operation # "add"
         /\ call.operation \in {"modify", "move"} => e = Entry(call.key)
<1>1. call.operation # "add"
  BY DEF Fresh, Owned
<1>2. ASSUME call.operation \in {"modify", "move"} PROVE e = Entry(call.key)
  <2>1. Stored(call.key) /\ call.object = Entry(call.key).object
    BY <1>2 DEF Fresh
  <2>2. Entry(call.key) \in Entries
    BY <2>1, StoredEntry
  <2> QED BY <2>1, <2>2, EntryUnique DEF CoreInv
<1> QED BY <1>1, <1>2

LEMMA MetadataIntact ==
  ASSUME CoreInv, NumberInv, IntactInv, WriteMetadata, spoiled' = {}
  PROVE  IntactInv'
<1> DEFINE o == call.object
<1>1. /\ pc = "metadata" /\ loop = NoLoop
      /\ UNCHANGED <<n_credentials, number, table, data, spoiled>>
      /\ Fields(call) /\ Fresh(call) /\ call.operation \in {"add", "modify", "move"}
      /\ o \in Offsets
  BY WriteMetadataCall
<1>2. PICK ok \in BOOLEAN :
       /\ metadata' = IF ~ok THEN metadata
                      ELSE IF call.operation = "move" THEN [metadata EXCEPT ![o].user = call.user]
                      ELSE [metadata EXCEPT ![o] = [user |-> call.user,
                                                    length |-> CodeLength[call.code]]]
       /\ torn' = torn \cup {<<o, IF call.operation = "move" THEN "user" ELSE "data">>}
       /\ IF call.operation = "add" /\ ~ok THEN Return("none")
          ELSE /\ pc' = IF call.operation = "move" THEN "table" ELSE "data"
               /\ call' = Outcome(call, ok)
  BY DEF WriteMetadata, Outcome
<1>3. Remaining = Entries /\ Remaining' \subseteq Entries
  <2>1. Remaining = Entries
    BY <1>1, NumberIsCount
  <2> QED BY <1>1, <2>1, SameRemaining
<1>4. metadata \in [Offsets -> [user : Users, length : Nat \ {0}] \cup {NoMetadata}]
  BY CoreFiles DEF FilesOK
<1>5. metadata[o] \in [user : Users, length : Nat \ {0}] \/ metadata[o] = NoMetadata
  BY <1>1, <1>4
<1>6. ASSUME NEW e \in Entries PROVE Intact(e)'
  <2>1. Intact(e) /\ e.object \in Offsets
    BY <1>1, <1>3, EntryPlace, DescriptorType DEF IntactInv, CoreInv
  <2>2. CASE e.object # o
    <3>1. metadata'[e.object] = metadata[e.object]
      BY <1>1, <1>2, <1>4, <2>1, <2>2
    <3>2. \A what : <<e.object, what>> \in torn' <=> <<e.object, what>> \in torn
      BY <1>2, <2>2
    <3> QED BY <1>1, <2>1, <3>1, <3>2 DEF Intact, Readable
  <2>3. CASE e.object = o /\ call.operation = "modify"
    BY <1>2, <2>3 DEF Intact
  <2>4. CASE e.object = o /\ call.operation = "move"
    <3>1. metadata'[o].length = metadata[o].length
      BY <1>1, <1>2, <1>4, <1>5, <2>4 DEF NoMetadata
    <3>2. <<o, "user">> \in torn' /\ torn \subseteq torn'
      BY <1>2, <2>4
    <3> QED BY <1>1, <2>1, <2>4, <3>1, <3>2 DEF Intact, Readable
  <2> QED BY <1>1, <2>2, <2>3, <2>4, ObjectOfOne
<1>7. CASE call.operation = "add" /\ ~ok
  <2>1. pc' = "idle"
    BY <1>1, <1>2, <1>7 DEF Return
  <2> QED BY <1>3, <1>6, <2>1 DEF IntactInv
<1>8. CASE ~(call.operation = "add" /\ ~ok)
  <2>1. /\ pc' = IF call.operation = "move" THEN "table" ELSE "data"
        /\ call' = Outcome(call, ok)
    BY <1>2, <1>8
  <2>2. /\ call'.operation = call.operation /\ call'.object = o /\ call'.ok = ok
        /\ call'.user = call.user /\ "ok" \in DOMAIN call'
    BY <1>1, <2>1, Recorded
  <2>3. pc' = "data" => <<o, "data">> \in torn'
    BY <1>2, <2>1
  <2>4. call.operation = "move" =>
          <<o, "user">> \in torn' /\ (ok => metadata'[o].user = call.user)
    BY <1>1, <1>2, <1>4, <1>5 DEF NoMetadata
  <2> QED BY <1>3, <1>6, <2>1, <2>2, <2>3, <2>4 DEF IntactInv
<1> QED BY <1>7, <1>8

LEMMA DataIntact ==
  ASSUME CoreInv, NumberInv, IntactInv, WriteData, spoiled' = {}
  PROVE  IntactInv'
<1> DEFINE o == call.object
<1>1. /\ pc = "data" /\ loop = NoLoop
      /\ UNCHANGED <<n_credentials, number, table, metadata, spoiled>>
      /\ Fresh(call) /\ call.operation \in {"add", "modify"} /\ call.ok \in BOOLEAN
      /\ call.operation = "add" => call.ok
      /\ call.ok => metadata[o] = Header(call)
      /\ o \in Offsets /\ call.code \in Codes
  BY WriteDataCall
<1>2. Remaining = Entries /\ Remaining' \subseteq Entries
  <2>1. Remaining = Entries
    BY <1>1, NumberIsCount
  <2> QED BY <1>1, <2>1, SameRemaining
<1>3. pc' \in {"idle", "table"} /\ (pc' = "table" => call'.operation # "move")
  BY <1>1 DEF WriteData, Return
<1>4. CASE UNCHANGED <<data, torn>>
  BY <1>1, <1>2, <1>3, <1>4, IntactKept
<1>5. CASE /\ data' = [data EXCEPT ![o] = call.code]
           /\ torn' = IF call.ok THEN torn \ {<<o, "user">>, <<o, "data">>} ELSE torn
  <2>1. data \in [Offsets -> Codes \cup {NoCode}] /\ NoCode \notin Codes
    BY CoreFiles, CredentialAssumption DEF FilesOK
  <2>2. ASSUME NEW e \in Entries PROVE Intact(e)'
    <3>1. Intact(e) /\ e.object \in Offsets
      BY <1>1, <1>2, EntryPlace, DescriptorType DEF IntactInv, CoreInv
    <3>2. CASE e.object # o
      <4>1. data'[e.object] = data[e.object]
        BY <1>1, <1>5, <2>1, <3>1, <3>2
      <4>2. \A what : <<e.object, what>> \in torn' <=> <<e.object, what>> \in torn
        BY <1>5, <3>2
      <4> QED BY <1>1, <3>1, <4>1, <4>2 DEF Intact, Readable
    <3>3. CASE e.object = o /\ call.ok
      <4>1. e = Entry(call.key) /\ call.operation = "modify"
        BY <1>1, <3>3, ObjectOfOne
      <4>2. call.user = e.user
        BY <1>1, <4>1 DEF Fresh
      <4>3. /\ metadata'[o].user = call.user /\ metadata'[o].length = CodeLength[call.code]
            /\ data'[o] = call.code /\ data'[o] # NoCode
        BY <1>1, <1>5, <2>1, <3>3 DEF Header
      <4> QED BY <3>3, <4>2, <4>3 DEF Intact, Readable
    <3>4. CASE e.object = o /\ ~call.ok
      <4>1. <<o, "data">> \in torn'
        BY <1>1, <1>5, <3>4 DEF IntactInv
      <4> QED BY <3>4, <4>1 DEF Intact
    <3> QED BY <1>1, <3>2, <3>3, <3>4
  <2> QED BY <1>2, <1>3, <2>2 DEF IntactInv
<1> QED BY <1>4, <1>5 DEF WriteData

LEMMA TableIntact ==
  ASSUME CoreInv, NumberInv, IntactInv, WriteTable, spoiled' = {}
  PROVE  IntactInv'
<1> DEFINE o == call.object
<1>1. /\ pc = "table" /\ UNCHANGED <<number, metadata, data>>
      /\ TableStep \/ TableFault
      /\ call.operation \in {"add", "delete", "move"} /\ Fresh(call) /\ Arguments(call)
  BY WriteTableCall
<1>2. CASE TableFault
  <2>1. spoiled = {} /\ UNCHANGED <<n_credentials, table, torn>> /\ pc' \in {"idle", "loop"}
    BY <1>2 DEF TableFault, Return
  <2>2. Remaining' \subseteq Remaining
    BY <1>1, <2>1, SameRemaining
  <2> QED BY <1>1, <2>1, <2>2, IntactKept
<1>3. CASE TableStep
  <2>1. /\ spoiled = {} /\ pc' \in {"number", "idle", "loop"}
        /\ call.operation # "move" => torn' = torn
    BY <1>3 DEF TableStep, Return
  <2>2. \A e \in Remaining : Intact(e)
    BY <2>1 DEF IntactInv
  <2>3. Remaining = Entries
    BY <1>1, <2>1, NumberIsCount
  <2>4. CASE call.operation = "add"
    <3>1. Remaining' \subseteq Remaining \cup {NewDescriptor}
      BY <1>3, <2>1, <2>4, TableRemaining
    <3>2. metadata[o] = Header(call) /\ data[o] = call.code /\ call.code \in Codes
      BY <1>1, <2>4 DEF CoreInv, CallOK, Arguments
    <3>3. Intact(NewDescriptor)
      <4>1. metadata[o].user = call.user /\ metadata[o].length = CodeLength[call.code]
        BY <3>2 DEF Header
      <4>2. data[o] # NoCode
        BY <3>2, CredentialAssumption
      <4>3. NewDescriptor.object = o /\ NewDescriptor.user = call.user
        BY DEF NewDescriptor
      <4> QED BY <3>2, <4>1, <4>2, <4>3 DEF Intact, Readable
    <3>4. \A e \in Remaining' : Intact(e)
      BY <2>2, <3>1, <3>3
    <3>5. \A e \in Remaining' : Intact(e)'
      BY <1>1, <2>1, <2>4, <3>4 DEF Intact, Readable
    <3> QED BY <2>1, <3>5 DEF IntactInv
  <2>5. CASE call.operation = "delete"
    <3>1. Remaining' \subseteq Remaining
      BY <1>3, <2>1, <2>5, TableRemaining
    <3> QED BY <1>1, <2>1, <2>5, <3>1, IntactKept
  <2>6. CASE call.operation = "move"
    <3> DEFINE old == Entry(call.key)
    <3>0. PICK moved : moved = [old EXCEPT !.user = call.user]
      OBVIOUS
    <3>1. Remaining' \subseteq {e \in Remaining : e.key # call.key} \cup {moved}
      BY <1>3, <3>0, <2>1, <2>6, TableRemaining
    <3>2. /\ old \in Entries /\ old.key = call.key /\ old \in Descriptors
          /\ o = old.object /\ Stored(call.key)
      BY <1>1, <2>6, EntryObject DEF Fresh, CoreInv
    <3>3. moved.object = o /\ moved.user = call.user
      BY <3>0, <3>2 DEF Descriptors
    <3>4. torn' = IF "ok" \in DOMAIN call /\ call.ok THEN torn \ {<<o, "user">>} ELSE torn
      BY <1>3, <2>6 DEF TableStep
    <3>5. IF "ok" \in DOMAIN call
          THEN /\ <<o, "user">> \in torn
               /\ call.ok => metadata[o].user = call.user
          ELSE old.user = call.user
      BY <1>1, <2>1, <2>6 DEF IntactInv
    <3>6. ASSUME NEW e \in Entries, e.key # call.key PROVE Intact(e)'
      <4>1. e.object # o
        BY <1>1, <2>6, <3>2, <3>6, ObjectOfOne
      <4>2. \A what : <<e.object, what>> \in torn' <=> <<e.object, what>> \in torn
        BY <3>4, <4>1
      <4>3. Intact(e)
        BY <2>2, <2>3
      <4> QED BY <1>1, <4>2, <4>3 DEF Intact, Readable
    <3>7. Intact(moved)'
      <4>1. Intact(old)
        BY <2>2, <2>3, <3>2
      <4>2. <<o, "data">> \in torn' <=> <<o, "data">> \in torn
        BY <3>4
      <4>3. <<o, "data">> \notin torn' => data'[o] # NoCode
                                         /\ CodeLength[data'[o]] = metadata'[o].length
        BY <1>1, <3>2, <4>1, <4>2 DEF Intact, Readable
      <4>4. {<<o, "user">>, <<o, "data">>} \cap torn' = {} => metadata'[o].user = call.user
        BY <1>1, <3>2, <3>4, <3>5, <4>1 DEF Intact
      <4> QED BY <3>3, <4>3, <4>4 DEF Intact, Readable
    <3>8. \A e \in Remaining' : Intact(e)'
      BY <2>3, <3>1, <3>6, <3>7
    <3> QED BY <2>1, <3>8 DEF IntactInv
  <2> QED BY <1>1, <2>4, <2>5, <2>6
<1> QED BY <1>1, <1>2, <1>3

LEMMA IntactNext == CoreInv /\ NumberInv /\ OwnersInv /\ IntactInv /\ [Next]_vars => IntactInv'
<1> SUFFICES ASSUME CoreInv, NumberInv, OwnersInv, IntactInv, [Next]_vars, spoiled' = {}
             PROVE  IntactInv'
  BY DEF IntactInv
<1>1. CASE Commands
  <2>1. pc = "idle" /\ (Opened \/ Deleting \/ Cleared)
    BY <1>1, CommandKinds
  <2>2. CASE Opened
    <3>1. spoiled = {}
      BY <2>2 DEF Opened
    <3> QED BY <2>1, <2>2, <3>1, OpenedIntact
  <2>3. CASE Deleting
    <3>1. /\ UNCHANGED <<n_credentials, number, table, metadata, data, torn, spoiled>>
          /\ pc' = "loop"
      BY <2>3 DEF Deleting
    <3>2. Remaining' \subseteq Remaining
      BY <2>1, <3>1, SameRemaining
    <3> QED BY <3>1, <3>2, IntactKept
  <2>4. CASE Cleared
    <3>1. /\ UNCHANGED <<number, table, metadata, data, torn, spoiled>>
          /\ n_credentials' = 0 /\ pc' = "reset users"
      BY <2>4 DEF Cleared
    <3>2. Entries' = {} /\ Visible(number)' = Visible(number)
      BY <3>1, NothingRead DEF Visible
    <3>3. Remaining' \subseteq Remaining
      BY <2>1, <3>1, <3>2 DEF Remaining
    <3> QED BY <3>1, <3>3, IntactKept
  <2> QED BY <2>1, <2>2, <2>3, <2>4
<1>2. CASE WriteNumber
  <2>1. /\ pc = "number" /\ spoiled = {}
        /\ UNCHANGED <<n_credentials, table, metadata, data, torn>>
        /\ number' = n_credentials /\ pc' \in {"idle", "loop"}
    BY <1>2 DEF WriteNumber, Return
  <2>2. Entries' = Entries /\ Visible(number)' = Entries
    BY <2>1, SameTable DEF Visible, Entries, TableReadable
  <2>3. Remaining' \subseteq Remaining
    BY <2>1, <2>2 DEF Remaining
  <2> QED BY <2>1, <2>3, IntactKept
<1>3. CASE DeleteTarget
  <2>1. /\ pc = "loop" /\ delete_credential(loop.target)
        /\ UNCHANGED <<n_credentials, number, table, metadata, data, torn, spoiled>>
    BY <1>3 DEF DeleteTarget, delete_credential, ram, files, history
  <2>2. pc' # "data" /\ (pc' = "table" => call'.operation # "move")
    BY <2>1 DEF delete_credential, Return, Begin
  <2>3. Remaining' \subseteq Remaining
    BY <2>1, SameRemaining
  <2> QED BY <2>1, <2>2, <2>3, IntactKept
<1>4. CASE NextUser
  <2>1. /\ pc = "loop" /\ pc' \in {"idle", "loop"}
        /\ UNCHANGED <<n_credentials, number, table, metadata, data, torn, spoiled>>
    BY <1>4 DEF NextUser, ram, files
  <2>2. Remaining' \subseteq Remaining
    BY <2>1, SameRemaining
  <2> QED BY <2>1, <2>2, IntactKept
<1>5. CASE AddDefaultPin
  <2>1. pc = "add default" /\ spoiled = {}
    BY <1>5 DEF AddDefaultPin, history
  <2>2. 1 \in users
    BY <2>1 DEF OwnersInv
  <2> QED BY <1>5, <2>1, <2>2, DefaultPinOpens, OpenedIntact
<1>6. CASE ResetWrites
  <2>1. /\ pc \in Resetting /\ UNCHANGED <<n_credentials, table, metadata, data, torn>>
        /\ spoiled = {} /\ pc' \in {"reset number", "reset admin", "idle"}
    BY <1>6 DEF ResetWrites, Resetting
  <2>2. n_credentials' = 0
    BY <2>1 DEF NumberInv
  <2>3. pc' # "reset number" => number' = 0
    <3>1. pc = "reset admin" => number = n_credentials
      BY <2>1 DEF NumberInv
    <3> QED BY <1>6, <2>1, <2>2, <3>1 DEF ResetWrites
  <2>4. Remaining' = {}
    BY <2>2, <2>3, NothingRead DEF Remaining
  <2> QED BY <2>1, <2>4, IntactKept
<1>7. CASE PowerLoss
  <2>1. /\ pc # "reset number" /\ spoiled = {} /\ n_credentials' = number
        /\ pc' = "idle" /\ UNCHANGED <<number, table, metadata, data, torn>>
    BY <1>7 DEF PowerLoss, files
  <2>2. Entries' = Visible(number) /\ Visible(number)' = Visible(number)
    BY <2>1 DEF Visible, Entries, TableReadable
  <2>3. Remaining' \subseteq Remaining
    BY <2>1, <2>2 DEF Remaining
  <2> QED BY <2>1, <2>3, IntactKept
<1>8. CASE UNCHANGED vars
  <2>1. UNCHANGED <<n_credentials, number, table, metadata, data, torn, pc, call, spoiled>>
    BY <1>8 DEF vars, ram, files, history
  <2>2. Remaining' = Remaining /\ Entry(call.key)' = Entry(call.key)
    BY <2>1, SameTable DEF Remaining, Visible, Entry
  <2> QED BY <2>1, <2>2 DEF IntactInv, Intact, Readable
<1> QED
  BY <1>1, <1>2, <1>3, <1>4, <1>5, <1>6, <1>7, <1>8, MetadataIntact, DataIntact, TableIntact
     DEF Next

LEMMA IntactAlways == Spec => []IntactInv
<1>1. Init => IntactInv
  <2> SUFFICES ASSUME Init PROVE IntactInv
    OBVIOUS
  <2>1. Remaining = {}
    BY DEF Init, Remaining, Visible, Entries
  <2> QED BY <2>1 DEF Init, IntactInv
<1> QED BY <1>1, IntactNext, OwnersAlways, NumberAlways, CoreAlways, PTL DEF Spec

(***************************************************************************)
(* The order of the writes protects every credential but the one under     *)
(* way: between operations all others can be read, with the data and the   *)
(* user that the last complete operation gave them.                        *)
(***************************************************************************)
THEOREM CredentialsStayIntact == Spec => []CredentialsIntact
<1>1. CoreInv /\ IntactInv => CredentialsIntact
  <2> SUFFICES ASSUME CoreInv, IntactInv, spoiled = {}, NEW e \in Entries
               PROVE  /\ <<e.object, "data">> \notin torn => get_credential(e.key) # NoCode
                      /\ {<<e.object, "user">>, <<e.object, "data">>} \cap torn = {}
                           => metadata[e.object].user = e.user
    BY DEF CredentialsIntact
  <2>1. Intact(e)
    BY DEF IntactInv, Remaining
  <2>2. Stored(e.key) /\ Entry(e.key) = e
    BY EntryUnique DEF CoreInv
  <2> QED BY <2>1, <2>2 DEF Intact, Readable, get_credential
<1> QED BY <1>1, CoreAlways, IntactAlways, PTL
-------------------------------------------------------------------------------
(* What a caller is told, and what a reader is spared *)

LEMMA IdleNext == CoreInv /\ IdleInv /\ [Next]_vars => IdleInv'
<1> SUFFICES ASSUME CoreInv, IdleInv, [Next]_vars PROVE IdleInv'
  OBVIOUS
<1>1. CASE Commands
  <2>1. pc = "idle" /\ (Opened \/ Deleting \/ Cleared)
    BY <1>1, CommandKinds
  <2>2. call = NoCall
    BY <2>1 DEF IdleInv, Writing
  <2> QED BY <2>1, <2>2 DEF IdleInv, Writing, Opened, Deleting, Cleared, Started
<1>2. CASE WriteMetadata
  BY <1>2 DEF WriteMetadata, Return, IdleInv, Writing
<1>3. CASE WriteData
  BY <1>3 DEF WriteData, Return, IdleInv, Writing
<1>4. CASE WriteTable
  BY <1>4 DEF WriteTable, Return, IdleInv, Writing
<1>5. CASE WriteNumber
  BY <1>5 DEF WriteNumber, Return, IdleInv, Writing
<1>6. CASE DeleteTarget
  BY <1>6 DEF DeleteTarget, delete_credential, Return, Begin, IdleInv, Writing
<1>7. CASE NextUser
  BY <1>7 DEF NextUser, IdleInv, Writing
<1>8. CASE AddDefaultPin
  BY <1>8 DEF AddDefaultPin, add_credential, Return, Begin, IdleInv, Writing
<1>9. CASE ResetWrites
  BY <1>9 DEF ResetWrites, IdleInv, Writing
<1>10. CASE PowerLoss
  BY <1>10 DEF PowerLoss, IdleInv, Writing
<1>11. CASE UNCHANGED vars
  BY <1>11 DEF vars, IdleInv
<1> QED
  BY <1>1, <1>2, <1>3, <1>4, <1>5, <1>6, <1>7, <1>8, <1>9, <1>10, <1>11 DEF Next

LEMMA IdleAlways == Spec => []IdleInv
<1>1. Init => IdleInv
  BY DEF Init, IdleInv
<1> QED BY <1>1, IdleNext, CoreAlways, PTL DEF Spec

\* Only WriteTable leads to the write of the number.
LEMMA NumberNeedsTable ==
  ASSUME CoreInv, [Next]_vars, pc' = "number", pc # "number"
  PROVE  WriteTable
<1>1. ~Commands
  BY CommandKinds DEF Opened, Deleting, Cleared, Started
<1>2. ~WriteMetadata
  BY DEF WriteMetadata, Return
<1>3. ~WriteData
  BY DEF WriteData, Return
<1>4. ~WriteNumber /\ ~NextUser /\ ~ResetWrites /\ ~PowerLoss /\ ~UNCHANGED vars
  BY DEF WriteNumber, NextUser, ResetWrites, PowerLoss, vars
<1>5. ~DeleteTarget
  BY DEF DeleteTarget, delete_credential, Return, Begin
<1>6. ~AddDefaultPin
  BY DEF AddDefaultPin, add_credential, Return, Begin
<1> QED BY <1>1, <1>2, <1>3, <1>4, <1>5, <1>6 DEF Next

\* The write of the number, once it is due, is not put off.
LEMMA NumberIsWritten ==
  ASSUME CoreInv, [Next]_vars, pc = "number", pc' = "number"
  PROVE  UNCHANGED vars
<1>1. ~Commands
  BY CommandKinds
<1>2. ~WriteNumber
  BY DEF WriteNumber, Return
<1> QED
  BY <1>1, <1>2 DEF Next, WriteMetadata, WriteData, WriteTable, DeleteTarget, NextUser,
                    AddDefaultPin, ResetWrites, PowerLoss

LEMMA LastNext == CoreInv /\ NumberInv /\ LastInv /\ [Next]_vars => LastInv'
<1> SUFFICES ASSUME CoreInv, NumberInv, LastInv, [Next]_vars, spoiled' = {}, pc' = "number",
                    call'.operation = "delete", n_credentials' = 0
             PROVE  \A e \in Visible(number)' : e.key = call'.key
  BY DEF LastInv
<1>1. CASE pc = "number"
  <2>1. UNCHANGED <<n_credentials, number, table, pc, call, spoiled>>
    BY <1>1, NumberIsWritten DEF vars, ram, files, history
  <2>2. Visible(number)' = Visible(number)
    BY <2>1 DEF Visible
  <2> QED BY <1>1, <2>1, <2>2 DEF LastInv
<1>2. CASE pc # "number"
  <2>1. WriteTable
    BY <1>2, NumberNeedsTable
  <2>2. pc = "table" /\ UNCHANGED number /\ (TableStep \/ TableFault)
    BY <2>1, WriteTableCall
  <2>3. TableStep /\ call' = call /\ spoiled = {}
    BY <2>2 DEF TableStep, TableFault, Return
  <2>4. n_credentials' = Len(NewTable) /\ Elements(NewTable) = {e \in Entries : e.key # call.key}
        /\ NewTable \in Seq(Descriptors)
    BY <2>2, <2>3, NewTableOld DEF TableStep
  <2>5. NewTable = <<>>
    BY <2>4, EmptySeq
  <2>6. table' = table /\ Elements(NewTable) = {}
    BY <2>3, <2>5 DEF TableStep, Elements
  <2>7. Visible(number) = Entries
    BY <2>2, <2>3, NumberIsCount
  <2>8. Visible(number)' = Entries
    BY <2>2, <2>6, <2>7 DEF Visible
  <2> QED BY <2>3, <2>4, <2>6, <2>8
<1> QED BY <1>1, <1>2

LEMMA LastAlways == Spec => []LastInv
<1>1. Init => LastInv
  BY DEF Init, LastInv
<1> QED BY <1>1, LastNext, NumberAlways, CoreAlways, PTL DEF Spec

\* What a reader gets for a stored key.
LEMMA ViewOf ==
  ASSUME NEW key, NEW e, Stored(key)', Entry(key)' = e,
         data'[e.object] # NoCode, CodeLength[data'[e.object]] = metadata'[e.object].length
  PROVE  View(key)' = [user |-> e.user, code |-> data'[e.object]]
BY DEF View, get_credential

\* SuccessMeansStored, for one step.
StoredAsReported ==
  \A key \in {call.key} \cap Keys :
    result' = "SUCCESS" /\ call' = NoCall /\ TableReadable' =>
      /\ call.operation \in {"add", "modify"} =>
           View(key)' = [user |-> call.user, code |-> call.code]
      /\ call.operation = "delete" => ~Stored(key)'

LEMMA DataReported ==
  ASSUME CoreInv, WriteData
  PROVE  StoredAsReported
<1> SUFFICES ASSUME NEW key \in Keys, key = call.key, result' = "SUCCESS", call' = NoCall
             PROVE  /\ call.operation \in {"add", "modify"}
                    /\ View(key)' = [user |-> call.user, code |-> call.code]
  BY DEF StoredAsReported
<1>1. /\ pc = "data" /\ result = "none" /\ UNCHANGED <<n_credentials, table, metadata>>
      /\ Fresh(call) /\ call.operation \in {"add", "modify"}
      /\ call.ok => metadata[call.object] = Header(call)
      /\ call.object \in Offsets /\ call.code \in Codes
  BY WriteDataCall
<1>2. /\ call.ok /\ call.operation = "modify"
      /\ data' = [data EXCEPT ![call.object] = call.code]
  BY <1>1 DEF WriteData, Return
<1>3. data \in [Offsets -> Codes \cup {NoCode}] /\ NoCode \notin Codes
  BY CoreFiles, CredentialAssumption DEF FilesOK
<1>4. PICK e : e = Entry(key)
  OBVIOUS
<1>5. Stored(key) /\ e.object = call.object /\ e.user = call.user
  BY <1>1, <1>2, <1>4 DEF Fresh
<1>6. Stored(key)' /\ Entry(key)' = e
  BY <1>1, <1>4, <1>5, SameTable
<1>7. data'[e.object] = call.code /\ metadata'[e.object].length = CodeLength[call.code]
  BY <1>1, <1>2, <1>3, <1>5 DEF Header
<1>8. View(key)' = [user |-> e.user, code |-> data'[e.object]]
  BY <1>1, <1>3, <1>6, <1>7, ViewOf
<1> QED BY <1>1, <1>5, <1>7, <1>8

LEMMA NumberReported ==
  ASSUME CoreInv, WriteNumber
  PROVE  StoredAsReported
<1> SUFFICES ASSUME NEW key \in Keys, key = call.key, result' = "SUCCESS", TableReadable'
             PROVE  /\ call.operation \in {"add", "delete"}
                    /\ call.operation = "add" =>
                         View(key)' = [user |-> call.user, code |-> call.code]
                    /\ call.operation = "delete" => ~Stored(key)'
  BY DEF StoredAsReported
<1>1. pc = "number" /\ UNCHANGED <<n_credentials, table, metadata, data>>
  BY DEF WriteNumber, Return
<1>2. call.operation \in {"add", "delete"} /\ Arguments(call)
  BY <1>1 DEF CoreInv, CallOK, Order, Writing
<1>3. CASE call.operation = "add"
  <2>1. PICK e : e = NewDescriptor
    OBVIOUS
  <2>2. e \in Entries /\ metadata[call.object] = Header(call) /\ data[call.object] = call.code
    BY <1>1, <1>3, <2>1 DEF CoreInv, CallOK, NewDescriptor
  <2>3. e.key = key /\ e.object = call.object /\ e.user = call.user
    BY <2>1 DEF NewDescriptor
  <2>4. Stored(key) /\ Entry(key) = e
    BY <2>2, <2>3, EntryUnique DEF CoreInv
  <2>5. Stored(key)' /\ Entry(key)' = e
    BY <1>1, <2>4, SameTable
  <2>6. data'[e.object] = call.code /\ metadata'[e.object].length = CodeLength[call.code]
    BY <1>1, <2>2, <2>3 DEF Header
  <2>7. call.code # NoCode
    BY <1>2, <1>3, CredentialAssumption DEF Arguments
  <2>8. View(key)' = [user |-> e.user, code |-> data'[e.object]]
    BY <2>5, <2>6, <2>7, ViewOf
  <2> QED BY <1>3, <2>3, <2>6, <2>8
<1>4. CASE call.operation = "delete"
  <2>1. \A e \in Entries : e.key # key
    BY <1>1, <1>4 DEF CoreInv, CallOK
  <2>2. ~Stored(key)
    BY <2>1 DEF Stored
  <2> QED BY <1>1, <1>4, <2>2, SameTable
<1> QED BY <1>2, <1>3, <1>4

(***************************************************************************)
(* What add_credential, modify_credential and delete_credential report is  *)
(* true, for every table size, when the write of the table is not skipped. *)
(***************************************************************************)
THEOREM ReportedIsStored == Spec => SuccessMeansStored
<1>1. CoreInv /\ IdleInv /\ [Next]_vars => [StoredAsReported]_vars
  <2> SUFFICES ASSUME CoreInv, IdleInv, Next PROVE StoredAsReported
    OBVIOUS
  <2>1. CASE pc \notin Writing
    <3>1. call.key = 0
      BY <2>1 DEF IdleInv, NoCall
    <3> QED BY <3>1 DEF StoredAsReported, Keys
  <2>2. CASE pc \in Writing
    <3>1. CASE WriteMetadata
      <4>1. result' = "none"
        BY <3>1, WriteMetadataCall DEF WriteMetadata, Return
      <4> QED BY <4>1 DEF StoredAsReported
    <3>2. CASE WriteTable
      <4>1. result = "none" /\ (TableStep \/ TableFault)
        BY <3>2, WriteTableCall
      <4>2. result' = "SUCCESS" => call.operation = "move"
        BY <4>1 DEF TableStep, TableFault, Return
      <4> QED BY <4>2 DEF StoredAsReported
    <3>3. CASE PowerLoss
      BY <3>3 DEF PowerLoss, StoredAsReported
    <3>4. ~Commands
      BY <2>2, CommandKinds DEF Writing
    <3>5. ~DeleteTarget /\ ~NextUser /\ ~AddDefaultPin /\ ~ResetWrites
      BY <2>2 DEF DeleteTarget, NextUser, AddDefaultPin, ResetWrites, Writing
    <3> QED BY <3>1, <3>2, <3>3, <3>4, <3>5, DataReported, NumberReported DEF Next
  <2> QED BY <2>1, <2>2
<1>2. SuccessMeansStored <=> [][StoredAsReported]_vars
  BY DEF SuccessMeansStored, StoredAsReported
<1> QED BY <1>1, <1>2, CoreAlways, IdleAlways, PTL DEF Spec

\* A step that leaves the entry and the object of a key alone does not change what a reader gets.
LEMMA OtherView ==
  ASSUME CoreInv, NEW key,
         \A e : e.key = key => (e \in Entries' <=> e \in Entries),
         \A e \in Entries : e.key = key =>
           /\ data'[e.object] = data[e.object]
           /\ metadata'[e.object].length = metadata[e.object].length
  PROVE  View(key)' = View(key)
<1>1. Stored(key)' <=> Stored(key)
  BY DEF Stored
<1>2. CASE ~Stored(key)
  BY <1>1, <1>2 DEF View
<1>3. CASE Stored(key)
  <2>1. PICK e : e = Entry(key)
    OBVIOUS
  <2>2. e \in Entries /\ e.key = key
    BY <1>3, <2>1, StoredEntry
  <2>3. PICK f : f = Entry(key)'
    OBVIOUS
  <2>4. f \in Entries' /\ f.key = key
    BY <1>1, <1>3, <2>3 DEF Stored, Entry
  <2>5. f = e
    BY <2>2, <2>4, EntryUnique DEF CoreInv
  <2>6. get_credential(key)' = get_credential(key)
    <3>1. /\ get_credential(key) = IF /\ data[e.object] # NoCode
                                      /\ CodeLength[data[e.object]] = metadata[e.object].length
                                   THEN data[e.object] ELSE NoCode
      BY <1>3, <2>1 DEF get_credential
    <3>2. /\ get_credential(key)' = IF /\ data'[e.object] # NoCode
                                       /\ CodeLength[data'[e.object]] = metadata'[e.object].length
                                    THEN data'[e.object] ELSE NoCode
      BY <1>1, <1>3, <2>3, <2>5 DEF get_credential
    <3> QED BY <2>2, <3>1, <3>2
  <2> QED BY <1>1, <1>3, <2>1, <2>3, <2>5, <2>6 DEF View
<1> QED BY <1>2, <1>3

LEMMA SameView ==
  ASSUME CoreInv, NEW key, UNCHANGED <<n_credentials, table, metadata, data>>
  PROVE  View(key)' = View(key)
BY SameTable, OtherView

\* KeepsOthers, for one step.
OthersKept ==
  /\ TableReadable /\ TableReadable'
  /\ spoiled' = {}
  /\ \A p \in {pc, pc'} : p \notin {"reset users", "reset number", "reset admin"}
  => \A key \in Keys \ {call.key} : View(key)' = View(key)

LEMMA ObjectKeepsOthers ==
  ASSUME CoreInv, WriteMetadata \/ WriteData
  PROVE  OthersKept
<1> SUFFICES ASSUME NEW key \in Keys, key # call.key PROVE View(key)' = View(key)
  BY DEF OthersKept
<1>1. /\ UNCHANGED <<n_credentials, table>> /\ Fresh(call)
      /\ call.operation \in {"add", "modify", "move"} /\ call.object \in Offsets
  BY WriteMetadataCall, WriteDataCall
<1>2. /\ metadata \in [Offsets -> [user : Users, length : Nat \ {0}] \cup {NoMetadata}]
      /\ data \in [Offsets -> Codes \cup {NoCode}]
  BY CoreFiles DEF FilesOK
<1>3. ASSUME NEW e \in Entries, e.key = key
      PROVE  data'[e.object] = data[e.object] /\ metadata'[e.object] = metadata[e.object]
  <2>1. e.object \in Offsets
    BY EntryPlace, DescriptorType DEF CoreInv
  <2>2. e.object # call.object
    <3> SUFFICES ASSUME e.object = call.object PROVE FALSE
      OBVIOUS
    <3>1. e = Entry(call.key) /\ Stored(call.key)
      BY <1>1, ObjectOfOne DEF Fresh
    <3>2. Entry(call.key).key = call.key
      BY <3>1, StoredEntry
    <3> QED BY <1>3, <3>1, <3>2
  <2>3. CASE WriteMetadata
    <3>1. data' = data
      BY <2>3, WriteMetadataCall
    <3>2. metadata'[e.object] = metadata[e.object]
      BY <1>1, <1>2, <2>1, <2>2, <2>3 DEF WriteMetadata
    <3> QED BY <3>1, <3>2
  <2>4. CASE WriteData
    <3>1. metadata' = metadata
      BY <2>4, WriteDataCall
    <3>2. data'[e.object] = data[e.object]
      BY <1>1, <1>2, <2>1, <2>2, <2>4 DEF WriteData
    <3> QED BY <3>1, <3>2
  <2> QED BY <2>3, <2>4
<1> QED BY <1>1, <1>3, SameTable, OtherView

LEMMA TableKeepsOthers ==
  ASSUME CoreInv, WriteTable
  PROVE  OthersKept
<1> SUFFICES ASSUME TableReadable', NEW key \in Keys, key # call.key
             PROVE  View(key)' = View(key)
  BY DEF OthersKept
<1>1. /\ pc = "table" /\ UNCHANGED <<metadata, data>> /\ (TableStep \/ TableFault)
      /\ call.operation \in {"add", "delete", "move"} /\ Fresh(call)
  BY WriteTableCall
<1>2. CASE TableFault
  BY <1>1, <1>2, SameView DEF TableFault
<1>3. CASE TableStep
  <2>1. ASSUME NEW e, e.key = key PROVE e \in Entries' <=> e \in Entries
    <3>1. CASE call.operation = "add"
      <4>1. Entries' = Entries \cup {NewDescriptor}
        BY <1>1, <1>3, <3>1, TableWritten DEF TableStep
      <4>2. NewDescriptor.key = call.key
        BY DEF NewDescriptor
      <4> QED BY <2>1, <4>1, <4>2
    <3>2. CASE call.operation = "delete"
      <4>1. Entries' = {d \in Entries : d.key # call.key}
        BY <1>1, <1>3, <3>2, TableWritten DEF TableStep
      <4> QED BY <2>1, <4>1
    <3>3. CASE call.operation = "move"
      <4>1. Entries' = {d \in Entries : d.key # call.key}
                         \cup {[Entry(call.key) EXCEPT !.user = call.user]}
        BY <1>1, <1>3, <3>3, TableWritten DEF TableStep
      <4>2. Entry(call.key) \in Descriptors /\ Entry(call.key).key = call.key
        BY <1>1, <3>3, EntryObject DEF Fresh, CoreInv
      <4>3. [Entry(call.key) EXCEPT !.user = call.user].key = call.key
        BY <4>2 DEF Descriptors
      <4> QED BY <2>1, <4>1, <4>3
    <3> QED BY <1>1, <3>1, <3>2, <3>3
  <2> QED BY <1>1, <2>1, OtherView
<1> QED BY <1>1, <1>2, <1>3

LEMMA PowerKeepsOthers ==
  ASSUME CoreInv, NumberInv, LastInv, PowerLoss
  PROVE  OthersKept
<1> SUFFICES ASSUME TableReadable, TableReadable', spoiled' = {}, pc \notin Resetting,
                    NEW key \in Keys, key # call.key
             PROVE  View(key)' = View(key)
  BY DEF OthersKept, Resetting
<1>1. n_credentials' = number /\ spoiled = {} /\ UNCHANGED <<number, table, metadata, data>>
  BY DEF PowerLoss, files
<1>2. CASE pc # "number"
  <2>1. number = n_credentials
    BY <1>1, <1>2 DEF NumberInv, Resetting
  <2> QED BY <1>1, <2>1, SameView
<1>3. CASE pc = "number"
  <2>1. Entries' = Visible(number)
    BY <1>1 DEF Entries, Visible, TableReadable
  <2>2. n_credentials \in Nat /\ Len(table) \in Nat
    BY Numbers DEF CoreInv
  <2>3. number = 0 \/ number = Len(table)
    BY <1>1 DEF TableReadable, ReadSucceeds
  <2>4. n_credentials = 0 \/ n_credentials = Len(table)
    BY DEF TableReadable, ReadSucceeds
  <2>5. CASE call.operation = "add"
    <3>1. number = n_credentials - 1 /\ n_credentials # 0 /\ NewDescriptor \in Entries
      BY <1>1, <1>3, <2>5 DEF NumberInv, CoreInv, CallOK, NewDescriptor
    <3>2. n_credentials = 1 /\ number = 0
      BY <2>2, <2>3, <2>4, <3>1
    <3>3. Entries' = {}
      BY <1>1, <3>2, NothingRead
    <3>4. \A e \in Entries : e = table[1]
      BY <3>2 DEF Entries
    <3>5. \A e \in Entries : e = NewDescriptor
      BY <3>1, <3>4
    <3>6. NewDescriptor.key = call.key
      BY DEF NewDescriptor
    <3>7. \A e \in Entries : e.key # key
      BY <3>5, <3>6
    <3> QED BY <3>3, <3>7, OtherView
  <2>6. CASE call.operation # "add"
    <3>1. number = n_credentials + 1 /\ call.operation = "delete"
      BY <1>1, <1>3, <2>6 DEF NumberInv, CoreInv, CallOK, Order
    <3>2. n_credentials = 0
      BY <2>2, <2>3, <2>4, <3>1
    <3>3. \A e \in Entries' : e.key = call.key
      BY <1>1, <1>3, <2>1, <3>1, <3>2 DEF LastInv
    <3>4. Entries = {}
      <4>1. \A i \in 1 .. n_credentials : FALSE
        BY <3>2
      <4> QED BY <4>1 DEF Entries
    <3> QED BY <3>3, <3>4, OtherView
  <2> QED BY <2>5, <2>6
<1> QED BY <1>2, <1>3

(***************************************************************************)
(* An operation on one credential, complete or cut off at any write, does  *)
(* not change what a reader gets for another: no entry is lost or doubled  *)
(* by the moves inside the table and no object is shared.                  *)
(***************************************************************************)
THEOREM OthersStay == Spec => KeepsOthers
<1>1. CoreInv /\ NumberInv /\ LastInv /\ [Next]_vars => [OthersKept]_vars
  <2> SUFFICES ASSUME CoreInv, NumberInv, LastInv, Next PROVE OthersKept
    OBVIOUS
  <2>1. CASE UNCHANGED <<n_credentials, table, metadata, data>>
    BY <2>1, SameView DEF OthersKept
  <2>2. CASE Commands
    <3>1. CASE Opened \/ Deleting
      BY <2>1, <3>1 DEF Opened, Deleting
    <3>2. CASE Cleared
      BY <3>2 DEF Cleared, OthersKept
    <3> QED BY <2>2, <3>1, <3>2, CommandKinds
  <2>3. CASE WriteNumber
    <3>1. CASE spoiled' # {}
      BY <3>1 DEF OthersKept
    <3>2. CASE spoiled' = {}
      BY <2>1, <2>3, <3>2 DEF WriteNumber
    <3> QED BY <3>1, <3>2
  <2>4. CASE DeleteTarget \/ NextUser
    BY <2>1, <2>4 DEF DeleteTarget, delete_credential, NextUser, ram, files
  <2>5. CASE AddDefaultPin
    BY <2>1, <2>5 DEF AddDefaultPin, add_credential, ram, files
  <2>6. CASE ResetWrites
    BY <2>1, <2>6 DEF ResetWrites
  <2> QED BY <2>2, <2>3, <2>4, <2>5, <2>6, ObjectKeepsOthers, TableKeepsOthers, PowerKeepsOthers
          DEF Next
<1>2. KeepsOthers <=> [][OthersKept]_vars
  BY DEF KeepsOthers, OthersKept
<1> QED BY <1>1, <1>2, CoreAlways, NumberAlways, LastAlways, PTL DEF Spec
-------------------------------------------------------------------------------
(* No two credentials of a type have the same code *)

LEMMA FaultCount ==
  ASSUME CoreInv, Fault \/ NoFault, faults' <= 1
  PROVE  /\ faults \in Nat /\ faults' \in Nat /\ faults <= 1
         /\ faults' = 0 => faults = 0
         /\ Fault => faults = 0 /\ faults' = 1
         /\ NoFault => faults' = faults
<1>1. faults \in Nat
  BY CoreTypes, CredentialAssumption
<1> QED BY <1>1 DEF Fault, NoFault

\* A fault can hide data, never reveal some.
LEMMA KnownFades ==
  ASSUME CoreInv, Fault \/ NoFault, faults' <= 1, NEW e, NEW d, d.object = e.object,
         data'[e.object] = data[e.object],
         metadata'[e.object].length = metadata[e.object].length \/ faults' = 0
  PROVE  Known(e)' \in {Known(d), NoCode}
<1>1. faults \in Nat /\ faults' \in Nat /\ (faults' = 0 => faults = 0)
      /\ (faults # 0 => faults' # 0)
  BY FaultCount DEF Fault, NoFault
<1>2. CASE faults' = 0
  BY <1>1, <1>2 DEF Known
<1>3. CASE faults' # 0
  BY <1>1, <1>3 DEF Known, Readable
<1> QED BY <1>2, <1>3

\* Steps after which every code was there before.
LEMMA UniqueFollows ==
  ASSUME UniqueInv, spoiled = {}, faults <= 1, admin' \in {admin, NoCode},
         \A e \in Remaining' : \E d \in Remaining :
           d.key = e.key /\ (~Exempt(e)' => ~Exempt(d) /\ Known(e)' \in {Known(d), NoCode}),
         pc' \in Writing /\ call'.operation \in {"add", "modify"} =>
           /\ call'.code # NoCode /\ OnlyKnown(call'.key, call'.code)
           /\ NotAdmin(call'.key, call'.code),
         pc' = "add default" => Remaining' = {},
         faults' = 0 /\ pc' = "data" => call'.ok,
         faults' = 0 => \A o \in Offsets : <<o, "data">> \in torn' =>
                          pc' = "data" /\ o = call'.object
  PROVE  UniqueInv'
<1>1. ASSUME NEW e \in Remaining', ~Exempt(e)', Known(e)' # NoCode
      PROVE  /\ \A f \in Remaining' :
                  f.key # e.key /\ Type(f.key) = Type(e.key) /\ ~Exempt(f)' => Known(f)' # Known(e)'
             /\ Type(e.key) = "PIN" /\ Known(e)' = admin' => e.key = 1 /\ admin' = DefaultCode
  <2>1. PICK d \in Remaining : d.key = e.key /\ ~Exempt(d) /\ Known(e)' = Known(d)
    BY <1>1
  <2>2. OnlyKnown(d.key, Known(d)) /\ NotAdmin(d.key, Known(d))
    BY <1>1, <2>1 DEF UniqueInv
  <2>3. ASSUME NEW f \in Remaining', f.key # e.key, Type(f.key) = Type(e.key), ~Exempt(f)'
        PROVE  Known(f)' # Known(e)'
    <3>1. PICK g \in Remaining : /\ g.key = f.key /\ ~Exempt(g)
                                 /\ Known(f)' \in {Known(g), NoCode}
      BY <2>3
    <3>2. Known(g) # Known(d)
      BY <2>1, <2>2, <2>3, <3>1 DEF OnlyKnown
    <3> QED BY <1>1, <2>1, <3>1, <3>2
  <2>4. Type(e.key) = "PIN" /\ Known(e)' = admin' => e.key = 1 /\ admin' = DefaultCode
    BY <1>1, <2>1, <2>2 DEF NotAdmin
  <2> QED BY <2>3, <2>4
<1>2. ASSUME pc' \in Writing, call'.operation \in {"add", "modify"}
      PROVE  /\ \A f \in Remaining' :
                  f.key # call'.key /\ Type(f.key) = Type(call'.key) /\ ~Exempt(f)' =>
                    Known(f)' # call'.code
             /\ Type(call'.key) = "PIN" /\ call'.code = admin' =>
                  call'.key = 1 /\ admin' = DefaultCode
  <2>1. ASSUME NEW f \in Remaining', f.key # call'.key, Type(f.key) = Type(call'.key),
               ~Exempt(f)'
        PROVE  Known(f)' # call'.code
    <3>1. PICK g \in Remaining : /\ g.key = f.key /\ ~Exempt(g)
                                 /\ Known(f)' \in {Known(g), NoCode}
      BY <2>1
    <3>2. Known(g) # call'.code
      BY <1>2, <2>1, <3>1 DEF OnlyKnown
    <3> QED BY <1>2, <3>1, <3>2
  <2> QED BY <1>2, <2>1 DEF NotAdmin
<1> QED BY <1>1, <1>2 DEF UniqueInv, OnlyKnown, NotAdmin, Type

\* Steps that give one credential a code that no other one has.
LEMMA UniqueChanged ==
  ASSUME UniqueInv, spoiled = {}, faults <= 1, admin' = admin,
         NEW key, NEW code, code # NoCode, OnlyKnown(key, code), NotAdmin(key, code),
         \A e \in Remaining' :
           \/ e.key = key /\ Known(e)' \in {code, NoCode}
           \/ /\ e.key # key
              /\ \E d \in Remaining : /\ d.key = e.key /\ ~Exempt(d)
                                      /\ Known(e)' \in {Known(d), NoCode},
         pc' \in Writing => call'.key = key /\ call'.code = code,
         pc' # "add default", pc' # "data",
         faults' = 0 => \A o \in Offsets : <<o, "data">> \notin torn'
  PROVE  UniqueInv'
<1>1. ASSUME NEW f \in Remaining', f.key # key, Type(f.key) = Type(key) PROVE Known(f)' # code
  <2>1. PICK d \in Remaining : /\ d.key = f.key /\ ~Exempt(d)
                               /\ Known(f)' \in {Known(d), NoCode}
    BY <1>1
  <2> QED BY <1>1, <2>1 DEF OnlyKnown
<1>2. ASSUME NEW e \in Remaining', Known(e)' # NoCode
      PROVE  /\ \A f \in Remaining' :
                  f.key # e.key /\ Type(f.key) = Type(e.key) => Known(f)' # Known(e)'
             /\ Type(e.key) = "PIN" /\ Known(e)' = admin => e.key = 1 /\ admin = DefaultCode
  <2>1. CASE e.key = key
    <3>1. Known(e)' = code
      BY <1>2, <2>1
    <3> QED BY <1>1, <2>1, <3>1 DEF NotAdmin
  <2>2. CASE e.key # key
    <3>1. PICK d \in Remaining : d.key = e.key /\ ~Exempt(d) /\ Known(e)' = Known(d)
      BY <1>2, <2>2
    <3>2. OnlyKnown(d.key, Known(d)) /\ NotAdmin(d.key, Known(d))
      BY <1>2, <3>1 DEF UniqueInv
    <3>3. ASSUME NEW f \in Remaining', f.key # e.key, Type(f.key) = Type(e.key)
          PROVE  Known(f)' # Known(e)'
      <4>1. CASE f.key = key
        <5>1. Known(e)' # code
          BY <1>1, <2>2, <3>3, <4>1
        <5> QED BY <1>2, <4>1, <5>1
      <4>2. CASE f.key # key
        <5>1. PICK g \in Remaining : /\ g.key = f.key /\ ~Exempt(g)
                                     /\ Known(f)' \in {Known(g), NoCode}
          BY <4>2
        <5>2. Known(g) # Known(d)
          BY <3>1, <3>2, <3>3, <5>1 DEF OnlyKnown
        <5> QED BY <1>2, <3>1, <5>1, <5>2
      <4> QED BY <4>1, <4>2
    <3>4. Type(e.key) = "PIN" /\ Known(e)' = admin => e.key = 1 /\ admin = DefaultCode
      BY <3>1, <3>2 DEF NotAdmin
    <3> QED BY <3>3, <3>4
  <2> QED BY <2>1, <2>2
<1>3. pc' \in Writing => call'.key = key /\ call'.code = code
  OBVIOUS
<1> QED BY <1>1, <1>2, <1>3 DEF UniqueInv, OnlyKnown, NotAdmin, Type

LEMMA ZeroNotOne == 0 # 1
OBVIOUS

LEMMA NotExempt ==
  ASSUME NEW e, pc = "data" => faults = 0
  PROVE  ~Exempt(e)
BY DEF Exempt

LEMMA NothingTorn ==
  ASSUME UniqueInv, spoiled = {}, faults = 0, pc # "data"
  PROVE  \A o \in Offsets : <<o, "data">> \notin torn
<1>1. spoiled = {} /\ faults <= 1 /\ faults = 0
  OBVIOUS
<1>2. \A o \in Offsets : <<o, "data">> \in torn => pc = "data" /\ o = call.object
  BY <1>1, Zenon DEF UniqueInv
<1> QED BY <1>2

\* Steps that write no object.
LEMMA UniqueQuiet ==
  ASSUME CoreInv, UniqueInv, spoiled = {}, faults' <= 1, Fault \/ NoFault,
         UNCHANGED <<metadata, data>>, torn' \subseteq torn, admin' \in {admin, NoCode},
         \A e \in Remaining' : \E d \in Remaining : d.key = e.key /\ d.object = e.object,
         pc # "data" \/ Fault, pc' # "data",
         pc' \in Writing /\ call'.operation \in {"add", "modify"} =>
           /\ call'.code # NoCode /\ OnlyKnown(call'.key, call'.code)
           /\ NotAdmin(call'.key, call'.code),
         pc' = "add default" => Remaining' = {}
  PROVE  UniqueInv'
<1>1. /\ faults <= 1 /\ (faults' = 0 => faults = 0)
      /\ pc = "data" => faults = 0 /\ faults' = 1
  BY FaultCount, Zenon
<1>2. ASSUME NEW e \in Remaining'
      PROVE  \E d \in Remaining :
               d.key = e.key /\ ~Exempt(d) /\ Known(e)' \in {Known(d), NoCode}
  <2>1. PICK d \in Remaining : d.key = e.key /\ d.object = e.object
    OBVIOUS
  <2>2. ~Exempt(d)
    BY <1>1, NotExempt, Zenon
  <2>3. Known(e)' \in {Known(d), NoCode}
    BY <2>1, KnownFades
  <2> QED BY <2>1, <2>2, <2>3
<1>3. faults' = 0 => \A o \in Offsets : <<o, "data">> \notin torn'
  <2> SUFFICES ASSUME faults' = 0 PROVE \A o \in Offsets : <<o, "data">> \notin torn'
    OBVIOUS
  <2>1. faults = 0 /\ pc # "data" /\ torn' \subseteq torn
    BY <1>1, ZeroNotOne, Zenon
  <2>2. \A o \in Offsets : <<o, "data">> \notin torn
    BY <2>1, NothingTorn, Zenon
  <2> QED BY <2>1, <2>2, Zenon
<1> QED BY <1>1, <1>2, <1>3, UniqueFollows

\* The calls that are not about to give a credential a code.
LEMMA NoNewCode ==
  ASSUME pc' \notin Writing \/ call'.operation \in {"delete", "move"}
  PROVE  pc' \in Writing /\ call'.operation \in {"add", "modify"} =>
           /\ call'.code # NoCode /\ OnlyKnown(call'.key, call'.code)
           /\ NotAdmin(call'.key, call'.code)
OBVIOUS

\* The code of the operation under way was validated when it began.
LEMMA CodeOfCall ==
  ASSUME CoreInv, UniqueInv, spoiled = {}, faults <= 1, pc \in Writing,
         call.operation \in {"add", "modify"}
  PROVE  /\ call.code \in Codes /\ call.code # NoCode /\ call.key \in Keys
         /\ OnlyKnown(call.key, call.code) /\ NotAdmin(call.key, call.code)
<1>1. Arguments(call)
  BY DEF CoreInv, CallOK
<1>2. call.code \in Codes /\ call.key \in Keys
  BY <1>1 DEF Arguments
<1>3. OnlyKnown(call.key, call.code) /\ NotAdmin(call.key, call.code)
  BY DEF UniqueInv
<1> QED BY <1>2, <1>3, CredentialAssumption

LEMMA SameObject ==
  ASSUME Remaining' \subseteq Remaining
  PROVE  \A e \in Remaining' : \E d \in Remaining : d.key = e.key /\ d.object = e.object
OBVIOUS

LEMMA MetadataUnique ==
  ASSUME CoreInv, NumberInv, UniqueInv, WriteMetadata, spoiled' = {}, faults' <= 1
  PROVE  UniqueInv'
<1> DEFINE o == call.object
<1>1. /\ pc = "metadata" /\ loop = NoLoop
      /\ UNCHANGED <<n_credentials, number, table, data, admin, spoiled>>
      /\ Fields(call) /\ Fresh(call) /\ call.operation \in {"add", "modify", "move"}
      /\ o \in Offsets
  BY WriteMetadataCall
<1>2. PICK ok \in BOOLEAN :
       /\ IF ok THEN NoFault ELSE Fault
       /\ metadata' = IF ~ok THEN metadata
                      ELSE IF call.operation = "move" THEN [metadata EXCEPT ![o].user = call.user]
                      ELSE [metadata EXCEPT ![o] = [user |-> call.user,
                                                    length |-> CodeLength[call.code]]]
       /\ torn' = torn \cup {<<o, IF call.operation = "move" THEN "user" ELSE "data">>}
       /\ IF call.operation = "add" /\ ~ok THEN Return("none")
          ELSE /\ pc' = IF call.operation = "move" THEN "table" ELSE "data"
               /\ call' = Outcome(call, ok)
  BY DEF WriteMetadata, Outcome
<1>3. Fault \/ NoFault
  BY <1>2
<1>4. /\ faults \in Nat /\ faults' \in Nat /\ faults <= 1 /\ (faults' = 0 => faults = 0 /\ ok)
  BY <1>2, <1>3, FaultCount, ZeroNotOne
<1>5. Remaining = Entries /\ Remaining' \subseteq Entries
  <2>1. Remaining = Entries
    BY <1>1, NumberIsCount
  <2> QED BY <1>1, <2>1, SameRemaining
<1>6. metadata \in [Offsets -> [user : Users, length : Nat \ {0}] \cup {NoMetadata}]
  BY CoreFiles DEF FilesOK
<1>7. metadata[o] \in [user : Users, length : Nat \ {0}] \/ metadata[o] = NoMetadata
  BY <1>1, <1>6
<1>8. \A e : ~Exempt(e)
  BY <1>1, NotExempt
<1>9. ~(call.operation = "add" /\ ~ok) =>
        /\ call'.operation = call.operation /\ call'.object = o /\ call'.ok = ok
        /\ call'.key = call.key
        /\ call.operation # "move" => call'.code = call.code
        /\ pc' = IF call.operation = "move" THEN "table" ELSE "data"
  BY <1>1, <1>2, Recorded
<1>10. call.operation = "add" /\ ~ok => pc' = "idle"
  BY <1>1, <1>2 DEF Return
<1>11. ASSUME NEW e \in Entries
       PROVE  Exempt(e)' \/ Known(e)' \in {Known(e), NoCode}
  <2>1. e.object \in Offsets
    BY EntryPlace, DescriptorType DEF CoreInv
  <2>2. CASE e.object # o
    <3>1. metadata'[e.object] = metadata[e.object]
      BY <1>1, <1>2, <1>6, <2>1, <2>2
    <3> QED BY <1>1, <1>3, <3>1, KnownFades
  <2>3. CASE e.object = o /\ faults' = 0
    BY <1>1, <1>3, <2>3, KnownFades
  <2>4. CASE e.object = o /\ call.operation = "move"
    <3>1. metadata'[o].length = metadata[o].length
      BY <1>1, <1>2, <1>6, <1>7, <2>4 DEF NoMetadata
    <3> QED BY <1>1, <1>3, <2>4, <3>1, KnownFades
  <2>5. CASE e.object = o /\ faults' # 0 /\ call.operation = "modify"
    <3>1. e = Entry(call.key) /\ Stored(call.key)
      BY <1>1, <2>5, ObjectOfOne DEF Fresh
    <3>2. e.key = call.key
      BY <3>1, StoredEntry
    <3>3. faults' = 1
      BY <1>4, <2>5
    <3>4. pc' = "data" /\ call'.key = call.key
      BY <1>9, <2>5
    <3> QED BY <3>2, <3>3, <3>4 DEF Exempt
  <2> QED BY <1>1, <2>2, <2>3, <2>4, <2>5, ObjectOfOne
<1>12. \A e \in Remaining' : \E d \in Remaining :
         d.key = e.key /\ (~Exempt(e)' => ~Exempt(d) /\ Known(e)' \in {Known(d), NoCode})
  BY <1>5, <1>8, <1>11
<1>13. pc' \in Writing /\ call'.operation \in {"add", "modify"} =>
           /\ call'.code # NoCode /\ OnlyKnown(call'.key, call'.code)
           /\ NotAdmin(call'.key, call'.code)
  <2> SUFFICES ASSUME pc' \in Writing, call'.operation \in {"add", "modify"}
               PROVE  /\ call'.code # NoCode /\ OnlyKnown(call'.key, call'.code)
                      /\ NotAdmin(call'.key, call'.code)
    OBVIOUS
  <2>1. ~(call.operation = "add" /\ ~ok)
    BY <1>10 DEF Writing
  <2>2. call.operation \in {"add", "modify"} /\ call'.code = call.code /\ call'.key = call.key
    BY <1>9, <2>1
  <2>3. pc \in Writing
    BY <1>1 DEF Writing
  <2>4. call.code # NoCode /\ OnlyKnown(call.key, call.code) /\ NotAdmin(call.key, call.code)
    BY <1>1, <1>4, <2>2, <2>3, CodeOfCall
  <2> QED BY <2>2, <2>4
<1>14. faults' = 0 => \A p \in Offsets : <<p, "data">> \in torn' =>
                        pc' = "data" /\ p = call'.object
  <2> SUFFICES ASSUME faults' = 0, NEW p \in Offsets, <<p, "data">> \in torn'
               PROVE  pc' = "data" /\ p = call'.object
    OBVIOUS
  <2>1. <<p, "data">> \notin torn
    BY <1>1, <1>4, NothingTorn
  <2>2. p = o /\ call.operation # "move"
    BY <1>2, <2>1
  <2> QED BY <1>4, <1>9, <2>2
<1>15. (faults' = 0 /\ pc' = "data" => call'.ok) /\ pc' # "add default"
  BY <1>4, <1>9, <1>10
<1> QED BY <1>1, <1>4, <1>12, <1>13, <1>14, <1>15, UniqueFollows

LEMMA DataUnique ==
  ASSUME CoreInv, NumberInv, UniqueInv, WriteData, spoiled' = {}, faults' <= 1
  PROVE  UniqueInv'
<1> DEFINE o == call.object
<1>1. /\ pc = "data" /\ loop = NoLoop
      /\ UNCHANGED <<n_credentials, number, table, metadata, admin, spoiled>>
      /\ Fresh(call) /\ call.operation \in {"add", "modify"} /\ call.ok \in BOOLEAN
      /\ o \in Offsets /\ call.code \in Codes
  BY WriteDataCall
<1>2. Remaining = Entries /\ Remaining' \subseteq Entries
  <2>1. Remaining = Entries
    BY <1>1, NumberIsCount
  <2> QED BY <1>1, <2>1, SameRemaining
<1>3. CASE Fault /\ Return("none") /\ UNCHANGED <<data, torn>>
  <2>1. pc' = "idle"
    BY <1>1, <1>3 DEF Return
  <2>2. \A e \in Remaining' : \E d \in Remaining : d.key = e.key /\ d.object = e.object
    BY <1>2, SameObject
  <2> QED BY <1>1, <1>3, <2>1, <2>2, NoNewCode, UniqueQuiet DEF Writing
<1>4. CASE /\ NoFault
           /\ data' = [data EXCEPT ![o] = call.code]
           /\ torn' = IF call.ok THEN torn \ {<<o, "user">>, <<o, "data">>} ELSE torn
           /\ IF call.operation = "add" THEN pc' = "table" /\ UNCHANGED <<call, result>>
              ELSE Return(IF call.ok THEN "SUCCESS" ELSE "none")
  <2>1. faults' = faults /\ faults <= 1 /\ faults \in Nat
    BY <1>4, FaultCount
  <2>2. pc \in Writing
    BY <1>1 DEF Writing
  <2>3. /\ call.code # NoCode /\ call.key \in Keys
        /\ OnlyKnown(call.key, call.code) /\ NotAdmin(call.key, call.code)
    BY <1>1, <2>1, <2>2, CodeOfCall
  <2>4. data \in [Offsets -> Codes \cup {NoCode}]
    BY CoreFiles DEF FilesOK
  <2>5. ASSUME NEW e \in Entries, e.key # call.key
        PROVE  ~Exempt(e) /\ Known(e)' \in {Known(e), NoCode}
    <3>1. e.object \in Offsets
      BY EntryPlace, DescriptorType DEF CoreInv
    <3>2. e.object # o
      <4> SUFFICES ASSUME e.object = o PROVE FALSE
        OBVIOUS
      <4>1. e = Entry(call.key) /\ Stored(call.key)
        BY <1>1, ObjectOfOne DEF Fresh
      <4> QED BY <2>5, <4>1, StoredEntry
    <3>3. data'[e.object] = data[e.object]
      BY <1>1, <1>4, <2>4, <3>1, <3>2
    <3>4. ~Exempt(e)
      BY <2>5 DEF Exempt
    <3> QED BY <1>1, <1>4, <3>3, <3>4, KnownFades
  <2>6. ASSUME NEW e \in Entries, e.key = call.key
        PROVE  Known(e)' \in {call.code, NoCode}
    <3>1. call.operation = "modify" /\ e = Entry(call.key)
      BY <1>1, <2>6, EntryUnique DEF Fresh, Stored, CoreInv
    <3>2. e.object = o
      BY <1>1, <3>1 DEF Fresh
    <3>3. data'[e.object] = call.code
      BY <1>1, <1>4, <2>4, <3>2
    <3> QED BY <3>3 DEF Known
  <2>7. faults' = 0 => \A p \in Offsets : <<p, "data">> \notin torn'
    <3> SUFFICES ASSUME faults' = 0, NEW p \in Offsets, <<p, "data">> \in torn' PROVE FALSE
      OBVIOUS
    <3>1. faults = 0 /\ call.ok
      BY <1>1, <2>1 DEF UniqueInv
    <3>2. <<p, "data">> \in torn /\ p # o
      BY <1>4, <3>1
    <3> QED BY <1>1, <2>1, <3>1, <3>2 DEF UniqueInv
  <2>8. pc' # "add default" /\ pc' # "data"
        /\ (pc' \in Writing => call'.key = call.key /\ call'.code = call.code)
    BY <1>1, <1>4 DEF Return, Writing
  <2>9. \A e \in Remaining' :
           \/ e.key = call.key /\ Known(e)' \in {call.code, NoCode}
           \/ /\ e.key # call.key
              /\ \E d \in Remaining : /\ d.key = e.key /\ ~Exempt(d)
                                      /\ Known(e)' \in {Known(d), NoCode}
    BY <1>2, <2>5, <2>6
  <2> QED BY <1>1, <2>1, <2>3, <2>7, <2>8, <2>9, UniqueChanged
<1> QED BY <1>3, <1>4 DEF WriteData

LEMMA TableUnique ==
  ASSUME CoreInv, NumberInv, UniqueInv, WriteTable, spoiled' = {}, faults' <= 1
  PROVE  UniqueInv'
<1>1. /\ pc = "table" /\ UNCHANGED <<number, metadata, data, admin>>
      /\ TableStep \/ TableFault
      /\ call.operation \in {"add", "delete", "move"} /\ Fresh(call) /\ Arguments(call)
  BY WriteTableCall
<1>2. CASE TableFault
  <2>1. /\ spoiled = {} /\ UNCHANGED <<n_credentials, table, torn>> /\ pc' \in {"idle", "loop"}
        /\ Fault
    BY <1>2 DEF TableFault, Return
  <2>2. Remaining' \subseteq Remaining
    BY <1>1, <2>1, SameRemaining
  <2>3. pc' \notin Writing /\ pc' # "data" /\ pc' # "add default"
    BY <2>1 DEF Writing
  <2> QED BY <1>1, <2>1, <2>2, <2>3, SameObject, NoNewCode, UniqueQuiet
<1>3. CASE TableStep
  <2>1. /\ spoiled = {} /\ pc' \in {"number", "idle", "loop"} /\ NoFault
        /\ torn' \subseteq torn
        /\ call.operation # "move" => pc' = "number" /\ call' = call
        /\ call.operation = "move" => pc' \in {"idle", "loop"}
    BY <1>3 DEF TableStep, Return
  <2>2. pc' # "data" /\ pc' # "add default"
    BY <2>1
  <2>3. faults' = faults /\ faults <= 1
    BY <2>1, FaultCount
  <2>4. CASE call.operation = "add"
    <3>0. PICK new : new = NewDescriptor
      OBVIOUS
    <3>1. Remaining' \subseteq Remaining \cup {new}
      BY <1>3, <2>1, <2>4, <3>0, TableRemaining
    <3>2. data[call.object] = call.code
      BY <1>1, <2>4 DEF CoreInv, CallOK
    <3>3. /\ call.code # NoCode
          /\ OnlyKnown(call.key, call.code) /\ NotAdmin(call.key, call.code)
      BY <1>1, <2>1, <2>3, <2>4, CodeOfCall DEF Writing
    <3>4. new.key = call.key /\ new.object = call.object
      BY <3>0 DEF NewDescriptor
    <3>5. Known(new)' \in {call.code, NoCode}
      BY <1>1, <3>2, <3>4 DEF Known
    <3>6. \A e \in Remaining : e.key # call.key
      <4>1. Remaining = Entries
        BY <1>1, <2>1, NumberIsCount
      <4> QED BY <1>1, <2>4, <4>1 DEF Fresh, Stored
    <3>7. ASSUME NEW e \in Remaining PROVE ~Exempt(e) /\ Known(e)' \in {Known(e), NoCode}
      BY <1>1, <2>1, NotExempt, KnownFades
    <3>8. \A e \in Remaining' :
           \/ e.key = call.key /\ Known(e)' \in {call.code, NoCode}
           \/ /\ e.key # call.key
              /\ \E d \in Remaining : /\ d.key = e.key /\ ~Exempt(d)
                                      /\ Known(e)' \in {Known(d), NoCode}
      BY <3>1, <3>4, <3>5, <3>6, <3>7
    <3>9. faults' = 0 => \A o \in Offsets : <<o, "data">> \notin torn'
      BY <1>1, <2>1, <2>3, NothingTorn
    <3> QED BY <1>1, <2>1, <2>2, <2>3, <2>4, <3>3, <3>8, <3>9, UniqueChanged
  <2>5. CASE call.operation = "delete"
    <3>1. Remaining' \subseteq Remaining
      BY <1>3, <2>1, <2>5, TableRemaining
    <3>2. call'.operation \in {"delete", "move"}
      BY <2>1, <2>5
    <3> QED BY <1>1, <2>1, <2>2, <3>1, <3>2, SameObject, NoNewCode, UniqueQuiet
  <2>6. CASE call.operation = "move"
    <3> DEFINE old == Entry(call.key)
    <3>0. PICK moved : moved = [old EXCEPT !.user = call.user]
      OBVIOUS
    <3>1. Remaining' \subseteq Remaining \cup {moved}
      BY <1>3, <3>0, <2>1, <2>6, TableRemaining
    <3>2. old \in Entries /\ old \in Descriptors /\ Entries = Remaining
      BY <1>1, <2>1, <2>6, EntryObject, NumberIsCount DEF Fresh, CoreInv
    <3>3. moved.object = old.object /\ moved.key = old.key
      BY <3>0, <3>2 DEF Descriptors
    <3>4. \A e \in Remaining' : \E d \in Remaining : d.key = e.key /\ d.object = e.object
      BY <3>1, <3>2, <3>3
    <3>5. pc' \notin Writing
      BY <2>1, <2>6 DEF Writing
    <3> QED BY <1>1, <2>1, <2>2, <3>4, <3>5, NoNewCode, UniqueQuiet
  <2> QED BY <1>1, <2>4, <2>5, <2>6
<1> QED BY <1>1, <1>2, <1>3

\* Steps that leave the objects alone and can only lose entries.
LEMMA UniqueLost ==
  ASSUME CoreInv, UniqueInv, spoiled = {}, faults' <= 1, Fault \/ NoFault,
         UNCHANGED <<metadata, data, torn>>, admin' \in {admin, NoCode},
         Remaining' \subseteq Remaining, pc # "data" \/ Fault,
         pc' \notin Writing \/ (pc' = "table" /\ call'.operation = "delete"),
         pc' # "add default"
  PROVE  UniqueInv'
<1>1. pc' # "data"
  BY DEF Writing
<1>2. pc' \notin Writing \/ call'.operation \in {"delete", "move"}
  OBVIOUS
<1> QED BY <1>1, <1>2, SameObject, NoNewCode, UniqueQuiet

LEMMA OtherUnique ==
  ASSUME CoreInv, NumberInv, UniqueInv, spoiled' = {}, faults' <= 1,
         WriteNumber \/ DeleteTarget \/ NextUser \/ ResetWrites \/ PowerLoss
  PROVE  UniqueInv'
<1>1. CASE WriteNumber
  <2>1. /\ pc = "number" /\ spoiled = {}
        /\ UNCHANGED <<n_credentials, table, metadata, data, torn, admin>>
        /\ number' = n_credentials /\ pc' \in {"idle", "loop"} /\ NoFault
    BY <1>1 DEF WriteNumber, Return
  <2>2. Entries' = Entries /\ Visible(number)' = Entries
    BY <2>1, SameTable DEF Visible, Entries, TableReadable
  <2>3. Remaining' \subseteq Remaining
    BY <2>1, <2>2 DEF Remaining
  <2> QED BY <2>1, <2>3, UniqueLost DEF Writing
<1>2. CASE DeleteTarget
  <2>1. /\ pc = "loop" /\ delete_credential(loop.target)
        /\ UNCHANGED <<n_credentials, number, table, metadata, data, admin, torn, spoiled, faults>>
    BY <1>2 DEF DeleteTarget, delete_credential, ram, files, history
  <2>2. pc' \in {"idle", "loop"} \/ (pc' = "table" /\ call'.operation = "delete")
    BY <2>1 DEF delete_credential, Return, Begin
  <2>3. Remaining' \subseteq Remaining
    BY <2>1, SameRemaining
  <2> QED BY <2>1, <2>2, <2>3, UniqueLost DEF Writing, NoFault
<1>3. CASE NextUser
  <2>1. /\ pc = "loop" /\ pc' \in {"idle", "loop"} /\ (Fault \/ NoFault)
        /\ UNCHANGED <<n_credentials, number, table, metadata, data, admin, torn, spoiled>>
    BY <1>3 DEF NextUser, ram, files
  <2>2. Remaining' \subseteq Remaining
    BY <2>1, SameRemaining
  <2> QED BY <2>1, <2>2, UniqueLost DEF Writing
<1>4. CASE ResetWrites
  <2>1. /\ pc \in Resetting /\ UNCHANGED <<n_credentials, table, metadata, data, torn>>
        /\ spoiled = {} /\ pc' \in {"reset number", "reset admin", "idle"}
        /\ (Fault \/ NoFault) /\ admin' \in {admin, NoCode}
    BY <1>4 DEF ResetWrites, Resetting
  <2>2. n_credentials' = 0
    BY <2>1 DEF NumberInv
  <2>3. pc' # "reset number" => number' = 0
    <3>1. pc = "reset admin" => number = n_credentials
      BY <2>1 DEF NumberInv
    <3> QED BY <1>4, <2>1, <2>2, <3>1 DEF ResetWrites
  <2>4. Remaining' = {}
    BY <2>2, <2>3, NothingRead DEF Remaining
  <2>5. pc # "data"
    BY <2>1 DEF Resetting
  <2> QED BY <2>1, <2>4, <2>5, UniqueLost DEF Writing
<1>5. CASE PowerLoss
  <2>1. /\ pc # "reset number" /\ spoiled = {} /\ n_credentials' = number /\ Fault
        /\ pc' = "idle" /\ UNCHANGED <<number, table, metadata, data, admin, torn>>
    BY <1>5 DEF PowerLoss, files
  <2>2. Entries' = Visible(number) /\ Visible(number)' = Visible(number)
    BY <2>1 DEF Visible, Entries, TableReadable
  <2>3. Remaining' \subseteq Remaining
    BY <2>1, <2>2 DEF Remaining
  <2> QED BY <2>1, <2>3, UniqueLost DEF Writing
<1> QED BY <1>1, <1>2, <1>3, <1>4, <1>5

-------------------------------------------------------------------------------
(* What find_existing_credential finds *)

\* Between operations the data that count are those that are read.
LEMMA IdleReads ==
  ASSUME CoreInv, NumberInv, IntactInv, UniqueInv, pc = "idle", spoiled = {}, faults <= 1
  PROVE  /\ Remaining = Entries
         /\ \A e \in Entries : get_credential(e.key) = Known(e) /\ ~Exempt(e)
<1>1. Remaining = Entries
  BY NumberIsCount
<1>2. ASSUME NEW e \in Entries PROVE get_credential(e.key) = Known(e) /\ ~Exempt(e)
  <2>1. Stored(e.key) /\ Entry(e.key) = e
    BY EntryUnique DEF CoreInv
  <2>2. get_credential(e.key) = IF Readable(e) THEN data[e.object] ELSE NoCode
    BY <2>1 DEF get_credential, Readable
  <2>3. e.object \in Offsets
    BY EntryPlace, DescriptorType DEF CoreInv
  <2>4. faults = 0 => Readable(e)
    <3> SUFFICES ASSUME faults = 0 PROVE Readable(e)
      OBVIOUS
    <3>1. <<e.object, "data">> \notin torn
      BY <2>3, NothingTorn
    <3> QED BY <1>1, <3>1 DEF IntactInv, Intact
  <2> QED BY <2>2, <2>4 DEF Known, Exempt
<1> QED BY <1>1, <1>2

LEMMA SearchFinds ==
  ASSUME CoreInv, NEW existing, existing \subseteq Users, NEW type, NEW code,
         NEW f \in Entries, f.user \in existing, Type(f.key) = type,
         get_credential(f.key) = code
  PROVE  \E e \in Entries : /\ e.key = find_existing_credential(existing, type, code)
                            /\ Type(e.key) = type /\ get_credential(e.key) = code
<1> DEFINE matches(u) == {e.key : e \in {e \in Entries : /\ e.user = u /\ Type(e.key) = type
                                                         /\ get_credential(e.key) = code}}
           owners == {u \in existing : matches(u) # {}}
           first == First(owners)
<1>1. f.key \in matches(f.user)
  OBVIOUS
<1>2. owners # {} /\ owners \in SUBSET Nat
  BY <1>1, CredentialAssumption
<1>3. first \in owners
  BY <1>2, FirstIsLeast
<1>4. matches(first) # {} /\ matches(first) \in SUBSET Nat
  <2>1. \A e \in Entries : e.key \in Nat
    BY EntryPlace, DescriptorType DEF CoreInv
  <2> QED BY <1>3, <2>1
<1>5. First(matches(first)) \in matches(first)
  BY <1>4, FirstIsLeast
<1>6. find_existing_credential(existing, type, code) = First(matches(first))
  BY <1>2 DEF find_existing_credential
<1> QED BY <1>5, <1>6

\* Data that pass the search are in no other credential of the type.
LEMMA SearchedCode ==
  ASSUME CoreInv, NumberInv, OwnersInv, IntactInv, UniqueInv, pc = "idle", spoiled = {},
         faults <= 1, NEW existing, users \subseteq existing, existing \subseteq Users,
         NEW key \in Keys, NEW code \in Codes,
         find_existing_credential(existing, Type(key), code) \in {0, key}
  PROVE  OnlyKnown(key, code)
<1> SUFFICES ASSUME NEW f \in Remaining, f.key # key, Type(f.key) = Type(key), Known(f) = code
             PROVE  FALSE
  BY DEF OnlyKnown
<1>1. /\ f \in Entries /\ Remaining = Entries
      /\ \A e \in Entries : get_credential(e.key) = Known(e) /\ ~Exempt(e)
  BY IdleReads
<1>2. f.user \in existing
  BY DEF OwnersInv
<1>3. PICK e \in Entries : /\ e.key = find_existing_credential(existing, Type(key), code)
                           /\ Type(e.key) = Type(key) /\ get_credential(e.key) = code
  BY <1>1, <1>2, SearchFinds
<1>4. e.key \in Keys /\ 0 \notin Keys
  BY EntryPlace, DescriptorType DEF CoreInv, Keys
<1>5. e.key = key
  BY <1>3, <1>4
<1>6. Known(e) = code /\ ~Exempt(e) /\ code # NoCode
  BY <1>1, <1>3, CredentialAssumption
<1>7. OnlyKnown(key, code)
  BY <1>1, <1>5, <1>6 DEF UniqueInv
<1> QED BY <1>1, <1>7 DEF OnlyKnown

-------------------------------------------------------------------------------
(* The commands that set a code *)

LEMMA ValidCode ==
  ASSUME CoreInv, NumberInv, OwnersInv, IntactInv, UniqueInv, pc = "idle", spoiled = {},
         faults <= 1, NEW existing, users \subseteq existing, existing \subseteq Users,
         NEW key \in Keys, NEW code \in Codes,
         validate_new_credential_data(existing, key, code)
  PROVE  code # NoCode /\ OnlyKnown(key, code) /\ NotAdmin(key, code)
<1>1. /\ Type(key) = "PIN" => code # admin
      /\ find_existing_credential(existing, Type(key), code) \in {0, key}
  BY DEF validate_new_credential_data
<1>2. OnlyKnown(key, code)
  BY <1>1, SearchedCode
<1> QED BY <1>1, <1>2, CredentialAssumption DEF NotAdmin

\* The code that the operation is about to write has been validated.
Validated ==
  pc' \in Writing /\ call'.operation \in {"add", "modify"} =>
    /\ call'.code # NoCode /\ OnlyKnown(call'.key, call'.code)
    /\ NotAdmin(call'.key, call'.code)

LEMMA CommandCode ==
  ASSUME CoreInv, NumberInv, OwnersInv, IntactInv, UniqueInv, Commands, spoiled = {},
         faults <= 1
  PROVE  \/ \E code \in Codes \cup {NoCode} : AdminCodeSet(code)
         \/ /\ NoFault /\ admin' = admin /\ Validated
            /\ pc' = "add default" => users = {}
<1> DEFINE Good == /\ NoFault /\ admin' = admin /\ Validated
                   /\ pc' = "add default" => users = {}
<1>0. users \subseteq Users
  BY CoreTypes
<1>1. ASSUME NEW user \in Users, AddUser(user) PROVE Good
  BY <1>1 DEF AddUser, Start, files, history, NoFault, Validated, Writing
<1>2. ASSUME NEW user \in Users, NEW key \in Keys, NEW code \in Codes,
             CredentialSet(user, key, code)
      PROVE  Good
  <2>1. /\ pc = "idle" /\ UNCHANGED <<admin, faults, loop>>
        /\ validate_new_credential_data(users, key, code)
        /\ add_credential(user, key, code) \/ modify_credential(user, key, code)
    BY <1>2 DEF CredentialSet, Start, files, history
  <2>2. code # NoCode /\ OnlyKnown(key, code) /\ NotAdmin(key, code)
    BY <1>0, <2>1, ValidCode
  <2>3. loop = NoLoop
    BY <2>1, IdleLoop
  <2>4. pc' = "idle" \/ (pc' \in {"metadata", "table"} /\ call'.key = key /\ call'.code = code)
    BY <2>1, <2>3, AddStarts, ModifyStarts DEF CoreInv, Over, Started
  <2> QED BY <2>1, <2>2, <2>4 DEF NoFault, Validated, Writing
<1>3. ASSUME NEW key \in Keys, CredentialDelete(key) PROVE Good
  <2>1. /\ pc = "idle" /\ UNCHANGED <<admin, faults, loop>> /\ delete_credential(key)
    BY <1>3 DEF CredentialDelete, Start, files, history
  <2>2. loop = NoLoop
    BY <2>1, IdleLoop
  <2>3. pc' = "idle" \/ (pc' = "table" /\ call'.operation = "delete")
    BY <2>1, <2>2, DeleteStarts DEF CoreInv, Over
  <2> QED BY <2>1, <2>3 DEF NoFault, Validated, Writing
<1>4. ASSUME NEW key \in Keys, NEW user \in Users, AssociationSet(key, user) PROVE Good
  <2>1. /\ pc = "idle" /\ UNCHANGED <<admin, faults, loop>> /\ move_credential(key, user)
    BY <1>4 DEF AssociationSet, Start, files, history
  <2>2. loop = NoLoop
    BY <2>1, IdleLoop
  <2>3. pc' = "idle" \/ (pc' \in {"metadata", "table"} /\ call'.operation = "move")
    BY <2>1, <2>2, MoveStarts DEF CoreInv, Over, Started
  <2> QED BY <2>1, <2>3 DEF NoFault, Validated, Writing
<1>5. ASSUME NEW key \in 1 .. PinSlots, NEW code \in Codes, UserCodeSet(key, code) PROVE Good
  <2>1. /\ pc = "idle" /\ UNCHANGED <<admin, faults, loop>>
        /\ users \subseteq users' /\ users' \subseteq users \cup {key}
        /\ IF validate_new_credential_data(users', key, code)
           THEN IF Stored(key) THEN modify_credential(metadata[Entry(key).object].user, key, code)
                ELSE add_credential(key, key, code)
           ELSE UNCHANGED <<pc, call>>
    BY <1>5 DEF UserCodeSet, Start, files, history
  <2>2. key \in Keys /\ key \in Users
    BY PinSlot
  <2>3. CASE ~validate_new_credential_data(users', key, code)
    BY <2>1, <2>3 DEF NoFault, Validated, Writing
  <2>4. CASE validate_new_credential_data(users', key, code)
    <3>1. code # NoCode /\ OnlyKnown(key, code) /\ NotAdmin(key, code)
      BY <1>0, <2>1, <2>2, <2>4, ValidCode
    <3>2. loop = NoLoop
      BY <2>1, IdleLoop
    <3>3. pc' = "idle" \/ (pc' \in {"metadata", "table"} /\ call'.key = key /\ call'.code = code)
      BY <2>1, <2>2, <2>4, <3>2, AddStarts, ModifyStarts DEF CoreInv, Over, Started
    <3> QED BY <2>1, <3>1, <3>3 DEF NoFault, Validated, Writing
  <2> QED BY <2>3, <2>4
<1>6. ASSUME NEW sequence, NEW type, NEW drop, Delete(sequence, type, drop) PROVE Good
  BY <1>6 DEF Delete, files, history, NoFault, Validated, Writing
<1>7. CASE AddDefaultUser
  BY <1>7 DEF AddDefaultUser, Start, files, history, NoFault, Validated, Writing
<1>8. CASE FactoryReset
  BY <1>8 DEF FactoryReset, files, history, NoFault, Validated, Writing
<1> QED BY <1>1, <1>2, <1>3, <1>4, <1>5, <1>6, <1>7, <1>8 DEF Commands

LEMMA AdminUnique ==
  ASSUME CoreInv, NumberInv, OwnersInv, IntactInv, UniqueInv, spoiled' = {}, faults' <= 1,
         NEW code \in Codes \cup {NoCode}, AdminCodeSet(code)
  PROVE  UniqueInv'
<1>1. /\ pc = "idle" /\ spoiled = {} /\ (Fault \/ NoFault)
      /\ UNCHANGED <<n_credentials, number, table, metadata, data, users, pc, call, loop, torn>>
  BY DEF AdminCodeSet, ram
<1>2. faults <= 1
  BY <1>1, FaultCount
<1>3. Remaining' \subseteq Remaining
  BY <1>1, SameRemaining
<1>4. CASE admin' \in {admin, NoCode}
  BY <1>1, <1>3, <1>4, UniqueLost DEF Writing
<1>5. CASE admin' \notin {admin, NoCode}
  <2>1. /\ NoFault /\ admin' = code /\ code # NoCode
        /\ find_existing_credential(users, "PIN", code) = 0
    BY <1>5 DEF AdminCodeSet
  <2>2. /\ Remaining = Entries
        /\ \A e \in Entries : get_credential(e.key) = Known(e) /\ ~Exempt(e)
    BY <1>1, <1>2, IdleReads
  <2>3. ASSUME NEW e \in Remaining, Type(e.key) = "PIN" PROVE Known(e) # code
    <3> SUFFICES ASSUME Known(e) = code PROVE FALSE
      OBVIOUS
    <3>1. e.user \in users /\ users \subseteq Users
      BY <1>1, CoreTypes DEF OwnersInv
    <3>2. PICK f \in Entries : f.key = find_existing_credential(users, "PIN", code)
      BY <2>2, <2>3, <3>1, SearchFinds
    <3>3. f.key \in Keys /\ 0 \notin Keys
      BY EntryPlace, DescriptorType DEF CoreInv, Keys
    <3> QED BY <2>1, <3>2, <3>3
  <2>4. faults' = faults /\ \A e : Known(e)' = Known(e) /\ (Exempt(e)' <=> Exempt(e))
    BY <1>1, <2>1 DEF NoFault, Known, Readable, Exempt
  <2>5. ASSUME NEW e \in Remaining', ~Exempt(e)', Known(e)' # NoCode
        PROVE  /\ \A f \in Remaining' :
                    f.key # e.key /\ Type(f.key) = Type(e.key) /\ ~Exempt(f)' =>
                      Known(f)' # Known(e)'
               /\ ~(Type(e.key) = "PIN" /\ Known(e)' = admin')
    <3>1. e \in Remaining /\ OnlyKnown(e.key, Known(e))
      BY <1>1, <1>2, <1>3, <2>4, <2>5 DEF UniqueInv
    <3>2. ~(Type(e.key) = "PIN" /\ Known(e)' = admin')
      BY <2>1, <2>3, <2>4, <3>1
    <3> QED BY <1>3, <2>4, <3>1, <3>2 DEF OnlyKnown
  <2>6. faults' = 0 => \A o \in Offsets : <<o, "data">> \notin torn'
    BY <1>1, <2>4, NothingTorn
  <2>7. pc' \notin Writing /\ pc' # "data" /\ pc' # "add default"
    BY <1>1 DEF Writing
  <2> QED BY <2>5, <2>6, <2>7 DEF UniqueInv, OnlyKnown, NotAdmin, Type
<1> QED BY <1>4, <1>5

LEMMA CommandFault ==
  ASSUME Commands
  PROVE  Fault \/ NoFault
BY DEF Commands, AddUser, CredentialSet, CredentialDelete, AssociationSet, UserCodeSet,
       AdminCodeSet, Delete, AddDefaultUser, FactoryReset, Start, history, NoFault

LEMMA CommandUnique ==
  ASSUME CoreInv, NumberInv, OwnersInv, IntactInv, UniqueInv, Commands,
         spoiled' = {}, faults' <= 1
  PROVE  UniqueInv'
<1>1. CASE \E code \in Codes \cup {NoCode} : AdminCodeSet(code)
  BY <1>1, AdminUnique
<1>2. CASE ~ \E code \in Codes \cup {NoCode} : AdminCodeSet(code)
  <2>1. pc = "idle" /\ (Opened \/ Deleting \/ Cleared)
    BY CommandKinds
  <2>2. spoiled = {} /\ UNCHANGED <<metadata, data, torn>>
    BY <2>1 DEF Opened, Deleting, Cleared
  <2>3. faults <= 1
    <3>1. Fault \/ NoFault
      BY CommandFault
    <3> QED BY <3>1, FaultCount
  <2>4. NoFault /\ admin' = admin /\ Validated /\ (pc' = "add default" => users = {})
    BY <1>2, <2>2, <2>3, CommandCode
  <2>5. Remaining' \subseteq Remaining
    <3>1. CASE UNCHANGED <<n_credentials, number, table>>
      BY <2>1, <3>1, SameRemaining
    <3>2. CASE Cleared
      <4>1. UNCHANGED <<number, table>> /\ n_credentials' = 0
        BY <3>2 DEF Cleared
      <4>2. Entries' = {} /\ Visible(number)' = Visible(number)
        BY <4>1, NothingRead DEF Visible
      <4> QED BY <2>1, <4>2 DEF Remaining
    <3> QED BY <2>1, <3>1, <3>2 DEF Opened, Deleting
  <2>6. pc' # "data"
    BY <2>1 DEF Opened, Started, Deleting, Cleared
  <2>7. pc' = "add default" => Remaining' = {}
    <3>1. \A e \in Remaining : e.user \in users
      BY <2>2 DEF OwnersInv
    <3> QED BY <2>4, <2>5, <3>1
  <2> QED BY <2>1, <2>2, <2>4, <2>5, <2>6, <2>7, SameObject, UniqueQuiet DEF Validated
<1> QED BY <1>1, <1>2

LEMMA DefaultUnique ==
  ASSUME CoreInv, OwnersInv, UniqueInv, AddDefaultPin, spoiled' = {}, faults' <= 1
  PROVE  UniqueInv'
<1>1. /\ pc = "add default" /\ spoiled = {} /\ add_credential(1, 1, DefaultCode)
      /\ UNCHANGED <<number, table, metadata, data, admin, loop, torn, faults>> /\ NoFault
  BY DEF AddDefaultPin, files, history, NoFault
<1>2. loop = NoLoop
  BY <1>1, IdleLoop
<1>3. 1 \in Keys /\ 1 \in Users /\ DefaultCode \in Codes /\ DefaultCode # NoCode
  <2>1. 1 \in 1 .. PinSlots
    BY CredentialAssumption
  <2> QED BY <2>1, PinSlot, CredentialAssumption
<1>4. /\ UNCHANGED n_credentials
      /\ \/ pc' = "idle"
         \/ /\ pc' = "metadata" /\ call'.key = 1 /\ call'.code = DefaultCode
            /\ call'.operation = "add"
  BY <1>1, <1>2, <1>3, AddStarts DEF CoreInv, Over, Started
<1>5. Remaining = {}
  BY <1>1 DEF UniqueInv
<1>6. Remaining' \subseteq Remaining
  BY <1>1, <1>4, SameRemaining
<1>7. OnlyKnown(1, DefaultCode) /\ NotAdmin(1, DefaultCode)
  BY <1>5 DEF OnlyKnown, NotAdmin
<1>8. pc' # "data" /\ pc' # "add default"
  BY <1>4
<1> QED BY <1>1, <1>3, <1>4, <1>6, <1>7, <1>8, SameObject, UniqueQuiet DEF Writing

LEMMA UniqueNext ==
  CoreInv /\ NumberInv /\ OwnersInv /\ IntactInv /\ UniqueInv /\ [Next]_vars => UniqueInv'
<1> SUFFICES ASSUME CoreInv, NumberInv, OwnersInv, IntactInv, UniqueInv, [Next]_vars,
                    spoiled' = {}, faults' <= 1
             PROVE  UniqueInv'
  BY DEF UniqueInv
<1>1. CASE UNCHANGED vars
  <2>1. UNCHANGED <<n_credentials, number, table, metadata, data, admin, pc, call, faults, torn,
                    spoiled>>
    BY <1>1 DEF vars, ram, files, history
  <2>2. Remaining' = Remaining
    BY <2>1, SameTable DEF Remaining, Visible
  <2>3. \A e : Known(e)' = Known(e) /\ (Exempt(e)' <=> Exempt(e))
    BY <2>1 DEF Known, Readable, Exempt
  <2>4. /\ OnlyKnown(call.key, call.code)' <=> OnlyKnown(call.key, call.code)
        /\ NotAdmin(call.key, call.code)' <=> NotAdmin(call.key, call.code)
    BY <2>1, <2>2, <2>3 DEF OnlyKnown, NotAdmin
  <2>5. ASSUME NEW e \in Remaining
        PROVE  /\ OnlyKnown(e.key, Known(e))' <=> OnlyKnown(e.key, Known(e))
               /\ NotAdmin(e.key, Known(e))' <=> NotAdmin(e.key, Known(e))
    BY <2>1, <2>2, <2>3 DEF OnlyKnown, NotAdmin
  <2>6. (\A e \in Remaining : ~Exempt(e) /\ Known(e) # NoCode =>
           OnlyKnown(e.key, Known(e)) /\ NotAdmin(e.key, Known(e)))'
    BY <2>1, <2>2, <2>3, <2>5 DEF UniqueInv
  <2> QED BY <2>1, <2>2, <2>4, <2>6 DEF UniqueInv
<1> QED
  BY <1>1, CommandUnique, MetadataUnique, DataUnique, TableUnique, OtherUnique, DefaultUnique
     DEF Next

LEMMA UniqueAlways == Spec => []UniqueInv
<1>1. Init => UniqueInv
  <2> SUFFICES ASSUME Init PROVE UniqueInv
    OBVIOUS
  <2>1. Remaining = {}
    BY DEF Init, Remaining, Visible, Entries
  <2> QED BY <2>1 DEF Init, UniqueInv, Writing
<1> QED BY <1>1, UniqueNext, IntactAlways, OwnersAlways, NumberAlways, CoreAlways, PTL DEF Spec

(***************************************************************************)
(* validate_new_credential_data and its search keep the codes apart, for   *)
(* every set of users, slots and codes: no credential that can be read has *)
(* the data of another one of its type or the admin code, also after a     *)
(* failed write or a power loss at any point, except the default PIN.      *)
(***************************************************************************)
THEOREM CodesStayUnique == Spec => []UniqueCodes
<1>1. CoreInv /\ NumberInv /\ IntactInv /\ UniqueInv => UniqueCodes
  <2> SUFFICES ASSUME CoreInv, NumberInv, IntactInv, UniqueInv, pc = "idle", spoiled = {},
                      faults <= 1, NEW k \in Keys, get_credential(k) # NoCode
               PROVE  /\ \A j \in Keys \ {k} :
                           Type(j) = Type(k) => get_credential(j) # get_credential(k)
                      /\ Type(k) = "PIN" /\ get_credential(k) = admin =>
                           k = 1 /\ admin = DefaultCode
    BY DEF UniqueCodes
  <2>1. /\ Remaining = Entries
        /\ \A e \in Entries : get_credential(e.key) = Known(e) /\ ~Exempt(e)
    BY IdleReads
  <2>2. \A j : get_credential(j) # NoCode => Entry(j) \in Entries /\ Entry(j).key = j
    BY StoredEntry DEF get_credential
  <2>3. OnlyKnown(k, get_credential(k)) /\ NotAdmin(k, get_credential(k))
    BY <2>1, <2>2 DEF UniqueInv
  <2>4. ASSUME NEW j \in Keys \ {k}, Type(j) = Type(k) PROVE get_credential(j) # get_credential(k)
    <3>1. CASE get_credential(j) = NoCode
      BY <3>1
    <3>2. CASE get_credential(j) # NoCode
      BY <2>1, <2>2, <2>3, <2>4, <3>2 DEF OnlyKnown
    <3> QED BY <3>1, <3>2
  <2> QED BY <2>3, <2>4 DEF NotAdmin
<1> QED BY <1>1, UniqueAlways, IntactAlways, NumberAlways, CoreAlways, PTL
===============================================================================
