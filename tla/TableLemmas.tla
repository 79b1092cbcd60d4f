----------------------------- MODULE TableLemmas -----------------------------
(***************************************************************************)
(* Facts that several of the proof modules need: what an insertion into and *)
(* a removal from a descriptor table of the User Credential database make   *)
(* of it, what an NVM write leaves behind, least elements and counting.     *)
(***************************************************************************)
EXTENDS ZpalNvm, SequenceTheorems, FiniteSetTheorems, FunctionTheorems, WellFoundedInduction,
        TLAPS

(***************************************************************************)
(* What the memmove and the assignment of an ordered insertion make of a    *)
(* table: entries before the index stay, later ones move down.              *)
(***************************************************************************)
LEMMA InsertAtProperties ==
    ASSUME NEW S, NEW s \in Seq(S), NEW e \in S, NEW i \in 1 .. Len(s) + 1
    PROVE  /\ InsertAt(s, i, e) \in Seq(S)
           /\ Len(InsertAt(s, i, e)) = Len(s) + 1
           /\ \A j \in 1 .. Len(s) + 1 :
                InsertAt(s, i, e)[j] = IF j < i THEN s[j]
                                       ELSE IF j = i THEN e ELSE s[j - 1]
<1> DEFINE a == SubSeq(s, 1, i - 1)
           b == SubSeq(s, i, Len(s))
           c == a \o <<e>>
<1>1. Len(s) \in Nat /\ \A j \in 1 .. Len(s) : s[j] \in S
  BY LenProperties, ElementOfSeq
<1>2. a \in Seq(S) /\ Len(a) = i - 1 /\ \A j \in 1 .. i - 1 : a[j] = s[j]
  BY <1>1, SubSeqProperties
<1>3. b \in Seq(S) /\ Len(b) = Len(s) - i + 1
      /\ \A j \in 1 .. Len(s) - i + 1 : b[j] = s[i + j - 1]
  BY <1>1, SubSeqProperties
<1>4. <<e>> \in Seq(S) /\ Len(<<e>>) = 1 /\ <<e>>[1] = e
  OBVIOUS
<1>5. c \in Seq(S) /\ Len(c) = i
      /\ \A j \in 1 .. i : c[j] = IF j < i THEN s[j] ELSE e
  BY <1>1, <1>2, <1>4, ConcatProperties
<1>6. InsertAt(s, i, e) = c \o b
  BY DEF InsertAt
<1> HIDE DEF a, b, c
<1> QED
  BY <1>1, <1>3, <1>5, <1>6, ConcatProperties, SMTT(30)

\* The same, for the two facts on their own.
LEMMA InsertAtType ==
    ASSUME NEW S, NEW s \in Seq(S), NEW e \in S, NEW i \in 1 .. Len(s) + 1
    PROVE  InsertAt(s, i, e) \in Seq(S) /\ Len(InsertAt(s, i, e)) = Len(s) + 1
BY InsertAtProperties

LEMMA InsertAtEntry ==
    ASSUME NEW S, NEW s \in Seq(S), NEW e \in S, NEW i \in 1 .. Len(s) + 1,
           NEW j \in 1 .. Len(s) + 1
    PROVE  InsertAt(s, i, e)[j] = IF j < i THEN s[j] ELSE IF j = i THEN e ELSE s[j - 1]
BY InsertAtProperties

(***************************************************************************)
(* What the memmove of a deletion makes of a table.                         *)
(***************************************************************************)
LEMMA RemoveAtProperties ==
    ASSUME NEW S, NEW s \in Seq(S), NEW i \in 1 .. Len(s)
    PROVE  /\ RemoveAt(s, i) \in Seq(S)
           /\ Len(RemoveAt(s, i)) = Len(s) - 1
           /\ \A j \in 1 .. Len(s) - 1 :
                RemoveAt(s, i)[j] = IF j < i THEN s[j] ELSE s[j + 1]
<1> DEFINE a == SubSeq(s, 1, i - 1)
           b == SubSeq(s, i + 1, Len(s))
<1>1. Len(s) \in Nat /\ \A j \in 1 .. Len(s) : s[j] \in S
  BY LenProperties, ElementOfSeq
<1>2. a \in Seq(S) /\ Len(a) = i - 1 /\ \A j \in 1 .. i - 1 : a[j] = s[j]
  BY <1>1, SubSeqProperties
<1>3. b \in Seq(S) /\ Len(b) = Len(s) - i
      /\ \A j \in 1 .. Len(s) - i : b[j] = s[i + j]
  BY <1>1, SubSeqProperties
<1>4. RemoveAt(s, i) = a \o b
  BY DEF RemoveAt
<1> HIDE DEF a, b
<1> QED
  BY <1>1, <1>2, <1>3, <1>4, ConcatProperties, SMTT(30)

\* zpal_nvm_write leaves either the old or the new value behind.
LEMMA WrittenOldOrNew ==
    ASSUME NEW file, NEW new, NEW chunk
    PROVE  Written(file, new, chunk) \in {file, new}
BY DEF Written

\* A set of numbers has a least one.
LEMMA LeastElement ==
    ASSUME NEW T \in SUBSET Nat, T # {}
    PROVE  \E x \in T : \A y \in T : x <= y
<1> DEFINE R == {p \in Nat \X Nat : p[1] < p[2]}
<1>1. IsWellFoundedOn(R, Nat)
  BY NatLessThanWellFounded DEF OpToRel
<1> HIDE DEF R
<1>2. PICK x \in T : \A y \in T : ~(<<y, x>> \in R)
  BY <1>1, WFMin
<1>3. ASSUME NEW y \in T PROVE x <= y
  <2>1. x \in Nat /\ y \in Nat
    OBVIOUS
  <2>2. ~(y < x)
    BY <1>2, <2>1 DEF R
  <2> QED BY <2>1, <2>2
<1> QED BY <1>3

\* The smaller entries of an ascending table come first: their number is the place of a key.
LEMMA CountIsPlace ==
    ASSUME NEW n \in Nat, NEW k \in [1 .. n -> Nat], NEW key \in Nat,
           \A i, j \in 1 .. n : i < j => k[i] < k[j]
    PROVE  LET p == 1 + Cardinality({i \in 1 .. n : k[i] < key})
           IN  p \in 1 .. n + 1 /\ \A i \in 1 .. n : i < p <=> k[i] < key
<1> DEFINE S == {i \in 1 .. n : k[i] < key}
           T == {i \in 1 .. n + 1 : i = n + 1 \/ ~(k[i] < key)}
<1>1. T \in SUBSET Nat /\ n + 1 \in T
  OBVIOUS
<1>2. PICK x \in T : \A y \in T : x <= y
  BY <1>1, LeastElement
<1>3. x \in 1 .. n + 1 /\ x - 1 \in Nat
  BY <1>2
<1>4. \A i \in 1 .. n : i < x <=> k[i] < key
  <2>1. ASSUME NEW i \in 1 .. n, i < x PROVE k[i] < key
    <3>1. i \notin T
      BY <1>2, <1>3, <2>1
    <3> QED BY <3>1
  <2>2. ASSUME NEW i \in 1 .. n, ~(i < x) PROVE ~(k[i] < key)
    <3>1. x \in 1 .. n /\ ~(k[x] < key)
      BY <1>2, <1>3, <2>2
    <3>2. k[i] \in Nat /\ k[x] \in Nat
      BY <3>1
    <3>3. i = x \/ k[x] < k[i]
      BY <2>2, <3>1
    <3> QED BY <3>1, <3>2, <3>3
  <2> QED BY <2>1, <2>2
<1>5. S = 1 .. x - 1
  BY <1>3, <1>4
<1>6. Cardinality(1 .. x - 1) = x - 1
  <2>1. IF 1 > x - 1 THEN Cardinality(1 .. x - 1) = 0
        ELSE Cardinality(1 .. x - 1) = (x - 1) - 1 + 1
    BY <1>3, FS_Interval
  <2> QED BY <1>3, <2>1
<1> HIDE DEF S, T
<1>7. 1 + Cardinality(S) = x
  BY <1>3, <1>5, <1>6
<1> QED BY <1>3, <1>4, <1>7 DEF S

-------------------------------------------------------------------------------
(* Queues *)

LEMMA TailSeq ==
  ASSUME NEW S, NEW seq \in Seq(S), seq # <<>>
  PROVE  /\ Tail(seq) \in Seq(S)
         /\ Len(seq) \in Nat \ {0} /\ Len(Tail(seq)) = Len(seq) - 1
         /\ Head(seq) = seq[1] /\ Head(seq) \in S
         /\ \A i \in 1 .. Len(Tail(seq)) : Tail(seq)[i] = seq[i + 1]
<1>1. Len(seq) \in Nat \ {0}
  BY LenProperties, EmptySeq
<1> QED BY <1>1, HeadTailProperties

\* The elements of a queue that belong to a set, and how many there are.
Places(queue, S) == {i \in 1 .. Len(queue) : queue[i] \in S}
Occurrences(queue, S) == Cardinality(Places(queue, S))

LEMMA OccurrencesType ==
  ASSUME NEW T, NEW queue \in Seq(T), NEW S
  PROVE  IsFiniteSet(Places(queue, S)) /\ Occurrences(queue, S) \in Nat
<1>1. Len(queue) \in Nat
  BY LenProperties
<1>2. IsFiniteSet(1 .. Len(queue)) /\ Places(queue, S) \in SUBSET (1 .. Len(queue))
  BY <1>1, FS_Interval DEF Places
<1>3. IsFiniteSet(Places(queue, S))
  BY <1>2, FS_Subset
<1> QED BY <1>3, FS_CardinalityType DEF Occurrences

LEMMA OccurrencesAppend ==
  ASSUME NEW T, NEW queue \in Seq(T), NEW x \in T, NEW S
  PROVE  Occurrences(Append(queue, x), S) = Occurrences(queue, S) + IF x \in S THEN 1 ELSE 0
<1>1. PICK longer : longer = Append(queue, x)
  OBVIOUS
<1>2. /\ Len(longer) = Len(queue) + 1 /\ longer[Len(queue) + 1] = x
      /\ \A i \in 1 .. Len(queue) : longer[i] = queue[i]
  BY <1>1, AppendProperties
<1>3. Len(queue) \in Nat
  BY LenProperties
<1>4. Places(longer, S) = Places(queue, S) \cup IF x \in S THEN {Len(queue) + 1} ELSE {}
  BY <1>2, <1>3 DEF Places
<1>5. Len(queue) + 1 \notin Places(queue, S)
  BY <1>3 DEF Places
<1>6. IsFiniteSet(Places(queue, S)) /\ Occurrences(queue, S) \in Nat
  BY OccurrencesType
<1>7. CASE x \in S
  <2>1. Places(longer, S) = Places(queue, S) \cup {Len(queue) + 1}
    BY <1>4, <1>7
  <2> QED BY <1>1, <1>5, <1>6, <1>7, <2>1, FS_AddElement DEF Occurrences
<1>8. CASE x \notin S
  <2>1. Places(longer, S) = Places(queue, S)
    BY <1>4, <1>8
  <2> QED BY <1>1, <1>6, <1>8, <2>1 DEF Occurrences
<1> QED BY <1>7, <1>8

LEMMA OccurrencesTail ==
  ASSUME NEW T, NEW queue \in Seq(T), queue # <<>>, NEW S
  PROVE  Occurrences(queue, S) =
           Occurrences(Tail(queue), S) + IF Head(queue) \in S THEN 1 ELSE 0
<1>1. PICK tail : tail = Tail(queue)
  OBVIOUS
<1>2. /\ tail \in Seq(T) /\ Len(queue) \in Nat \ {0} /\ Len(tail) = Len(queue) - 1
      /\ Head(queue) = queue[1]
      /\ \A i \in 1 .. Len(tail) : tail[i] = queue[i + 1]
  BY <1>1, TailSeq
<1>3. IsFiniteSet(Places(tail, S)) /\ Occurrences(tail, S) \in Nat
  BY <1>2, OccurrencesType
<1>4. IsFiniteSet(Places(queue, S)) /\ Occurrences(queue, S) \in Nat
  BY OccurrencesType
<1> DEFINE later == Places(queue, S) \ {1}
           shift == [i \in Places(tail, S) |-> i + 1]
<1>5. shift \in Bijection(Places(tail, S), later)
  <2>1. \A i \in Places(tail, S) : i \in Nat /\ i + 1 \in later
    BY <1>2 DEF Places
  <2>2. \A j \in later : j - 1 \in Places(tail, S) /\ j \in Nat
    BY <1>2 DEF Places
  <2>3. shift \in [Places(tail, S) -> later]
    BY <2>1
  <2>4. \A i, j \in Places(tail, S) : shift[i] = shift[j] => i = j
    BY <2>1
  <2>5. \A j \in later : \E i \in Places(tail, S) : shift[i] = j
    <3> SUFFICES ASSUME NEW j \in later PROVE \E i \in Places(tail, S) : shift[i] = j
      OBVIOUS
    <3>1. j - 1 \in Places(tail, S) /\ shift[j - 1] = j
      BY <2>2
    <3> QED BY <3>1
  <2> HIDE DEF shift, later
  <2> QED BY <2>3, <2>4, <2>5, Fun_IsBij
<1>6. Cardinality(later) = Occurrences(tail, S)
  BY <1>3, <1>5, FS_Bijection DEF Occurrences, ExistsBijection
<1>7. 1 \in Places(queue, S) <=> Head(queue) \in S
  BY <1>2 DEF Places
<1>8. Cardinality(later) =
        IF 1 \in Places(queue, S) THEN Occurrences(queue, S) - 1 ELSE Occurrences(queue, S)
  BY <1>4, FS_RemoveElement DEF Occurrences
<1> QED BY <1>1, <1>3, <1>4, <1>6, <1>7, <1>8
=============================================================================
