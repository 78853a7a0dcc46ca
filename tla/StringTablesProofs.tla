--------------------------- MODULE StringTablesProofs ---------------------------
(***************************************************************************)
(* The ring of parse_update is the list that references count in, for a    *)
(* ring of any size.  RingIsList is not inductive: it says nothing of the  *)
(* slots in terms of the counter.  HistoryInv does: the last keys of the   *)
(* message are in the slots of their numbers modulo the size.              *)
(***************************************************************************)
EXTENDS StringTables, FiniteSetTheorems, FunctionTheorems, TLAPS

HistoryInv ==
  /\ history \in [0..(HISTORY_SIZE - 1) -> Keys \cup {NoKey}]
  /\ history_delta_index \in Nat
  /\ list \in Seq(Keys)
  /\ Len(list) = IF history_delta_index < HISTORY_SIZE THEN history_delta_index ELSE HISTORY_SIZE
  /\ \A n \in 1..Len(list) :
       history[(history_delta_index - Len(list) + n - 1) % HISTORY_SIZE] = list[n]

\* Division with remainder, as the provers know it of integers.
LEMMA RemainderInt ==
  ASSUME NEW m \in Int, m > 0, NEW a \in Int
  PROVE  /\ a % m \in Int /\ 0 <= a % m /\ a % m < m
         /\ a \div m \in Int
         /\ a = m * (a \div m) + (a % m)
<1>1. a % m \in Int /\ 0 <= a % m /\ a % m < m
  OBVIOUS
<1>2. a \div m \in Int
  OBVIOUS
<1>3. a % m = a - m * (a \div m)
  OBVIOUS
<1>4. \A q, r \in Int : r = a - m * q => a = m * q + r
  OBVIOUS
<1> QED
  BY <1>1, <1>2, <1>3, <1>4

LEMMA QuotientNat ==
  ASSUME NEW m \in Nat \ {0}, NEW a \in Nat,
         NEW q \in Int, NEW r \in 0..(m - 1), a = m * q + r
  PROVE  q \in Nat
<1>1. ASSUME NEW d \in Nat, q = -1 - d PROVE FALSE
  <2>1. m * q = -m - m * d /\ m * d \in Nat
    BY <1>1
  <2>2. a = r - m - m * d
    BY <2>1
  <2> QED
    BY <2>1, <2>2
<1>2. q < 0 => -1 - q \in Nat /\ q = -1 - (-1 - q)
  OBVIOUS
<1> QED
  BY <1>1, <1>2

LEMMA Remainder ==
  ASSUME NEW m \in Nat \ {0}, NEW a \in Nat
  PROVE  /\ a % m \in 0..(m - 1)
         /\ a \div m \in Nat
         /\ a = m * (a \div m) + (a % m)
<1>1. /\ a % m \in Int /\ 0 <= a % m /\ a % m < m
      /\ a \div m \in Int /\ a = m * (a \div m) + (a % m)
  BY RemainderInt
<1>2. a % m \in 0..(m - 1)
  BY <1>1
<1>3. a \div m \in Nat
  BY <1>1, <1>2, QuotientNat
<1> QED
  BY <1>1, <1>2, <1>3

LEMMA RemainderUnique ==
  ASSUME NEW m \in Nat \ {0}, NEW q \in Nat, NEW p \in Nat,
         NEW r \in 0..(m - 1), NEW s \in 0..(m - 1), m * q + r = m * p + s
  PROVE  r = s
<1>1. CASE q = p
  BY <1>1
<1>2. ASSUME q < p PROVE FALSE
  <2>1. PICK d \in Nat : p = q + 1 + d
    BY <1>2
  <2>2. m * p = m * q + m + m * d /\ m * d \in Nat
    BY <2>1
  <2> QED
    BY <2>2
<1>3. ASSUME p < q PROVE FALSE
  <2>1. PICK d \in Nat : q = p + 1 + d
    BY <1>3
  <2>2. m * q = m * p + m + m * d /\ m * d \in Nat
    BY <2>1
  <2> QED
    BY <2>2
<1> QED
  BY <1>1, <1>2, <1>3

LEMMA RemainderShift ==
  ASSUME NEW m \in Nat \ {0}, NEW a \in Nat, NEW b \in Nat, a >= m
  PROVE  ((a % m) + b) % m = (a - m + b) % m
<1> DEFINE c == (a % m) + b
           d == a - m + b
           q == a \div m
<1>1. a % m \in 0..(m - 1) /\ q \in Nat /\ a = m * q + (a % m)
  BY Remainder
<1>2. c \in Nat /\ d \in Nat
  BY <1>1
<1>3. q >= 1
  <2>1. q # 0
    BY <1>1
  <2> QED
    BY <1>1, <2>1
<1>4. d = m * (q - 1) + c
  <2>1. m * (q - 1) = m * q - m
    BY <1>1
  <2> QED
    BY <1>1, <2>1
<1>5. /\ c % m \in 0..(m - 1) /\ c \div m \in Nat /\ c = m * (c \div m) + (c % m)
      /\ d % m \in 0..(m - 1) /\ d \div m \in Nat /\ d = m * (d \div m) + (d % m)
  BY <1>2, Remainder
<1>6. m * (d \div m) + (d % m) = m * ((q - 1) + (c \div m)) + (c % m)
  <2>1. m * ((q - 1) + (c \div m)) = m * (q - 1) + m * (c \div m)
    BY <1>1, <1>5
  <2> QED
    BY <1>1, <1>3, <1>4, <1>5, <2>1
<1>7. (q - 1) + (c \div m) \in Nat
  BY <1>1, <1>3, <1>5
<1> QED
  BY <1>5, <1>6, <1>7, RemainderUnique

LEMMA RemainderDistinct ==
  ASSUME NEW m \in Nat \ {0}, NEW a \in Nat, NEW k \in 1..(m - 1)
  PROVE  a % m # (a + k) % m
<1> DEFINE b == a + k
<1>1. b \in Nat /\ b - a = k
  OBVIOUS
<1> HIDE DEF b
<1>2. a \div m \in Nat /\ a = m * (a \div m) + (a % m) /\ a % m \in 0..(m - 1)
  BY Remainder
<1>3. b \div m \in Nat /\ b = m * (b \div m) + (b % m) /\ b % m \in 0..(m - 1)
  BY <1>1, Remainder
<1>4. \A q, p \in Nat, r \in 0..(m - 1) : a = m * q + r /\ b = m * p + r => FALSE
  <2> SUFFICES ASSUME NEW q \in Nat, NEW p \in Nat, NEW r \in 0..(m - 1),
                      a = m * q + r, b = m * p + r
               PROVE  FALSE
    OBVIOUS
  <2>1. m * q \in Nat /\ m * p \in Nat
    OBVIOUS
  <2>2. m * p + 0 = m * q + k
    BY <1>1, <2>1
  <2>3. 0 \in 0..(m - 1) /\ k \in 0..(m - 1)
    OBVIOUS
  <2> QED
    BY <2>2, <2>3, RemainderUnique
<1>5. a % m # b % m
  BY <1>2, <1>3, <1>4
<1> QED
  BY <1>5 DEF b

LEMMA RemainderSmall ==
  ASSUME NEW m \in Nat \ {0}, NEW a \in 0..(m - 1)
  PROVE  a % m = a
OBVIOUS

------------------------------------------------------------------------------
\* The invariant gives the property: the code's index is the slot of the n-th key.
LEMMA RingFromInv == HistoryInv => RingIsList
<1> SUFFICES ASSUME HistoryInv, NEW n \in 1..Len(list)
             PROVE  history[HistoryIndex(n - 1)] = list[n]
  BY DEF RingIsList
<1> DEFINE m == HISTORY_SIZE
           k == history_delta_index
<1>1. m \in Nat \ {0} /\ k \in Nat /\ Len(list) \in Nat /\ n \in Nat \ {0}
  BY HistoryAssumption DEF HistoryInv
<1>2. HistoryIndex(n - 1) = (k - Len(list) + n - 1) % m
  <2>1. CASE k > m
    <3>1. HistoryIndex(n - 1) = ((k % m) + (n - 1)) % m
      BY <2>1 DEF HistoryIndex
    <3>2. ((k % m) + (n - 1)) % m = (k - m + (n - 1)) % m
      <4>1. n - 1 \in Nat /\ k >= m
        BY <1>1, <2>1
      <4> HIDE DEF m, k
      <4>2. \A b \in Nat : ((k % m) + b) % m = (k - m + b) % m
        BY <1>1, <4>1, RemainderShift
      <4> QED
        BY <4>1, <4>2
    <3>3. k - m + (n - 1) = k - Len(list) + n - 1
      BY <1>1, <2>1 DEF HistoryInv
    <3> QED
      BY <3>1, <3>2, <3>3
  <2>2. CASE ~(k > m)
    <3>1. HistoryIndex(n - 1) = (0 + (n - 1)) % m
      BY <2>2 DEF HistoryIndex
    <3>2. 0 + (n - 1) = k - Len(list) + n - 1
      BY <1>1, <2>2 DEF HistoryInv
    <3> QED
      BY <3>1, <3>2
  <2> QED
    BY <2>1, <2>2
<1> QED
  BY <1>2 DEF HistoryInv

\* A key put in the ring as it is in the list takes the slot of the key that leaves.
LEMMA AddKeeps ==
  ASSUME HistoryInv, NEW key \in Keys, HistoryAdd(key, key)
  PROVE  HistoryInv'
<1> DEFINE m   == HISTORY_SIZE
           k   == history_delta_index
           old == IF Len(list) = m THEN Tail(list) ELSE list
<1>1. m \in Nat \ {0} /\ k \in Nat /\ Len(list) \in Nat
  BY HistoryAssumption DEF HistoryInv
<1>2. /\ history' = [history EXCEPT ![k % m] = key]
      /\ k' = k + 1
      /\ list' = Append(old, key)
  BY DEF HistoryAdd
<1>3. k % m \in 0..(m - 1)
  BY <1>1, Remainder
<1>4. /\ old \in Seq(Keys)
      /\ Len(old) = IF k < m THEN k ELSE m - 1
      /\ \A n \in 1..Len(old) : old[n] = IF k < m THEN list[n] ELSE list[n + 1]
  BY <1>1 DEF HistoryInv
<1> HIDE DEF old
<1>5. /\ list' \in Seq(Keys) /\ Len(list') = Len(old) + 1
      /\ \A n \in 1..Len(old) : list'[n] = old[n]
      /\ list'[Len(old) + 1] = key
  BY <1>2, <1>4
<1>6. Len(list') = IF k' < m THEN k' ELSE m
  BY <1>1, <1>2, <1>4, <1>5
<1>7. history' \in [0..(m - 1) -> Keys \cup {NoKey}] /\ k' \in Nat
  BY <1>1, <1>2, <1>3 DEF HistoryInv
<1>8. k' - Len(list') = k - Len(old)
  BY <1>1, <1>2, <1>4, <1>5
<1>9. ASSUME NEW n \in 1..Len(list')
      PROVE  history'[(k' - Len(list') + n - 1) % m] = list'[n]
  <2> DEFINE slot == k - Len(old) + n - 1
  <2>1. k' - Len(list') + n - 1 = slot /\ slot \in Nat /\ n \in Nat
    BY <1>1, <1>4, <1>5, <1>8
  <2>2. CASE n = Len(old) + 1
    <3>1. slot = k
      BY <1>1, <1>4, <2>2
    <3> QED
      BY <1>2, <1>3, <1>5, <2>1, <2>2, <3>1 DEF HistoryInv
  <2>3. CASE n \in 1..Len(old)
    <3>1. k - slot \in 1..(m - 1) /\ slot + (k - slot) = k
      BY <1>1, <1>4, <2>1, <2>3
    <3>2. slot % m # k % m
      <4> HIDE DEF slot
      <4> QED BY <1>1, <2>1, <3>1, RemainderDistinct
    <3>3. history[slot % m] = list'[n]
      <4>1. CASE k < m
        <5>1. slot = k - Len(list) + n - 1 /\ n \in 1..Len(list)
          BY <1>1, <1>4, <2>3, <4>1 DEF HistoryInv
        <5>2. list'[n] = list[n]
          BY <1>4, <1>5, <2>3, <4>1
        <5> QED
          BY <5>1, <5>2 DEF HistoryInv
      <4>2. CASE ~(k < m)
        <5>1. slot = k - Len(list) + (n + 1) - 1 /\ n + 1 \in 1..Len(list)
          BY <1>1, <1>4, <2>3, <4>2 DEF HistoryInv
        <5>2. list'[n] = list[n + 1]
          BY <1>4, <1>5, <2>3, <4>2
        <5> QED
          BY <5>1, <5>2 DEF HistoryInv
      <4> QED
        BY <4>1, <4>2
    <3>4. slot % m \in 0..(m - 1)
      BY <1>1, <2>1, Remainder
    <3> QED
      BY <1>2, <2>1, <3>2, <3>3, <3>4 DEF HistoryInv
  <2> QED
    BY <1>4, <1>5, <2>2, <2>3
<1> QED
  BY <1>5, <1>6, <1>7, <1>9 DEF HistoryInv

LEMMA EmptyKeeps ==
  ASSUME NEW ring \in [0..(HISTORY_SIZE - 1) -> Keys \cup {NoKey}],
         history' = ring, history_delta_index' = 0, list' = <<>>
  PROVE  HistoryInv'
BY HistoryAssumption DEF HistoryInv

\* What a reference reads is the key that was written.
LEMMA ReadIsWritten ==
  ASSUME HistoryInv, NEW i, NEW key \in Keys, NEW with_key, NEW data,
         ReadEntry(i, key, with_key, data)
  PROVE  HistoryAdd(key, key) \/ UNCHANGED historyVars
<1>1. ASSUME NEW n \in 1..Len(list), list[n][1] = key[1],
             HistoryAdd(key, <<history[HistoryIndex(n - 1)][1], key[2]>>)
      PROVE  HistoryAdd(key, key)
  <2>1. history[HistoryIndex(n - 1)][1] = key[1]
    BY <1>1, RingFromInv DEF RingIsList
  <2>2. key = <<key[1], key[2]>>
    BY TableAssumption
  <2> QED
    BY <1>1, <2>1, <2>2
<1> QED
  BY <1>1 DEF ReadEntry

LEMMA StepHistory ==
  ASSUME HistoryInv, [Next]_vars
  PROVE  HistoryInv'
<1>1. CASE CreateTable
  <2>1. EmptyRing \in [0..(HISTORY_SIZE - 1) -> Keys \cup {NoKey}]
    BY DEF EmptyRing
  <2> QED
    BY <1>1, <2>1, EmptyKeeps DEF CreateTable, HistoryReset
<1>2. CASE UpdateTable
  BY <1>2, EmptyKeeps DEF UpdateTable, HistoryBegin, HistoryInv
<1>3. ASSUME NEW i \in 0..(MaxItems - 1), NEW key \in Keys, NEW with_key \in BOOLEAN,
             NEW data \in Data \cup {None}, ReadEntry(i, key, with_key, data)
      PROVE  HistoryInv'
  <2>1. HistoryAdd(key, key) \/ UNCHANGED historyVars
    BY <1>3, ReadIsWritten
  <2>2. CASE UNCHANGED historyVars
    BY <2>2 DEF historyVars, HistoryInv
  <2> QED
    BY <2>1, <2>2, AddKeeps
<1>4. CASE UNCHANGED historyVars
  BY <1>4 DEF historyVars, HistoryInv
<1> QED
  BY <1>1, <1>2, <1>3, <1>4
     DEF Next, vars, EndUpdate, FullUpdate, ClassInfo, Reset

\* A reference into the key history always finds the key it means, whatever the
\* size of the ring and however many keys and messages came before.
THEOREM ReferencesResolve == Spec => []RingIsList
<1>1. Init => HistoryInv
  BY HistoryAssumption DEF Init, HistoryInit, EmptyRing, HistoryInv
<1>2. HistoryInv /\ [Next]_vars => HistoryInv'
  BY StepHistory
<1> QED
  BY <1>1, <1>2, RingFromInv, PTL DEF Spec

------------------------------------------------------------------------------
(***************************************************************************)
(* The instance baseline table and the baseline read from it, for tables,  *)
(* messages and histories of any size.  Neither ItemsAreSent nor           *)
(* BaselineIsTable is inductive: that a write through a reference reaches  *)
(* the item it is meant for, and the class that shares it, and no other,   *)
(* needs that no two items share a reference and that a reference taken    *)
(* anew is in nobody's hands.  ItemsInv says so.                           *)
(***************************************************************************)

SentItem == [key : Keys, data : Data \cup {None}]

\* The sender's table is dense and has distinct keys.
SentInv(table) ==
  /\ \E n \in 0..MaxItems : table \in [0..(n - 1) -> SentItem]
  /\ \A i, j \in DOMAIN table : table[i].key = table[j].key => i = j

\* The items are the sender's, and no two of them share a reference.
TableInv ==
  /\ items \in [DOMAIN sent -> [string : Keys, user_data : Refs \cup {None}]]
  /\ \A i \in DOMAIN sent :
       /\ items[i].string = sent[i].key
       /\ sent[i].data = IF items[i].user_data = None THEN None ELSE cells[items[i].user_data]
  /\ \A i, j \in DOMAIN sent :
       items[i].user_data = items[j].user_data /\ items[i].user_data # None => i = j

\* No key of the table stops the update of the baseline.
Readable(table) == \A i \in DOMAIN table : table[i].key \in Classes \cup NoText

\* A class has a baseline only if its key is in the table, and between messages
\* the item's reference is the one it has.
SharedInv ==
  /\ \A k \in Classes : baseline[k] # None => \E i \in DOMAIN sent : sent[i].key = k
  /\ entry = None /\ entity_classes /\ Readable(sent) =>
       \A i \in DOMAIN sent : sent[i].key \in Classes => baseline[sent[i].key] = items[i].user_data

ItemsInv ==
  /\ SentInv(sent)
  /\ cells \in [Refs -> Data] /\ baseline \in [Classes -> Refs \cup {None}]
  /\ entity_classes \in BOOLEAN /\ entry \in 0..MaxEntries \cup {None}
  /\ items = None => entry = None /\ sent = <<>> /\ baseline = [k \in Classes |-> None]
  /\ items # None => TableInv /\ SharedInv

------------------------------------------------------------------------------
(***************************************************************************)
(* There is always a reference to take: table and baseline hold at most    *)
(* two of them for each item.                                              *)
(***************************************************************************)
LEMMA SentSize ==
  ASSUME SentInv(sent)
  PROVE  \E n \in 0..MaxItems :
           /\ DOMAIN sent = 0..(n - 1) /\ sent \in [0..(n - 1) -> SentItem]
           /\ IsFiniteSet(DOMAIN sent) /\ Cardinality(DOMAIN sent) = n
<1>1. PICK n \in 0..MaxItems : sent \in [0..(n - 1) -> SentItem]
  BY DEF SentInv
<1>2. n \in Int /\ 0 \in Int /\ n - 1 \in Int
  BY TableAssumption
<1>3. IsFiniteSet(0..(n - 1)) /\ Cardinality(0..(n - 1)) = IF 0 > n - 1 THEN 0 ELSE n - 1 - 0 + 1
  BY <1>2, FS_Interval
<1>4. n \in Nat /\ (IF 0 > n - 1 THEN 0 ELSE n - 1 - 0 + 1) = n
  BY TableAssumption
<1> QED BY <1>1, <1>3, <1>4

LEMMA RefsAreFinite ==
  IsFiniteSet(Refs) /\ Cardinality(Refs) = 3 * MaxItems + 1
<1>1. 0 \in Int /\ 3 * MaxItems \in Int /\ 3 * MaxItems >= 0
  BY TableAssumption
<1> QED BY <1>1, FS_Interval DEF Refs

\* What is held are at most as many references as there are items, twice.
LEMMA HeldIsSmall ==
  ASSUME ItemsInv, items # None
  PROVE  /\ IsFiniteSet(Refs \cap Held(items, baseline))
         /\ Cardinality(Refs \cap Held(items, baseline)) <= 2 * MaxItems
<1> DEFINE D == DOMAIN sent
           direct == [i \in D |-> items[i].user_data]
           shared == [i \in D |-> IF sent[i].key \in Classes THEN baseline[sent[i].key] ELSE None]
           both == Range(direct) \cup Range(shared)
<1>1. PICK n \in 0..MaxItems :
        IsFiniteSet(D) /\ Cardinality(D) = n /\ sent \in [D -> SentItem]
  BY SentSize DEF ItemsInv
<1>2. TableInv /\ SharedInv /\ DOMAIN items = D /\ baseline \in [Classes -> Refs \cup {None}]
  BY DEF ItemsInv, TableInv
<1>3. /\ direct \in Surjection(D, Range(direct)) /\ shared \in Surjection(D, Range(shared))
  <2>1. direct \in [D -> Refs \cup {None}]
    BY <1>2 DEF TableInv
  <2>2. shared \in [D -> Refs \cup {None}]
    BY <1>1, <1>2 DEF SentItem
  <2> QED BY <2>1, <2>2, Fun_RangeProperties
<1>4. /\ IsFiniteSet(Range(direct)) /\ Cardinality(Range(direct)) <= n
      /\ IsFiniteSet(Range(shared)) /\ Cardinality(Range(shared)) <= n
  BY <1>1, <1>3, FS_Surjection
<1>5. Refs \cap Held(items, baseline) \subseteq both
  <2> SUFFICES ASSUME NEW r \in Refs, r \in Held(items, baseline) PROVE r \in both
    OBVIOUS
  <2>1. r # None
    BY TableAssumption DEF Refs
  <2>2. CASE \E i \in D : r = items[i].user_data
    BY <2>2 DEF Range
  <2>3. CASE \E k \in Classes : r = baseline[k]
    <3>1. PICK k \in Classes : r = baseline[k]
      BY <2>3
    <3>2. PICK i \in D : sent[i].key = k
      BY <1>2, <2>1, <3>1 DEF SharedInv
    <3> QED BY <3>1, <3>2 DEF Range
  <2> QED BY <1>2, <2>2, <2>3 DEF Held
<1> HIDE DEF direct, shared
<1>6. IsFiniteSet(both) /\ Cardinality(both) <= 2 * MaxItems
  <2>1. /\ IsFiniteSet(both)
        /\ Cardinality(both) = Cardinality(Range(direct)) + Cardinality(Range(shared))
                                 - Cardinality(Range(direct) \cap Range(shared))
    BY <1>4, FS_Union
  <2>2. /\ IsFiniteSet(Range(direct) \cap Range(shared))
    BY <1>4, FS_Intersection
  <2>3. /\ Cardinality(Range(direct)) \in Nat /\ Cardinality(Range(shared)) \in Nat
        /\ Cardinality(Range(direct) \cap Range(shared)) \in Nat
    BY <1>4, <2>2, FS_CardinalityType
  <2>4. n \in Nat /\ n <= MaxItems /\ MaxItems \in Nat
    BY TableAssumption
  <2> QED BY <1>4, <2>1, <2>3, <2>4
<1>7. /\ IsFiniteSet(Refs \cap Held(items, baseline))
      /\ Cardinality(Refs \cap Held(items, baseline)) <= Cardinality(both)
  BY <1>5, <1>6, FS_Subset
<1>8. Cardinality(Refs \cap Held(items, baseline)) \in Nat /\ Cardinality(both) \in Nat
  BY <1>6, <1>7, FS_CardinalityType
<1> QED BY <1>6, <1>7, <1>8, TableAssumption

LEMMA ManyUnused ==
  ASSUME ItemsInv, items # None
  PROVE  LET unused == Refs \ Held(items, baseline)
         IN IsFiniteSet(unused) /\ Cardinality(unused) \in Nat /\ Cardinality(unused) > MaxItems
<1> DEFINE unused == Refs \ Held(items, baseline)
<1>1. IsFiniteSet(unused)
      /\ Cardinality(unused) = Cardinality(Refs) - Cardinality(Refs \cap Held(items, baseline))
  BY RefsAreFinite, FS_Difference
<1>2. Cardinality(Refs \cap Held(items, baseline)) <= 2 * MaxItems
      /\ Cardinality(Refs \cap Held(items, baseline)) \in Nat
  BY HeldIsSmall, FS_CardinalityType
<1>3. Cardinality(unused) \in Nat
  BY <1>1, FS_CardinalityType
<1> QED BY <1>1, <1>2, <1>3, RefsAreFinite, TableAssumption

\* A reference taken anew is one that neither table nor baseline holds.
LEMMA FreshIsFresh ==
  ASSUME ItemsInv, items # None
  PROVE  Fresh(items, baseline) \in Refs /\ Fresh(items, baseline) \notin Held(items, baseline)
<1>1. Refs \ Held(items, baseline) # {}
  BY ManyUnused, FS_EmptySet, TableAssumption
<1> QED BY <1>1 DEF Fresh

\* A full update finds a reference for every item, each another one.
LEMMA PoolIsThere ==
  ASSUME ItemsInv, items # None, NEW n \in 0..MaxItems
  PROVE  \E p \in [0..(n - 1) -> Refs \ Held(items, baseline)] : IsInjective(p)
<1> DEFINE unused == Refs \ Held(items, baseline)
           u == Cardinality(unused)
<1>1. IsFiniteSet(unused) /\ u \in Nat /\ u > MaxItems
  BY ManyUnused
<1> HIDE DEF unused
<1>2. PICK f \in Bijection(1..u, unused) : TRUE
  BY <1>1, FS_CardinalityType DEF ExistsBijection
<1>3. f \in [1..u -> unused] /\ \A a, b \in 1..u : f[a] = f[b] => a = b
  BY <1>2 DEF Bijection, Injection, IsInjective
<1> HIDE DEF u
<1> DEFINE p == [i \in 0..(n - 1) |-> f[i + 1]]
<1>4. \A i \in 0..(n - 1) : i + 1 \in 1..u /\ i \in Int
  BY <1>1, TableAssumption
<1>5. p \in [0..(n - 1) -> unused]
  BY <1>3, <1>4
<1>6. \A i, j \in 0..(n - 1) : p[i] = p[j] => i = j
  BY <1>3, <1>4
<1>7. IsInjective(p)
  BY <1>6 DEF IsInjective
<1> QED BY <1>5, <1>7 DEF unused

------------------------------------------------------------------------------
(***************************************************************************)
(* The operations.                                                         *)
(***************************************************************************)
\* InstanceBaseline::update, over a table with distinct keys, of which it reads some.
LEMMA RefreshedIs ==
  ASSUME NEW D, NEW its \in [D -> [string : Keys, user_data : Refs \cup {None}]],
         \A i, j \in D : its[i].string = its[j].string => i = j,
         NEW base \in [Classes -> Refs \cup {None}], NEW read \in SUBSET D
  PROVE  /\ Refreshed(its, base, read) \in [Classes -> Refs \cup {None}]
         /\ \A i \in read : its[i].string \in Classes =>
              Refreshed(its, base, read)[its[i].string] = its[i].user_data
         /\ \A k \in Classes : Refreshed(its, base, read)[k] # None =>
              base[k] # None \/ \E i \in D : its[i].string = k
<1> DEFINE at(k) == {i \in read : its[i].string = k}
           refreshed == [k \in Classes |-> IF at(k) = {} THEN base[k]
                                           ELSE its[CHOOSE i \in at(k) : TRUE].user_data]
<1>1. Refreshed(its, base, read) = refreshed
  BY DEF Refreshed
<1>2. ASSUME NEW i \in read, its[i].string \in Classes
      PROVE  refreshed[its[i].string] = its[i].user_data
  <2>1. its[i].string \in Classes /\ at(its[i].string) = {i}
    BY <1>2
  <2>2. (CHOOSE j \in at(its[i].string) : TRUE) = i
    BY <2>1
  <2> HIDE DEF at
  <2> QED BY <2>1, <2>2
<1>3. ASSUME NEW k \in Classes
      PROVE  refreshed[k] = base[k] \/ \E i \in D : its[i].string = k /\ refreshed[k] = its[i].user_data
  <2>1. CASE at(k) = {}
    BY <2>1
  <2>2. CASE at(k) # {}
    <3>1. PICK i \in at(k) : i = CHOOSE j \in at(k) : TRUE
      BY <2>2
    <3>2. refreshed[k] = its[i].user_data
      BY <2>2, <3>1
    <3> QED BY <3>1, <3>2
  <2> QED BY <2>1, <2>2
<1>4. refreshed \in [Classes -> Refs \cup {None}]
  <2>1. refreshed = [k \in Classes |-> refreshed[k]]
    OBVIOUS
  <2>2. \A k \in Classes : refreshed[k] \in Refs \cup {None}
    BY <1>3
  <2> HIDE DEF refreshed
  <2> QED BY <2>1, <2>2
<1> HIDE DEF refreshed
<1> QED BY <1>1, <1>2, <1>3, <1>4

\* The update, which reads every item unless there is one that stops it.
LEMMA RefreshIs ==
  ASSUME NEW D, NEW its \in [D -> [string : Keys, user_data : Refs \cup {None}]],
         \A i, j \in D : its[i].string = its[j].string => i = j,
         baseline \in [Classes -> Refs \cup {None}], Refresh(its)
  PROVE  /\ baseline' \in [Classes -> Refs \cup {None}]
         /\ (\A i \in D : its[i].string \in Classes \cup NoText) =>
              \A i \in D : its[i].string \in Classes => baseline'[its[i].string] = its[i].user_data
         /\ \A k \in Classes : baseline'[k] # None =>
              baseline[k] # None \/ \E i \in D : its[i].string = k
<1>1. DOMAIN its = D
  OBVIOUS
<1>2. PICK read \in SUBSET D :
        /\ Unreadable(its) = {} => read = D
        /\ baseline' = Refreshed(its, baseline, read)
  BY <1>1 DEF Refresh
<1>3. (\A i \in D : its[i].string \in Classes \cup NoText) => Unreadable(its) = {}
  BY <1>1 DEF Unreadable
<1> QED BY <1>2, <1>3, RefreshedIs

\* A table is not None, whatever it holds.
LEMMA TablesExist ==
  ASSUME NEW n \in 0..MaxItems,
         NEW its \in [0..(n - 1) -> [string : Keys, user_data : Refs \cup {None}]]
  PROVE  its # None
<1>1. its \in [0..(n - 1) -> Item]
  BY DEF Item
<1> QED BY <1>1, NoTableAssumption

\* parse_update reads an entry: what it does to the table, in terms of the key.
LEMMA EntryRead ==
  ASSUME HistoryInv, ItemsInv, NEW i \in 0..(MaxItems - 1), NEW key \in Keys,
         NEW with_key \in BOOLEAN, NEW data \in Data \cup {None},
         ReadEntry(i, key, with_key, data)
  PROVE  \E string \in Keys \cup {None} :
           /\ items' = Write(items, i, string, data)
           /\ i \in DOMAIN sent \/ string = key
<1>1. ASSUME NEW n \in 1..Len(list), list[n][1] = key[1]
      PROVE  <<history[HistoryIndex(n - 1)][1], key[2]>> = key
  <2>1. history[HistoryIndex(n - 1)][1] = key[1]
    BY <1>1, RingFromInv DEF RingIsList
  <2>2. key = <<key[1], key[2]>>
    BY TableAssumption
  <2> QED BY <2>1, <2>2
<1>2. i \notin DOMAIN sent => with_key
  BY DEF ReadEntry
<1>3. items' = Write(items, i, key, data) \/ (~with_key /\ items' = Write(items, i, None, data))
  BY <1>1 DEF ReadEntry
<1> QED BY <1>2, <1>3

LEMMA ReadKeeps ==
  ASSUME HistoryInv, ItemsInv, NEW i \in 0..(MaxItems - 1), NEW key \in Keys,
         NEW with_key \in BOOLEAN, NEW data \in Data \cup {None},
         ReadEntry(i, key, with_key, data)
  PROVE  ItemsInv'
<1> DEFINE D == DOMAIN sent
           old == i \in D /\ items[i].user_data # None
           ref == IF old THEN items[i].user_data
                  ELSE IF data = None THEN None ELSE Fresh(items, baseline)
<1>1. PICK n \in 0..MaxItems : D = 0..(n - 1) /\ sent \in [D -> SentItem] /\ Cardinality(D) = n
  BY SentSize DEF ItemsInv
<1>2. items # None /\ entry # None /\ entry < MaxEntries /\ entry' = entry + 1
  BY DEF ReadEntry, ItemsInv
<1>3. TableInv /\ SharedInv /\ DOMAIN items = D
  BY <1>2 DEF ItemsInv, TableInv
<1>4. i \in 0..n /\ i < MaxItems
  BY <1>1 DEF ReadEntry
<1>5. PICK m \in 0..MaxItems : D \cup {i} = 0..(m - 1)
  <2>1. CASE i \in D
    BY <1>1, <2>1
  <2>2. CASE i \notin D
    <3>1. i = n /\ n + 1 \in 0..MaxItems /\ D \cup {i} = 0..(n + 1 - 1)
      BY <1>1, <1>4, <2>2, TableAssumption
    <3> QED BY <3>1
  <2> QED BY <2>1, <2>2
<1>6. /\ DOMAIN sent' = D \cup {i}
      /\ sent'[i] = [key |-> key, data |-> IF data = None /\ i \in D THEN sent[i].data ELSE data]
      /\ \A j \in D : j # i => sent'[j] = sent[j]
      /\ IF i \in D THEN sent[i].key = key ELSE \A j \in D : sent[j].key # key
  BY DEF ReadEntry
<1>7. PICK string \in Keys \cup {None} :
        items' = Write(items, i, string, data) /\ (i \in D \/ string = key)
  BY EntryRead
<1>8. Fresh(items, baseline) \in Refs /\ Fresh(items, baseline) \notin Held(items, baseline)
  BY <1>2, FreshIsFresh
<1>9. /\ items' = [k \in D \cup {i} |-> items'[k]]
      /\ items'[i].string = key /\ items'[i].user_data = ref
      /\ items'[i] = [string |-> key, user_data |-> ref]
      /\ \A j \in D : j # i => items'[j] = items[j]
  <2>1. /\ items' = [k \in D \cup {i} |-> items'[k]]
        /\ \A j \in D : j # i => items'[j] = items[j]
        /\ items'[i] = IF old THEN items[i]
                       ELSE [string |-> IF i \in D THEN items[i].string ELSE string,
                             user_data |-> IF data = None THEN None ELSE Fresh(items, baseline)]
    BY <1>3, <1>7 DEF Write
  <2>2. i \in D => items[i].string = key /\ items[i] = [string |-> key, user_data |-> items[i].user_data]
    BY <1>3, <1>6 DEF TableInv
  <2>3. items'[i] = [string |-> key, user_data |-> ref]
    BY <1>7, <2>1, <2>2
  <2> QED BY <2>1, <2>3
<1>10. cells' = IF data = None THEN cells ELSE [cells EXCEPT ![ref] = data]
  BY <1>9 DEF ReadEntry
<1>11. /\ ref \in Refs \cup {None} /\ (data # None => ref \in Refs)
       /\ ref # None => \A j \in D : j # i => items[j].user_data # ref
  <2>1. old => ref \in Refs
    BY <1>3 DEF TableInv
  <2>2. \A j \in D : items[j].user_data \in Held(items, baseline)
    BY <1>3 DEF Held
  <2>3. old => \A j \in D : j # i => items[j].user_data # ref
    BY <1>3 DEF TableInv
  <2> QED BY <1>8, <2>1, <2>2, <2>3
<1>12. old => sent[i].data = cells[ref]
  BY <1>3 DEF TableInv
<1>13. i \in D /\ ~old => sent[i].data = None
  BY <1>3 DEF TableInv
<1> HIDE DEF ref, D
<1>14. SentInv(sent)'
  <2>1. sent' \in [0..(m - 1) -> SentItem]
    <3>1. sent' = [j \in D \cup {i} |-> sent'[j]]
      BY <1>6 DEF ReadEntry, D
    <3>2. \A j \in D \cup {i} : sent'[j] \in SentItem
      BY <1>1, <1>6 DEF SentItem
    <3> QED BY <1>5, <3>1, <3>2
  <2>2. \A j, k \in D : sent[j].key = sent[k].key => j = k
    BY DEF ItemsInv, SentInv, D
  <2>3. \A j, k \in D \cup {i} : sent'[j].key = sent'[k].key => j = k
    BY <1>6, <2>2
  <2> QED BY <1>6, <2>1, <2>3 DEF SentInv
<1>15. cells' \in [Refs -> Data]
  BY <1>10, <1>11 DEF ItemsInv
<1>16. TableInv'
  <2>1. items' \in [D \cup {i} -> [string : Keys, user_data : Refs \cup {None}]]
    BY <1>3, <1>9, <1>11 DEF TableInv, D
  <2>2. ASSUME NEW j \in D \cup {i}
        PROVE  /\ items'[j].string = sent'[j].key
               /\ sent'[j].data = IF items'[j].user_data = None THEN None
                                  ELSE cells'[items'[j].user_data]
    <3>1. CASE j = i
      <4>1. CASE data = None
        BY <1>6, <1>9, <1>10, <1>12, <1>13, <3>1, <4>1 DEF ref
      <4>2. CASE data # None
        <5>1. cells'[ref] = data /\ ref # None
          BY <1>10, <1>11, <4>2, TableAssumption DEF ItemsInv, Refs
        <5> QED BY <1>6, <1>9, <3>1, <4>2, <5>1
      <4> QED BY <4>1, <4>2
    <3>2. CASE j # i
      <4>1. /\ j \in D /\ items'[j] = items[j] /\ sent'[j] = sent[j]
        BY <1>6, <1>9, <3>2
      <4>2. /\ items[j].string = sent[j].key
            /\ sent[j].data = IF items[j].user_data = None THEN None ELSE cells[items[j].user_data]
        BY <1>3, <4>1 DEF TableInv, D
      <4>4. items[j].user_data \in Refs \cup {None}
        BY <1>3, <4>1 DEF TableInv, D
      <4>3. items[j].user_data # None => cells'[items[j].user_data] = cells[items[j].user_data]
        BY <1>10, <1>11, <3>2, <4>1, <4>4 DEF ItemsInv
      <4>5. CASE items[j].user_data = None
        BY <4>1, <4>2, <4>5
      <4>6. CASE items[j].user_data # None
        BY <4>1, <4>2, <4>3, <4>6
      <4> QED BY <4>5, <4>6
    <3> QED BY <3>1, <3>2
  <2>3. ASSUME NEW j \in D \cup {i}, NEW k \in D \cup {i},
               items'[j].user_data = items'[k].user_data, items'[j].user_data # None
        PROVE  j = k
    <3>1. CASE j # i /\ k # i
      BY <1>3, <1>9, <2>3, <3>1 DEF TableInv, D
    <3>2. CASE j = i \/ k = i
      BY <1>9, <1>11, <2>3, <3>2
    <3> QED BY <3>1, <3>2
  <2> QED BY <1>6, <2>1, <2>2, <2>3 DEF TableInv
<1>17. entry' \in 0..MaxEntries /\ entry' # None
  BY <1>2, TableAssumption DEF ItemsInv
<1>18. SharedInv'
  <2>1. baseline' = baseline
    BY DEF ReadEntry
  <2>2. ASSUME NEW k \in Classes, baseline[k] # None PROVE \E j \in D \cup {i} : sent'[j].key = k
    <3>1. PICK j \in D : sent[j].key = k
      BY <1>3, <2>2 DEF SharedInv, D
    <3> QED BY <1>6, <3>1
  <2> QED BY <1>6, <1>17, <2>1, <2>2 DEF SharedInv
<1>19. items' # None
  <2>1. items' \in [0..(m - 1) -> [string : Keys, user_data : Refs \cup {None}]]
    BY <1>5, <1>6, <1>16 DEF TableInv
  <2> QED BY <2>1, TablesExist
<1> QED BY <1>14, <1>15, <1>16, <1>17, <1>18, <1>19 DEF ItemsInv, ReadEntry

LEMMA LaterTablesAre ==
  ASSUME ItemsInv, NEW table \in LaterTables
  PROVE  \E m \in 0..MaxItems :
           /\ table \in [0..(m - 1) -> SentItem] /\ DOMAIN sent \subseteq 0..(m - 1)
           /\ \A i \in DOMAIN sent : table[i].key = sent[i].key
           /\ \A i, j \in DOMAIN table : table[i].key = table[j].key => i = j
<1>1. PICK n \in 0..MaxItems : DOMAIN sent = 0..(n - 1) /\ Cardinality(DOMAIN sent) = n
  BY SentSize DEF ItemsInv
<1>2. PICK m \in IF n < MaxItems THEN {n, n + 1} ELSE {n} :
        /\ table \in [0..(m - 1) -> SentItem]
        /\ \A i \in DOMAIN sent : table[i].key = sent[i].key
        /\ \A i, j \in DOMAIN table : i # j => table[i].key # table[j].key
  BY <1>1 DEF LaterTables, SentItem
<1>3. m \in 0..MaxItems /\ 0..(n - 1) \subseteq 0..(m - 1)
  BY TableAssumption
<1> QED BY <1>1, <1>2, <1>3

\* do_full_update and the update of the baseline after it.
LEMMA FullKeeps ==
  ASSUME ItemsInv, NEW table \in LaterTables, FullUpdate(table)
  PROVE  ItemsInv'
<1> DEFINE D == DOMAIN sent
           T == DOMAIN table
           unused == Refs \ Held(items, baseline)
           pool == CHOOSE p \in [T -> unused] : IsInjective(p)
           given == {i \in T : table[i].data # None}
<1>1. /\ entry = None /\ items # None /\ entity_classes
      /\ sent' = table /\ entry' = entry /\ entity_classes' = entity_classes
  BY DEF FullUpdate
<1>2. TableInv /\ SharedInv /\ DOMAIN items = D
  BY <1>1 DEF ItemsInv, TableInv
<1>3. PICK m \in 0..MaxItems :
        /\ T = 0..(m - 1) /\ table \in [T -> SentItem] /\ D \subseteq T
        /\ \A i \in D : table[i].key = sent[i].key
        /\ \A i, j \in T : table[i].key = table[j].key => i = j
  BY LaterTablesAre
<1>4. pool \in [T -> unused] /\ \A i, j \in T : pool[i] = pool[j] => i = j
  <2>1. \E p \in [T -> unused] : IsInjective(p)
    BY <1>1, <1>3, PoolIsThere
  <2>2. pool \in [T -> unused] /\ IsInjective(pool)
    BY <2>1
  <2> HIDE DEF pool, unused
  <2> QED BY <2>2 DEF IsInjective
<1>5. items' = WriteFull(items, table, pool)
  BY DEF FullUpdate
<1>6. cells' = [r \in Refs |-> IF \E i \in T : pool[i] = r /\ table[i].data # None
                              THEN table[CHOOSE i \in T : pool[i] = r].data ELSE cells[r]]
  BY DEF FullUpdate
<1>7. Refresh(items')
  BY DEF FullUpdate
<1> HIDE DEF pool
<1>8. /\ items' = [i \in T |-> items'[i]]
      /\ \A i \in T : items'[i] = [string    |-> table[i].key,
                                   user_data |-> IF table[i].data = None THEN None ELSE pool[i]]
  <2>1. D \cup T = T
    BY <1>3
  <2>2. \A i \in D : items[i].string = table[i].key
    BY <1>2, <1>3 DEF TableInv
  <2> QED BY <1>2, <1>5, <2>1, <2>2 DEF WriteFull
<1>9. \A i \in T : pool[i] \in Refs /\ pool[i] # None
  BY <1>4, TableAssumption DEF Refs
<1>10. ASSUME NEW i \in T, table[i].data # None PROVE cells'[pool[i]] = table[i].data
  <2>1. (CHOOSE j \in T : pool[j] = pool[i]) = i
    BY <1>4
  <2> QED BY <1>6, <1>9, <1>10, <2>1
<1>11. items' \in [T -> [string : Keys, user_data : Refs \cup {None}]]
  <2>1. \A i \in T : items'[i] \in [string : Keys, user_data : Refs \cup {None}]
    BY <1>3, <1>8, <1>9 DEF SentItem
  <2> QED BY <1>8, <2>1
<1>12. TableInv'
  <2>1. ASSUME NEW i \in T
        PROVE  /\ items'[i].string = table[i].key
               /\ table[i].data = IF items'[i].user_data = None THEN None
                                  ELSE cells'[items'[i].user_data]
    <3>1. CASE table[i].data = None
      BY <1>8, <3>1
    <3>2. CASE table[i].data # None
      BY <1>8, <1>9, <1>10, <3>2
    <3> QED BY <3>1, <3>2
  <2>2. ASSUME NEW i \in T, NEW j \in T,
               items'[i].user_data = items'[j].user_data, items'[i].user_data # None
        PROVE  i = j
    BY <1>4, <1>8, <2>2
  <2> QED BY <1>1, <1>11, <2>1, <2>2 DEF TableInv
<1>13. cells' \in [Refs -> Data]
  <2>1. ASSUME NEW r \in Refs PROVE cells'[r] \in Data
    <3>1. CASE \E i \in T : pool[i] = r /\ table[i].data # None
      <4>1. PICK i \in T : pool[i] = r /\ table[i].data # None
        BY <3>1
      <4> QED BY <1>3, <1>10, <4>1 DEF SentItem
    <3>2. CASE ~ \E i \in T : pool[i] = r /\ table[i].data # None
      BY <1>6, <3>2 DEF ItemsInv
    <3> QED BY <3>1, <3>2
  <2>2. cells' = [r \in Refs |-> cells'[r]]
    BY <1>6
  <2> QED BY <2>1, <2>2
<1>14. /\ baseline' \in [Classes -> Refs \cup {None}]
       /\ (\A i \in T : items'[i].string \in Classes \cup NoText) =>
            \A i \in T : items'[i].string \in Classes => baseline'[items'[i].string] = items'[i].user_data
       /\ \A k \in Classes : baseline'[k] # None =>
            baseline[k] # None \/ \E i \in T : items'[i].string = k
  <2>1. \A i, j \in T : items'[i].string = items'[j].string => i = j
    BY <1>3, <1>8
  <2>2. baseline \in [Classes -> Refs \cup {None}]
    BY DEF ItemsInv
  <2> QED BY <1>7, <1>11, <2>1, <2>2, RefreshIs
<1>15. SharedInv'
  <2>1. ASSUME NEW k \in Classes, baseline'[k] # None PROVE \E i \in T : table[i].key = k
    <3>1. CASE baseline[k] # None
      BY <1>2, <1>3, <3>1 DEF SharedInv
    <3>2. CASE \E i \in T : items'[i].string = k
      BY <1>8, <3>2
    <3> QED BY <1>14, <2>1, <3>1, <3>2
  <2>2. Readable(table) =>
          \A i \in T : table[i].key \in Classes => baseline'[table[i].key] = items'[i].user_data
    BY <1>8, <1>14 DEF Readable
  <2> QED BY <1>1, <2>1, <2>2 DEF SharedInv
<1>16. SentInv(sent)'
  BY <1>1, <1>3 DEF SentInv
<1>17. items' # None
  BY <1>3, <1>11, TablesExist
<1> QED BY <1>1, <1>12, <1>13, <1>14, <1>15, <1>16, <1>17 DEF ItemsInv

\* The handlers of SvcCreateStringTable and SvcUpdateStringTable end, or the classes come.
LEMMA RefreshKeeps ==
  ASSUME ItemsInv, items # None, entity_classes',
         Refresh(items), UNCHANGED <<sent, items, cells>>,
         entry' \in 0..MaxEntries \cup {None}, entity_classes' \in BOOLEAN
  PROVE  ItemsInv'
<1> DEFINE D == DOMAIN sent
<1>1. TableInv /\ SharedInv /\ SentInv(sent)
  BY DEF ItemsInv
<1>2. /\ items \in [D -> [string : Keys, user_data : Refs \cup {None}]]
      /\ \A i \in D : items[i].string = sent[i].key
      /\ \A i, j \in D : items[i].string = items[j].string => i = j
  BY <1>1 DEF TableInv, SentInv
<1>3. /\ baseline' \in [Classes -> Refs \cup {None}]
      /\ (\A i \in D : items[i].string \in Classes \cup NoText) =>
           \A i \in D : items[i].string \in Classes => baseline'[items[i].string] = items[i].user_data
      /\ \A k \in Classes : baseline'[k] # None =>
           baseline[k] # None \/ \E i \in D : items[i].string = k
  <2>1. baseline \in [Classes -> Refs \cup {None}]
    BY DEF ItemsInv
  <2> QED BY <1>2, <2>1, RefreshIs
<1>4. SharedInv'
  <2>1. \A k \in Classes : baseline'[k] # None => \E i \in D : sent[i].key = k
    BY <1>1, <1>2, <1>3 DEF SharedInv
  <2>2. Readable(sent) => \A i \in D : sent[i].key \in Classes => baseline'[sent[i].key] = items[i].user_data
    BY <1>2, <1>3 DEF Readable
  <2> QED BY <2>1, <2>2 DEF SharedInv
<1>5. TableInv'
  BY <1>1 DEF TableInv
<1>6. SentInv(sent)'
  BY <1>1 DEF SentInv
<1> QED BY <1>3, <1>4, <1>5, <1>6 DEF ItemsInv

LEMMA ItemsInit == Init => ItemsInv
<1> SUFFICES ASSUME Init PROVE ItemsInv
  OBVIOUS
<1>1. SentInv(sent)
  <2>1. sent \in [0..(0 - 1) -> SentItem] /\ 0 \in 0..MaxItems
    BY TableAssumption DEF Init
  <2>2. DOMAIN sent = {}
    BY DEF Init
  <2> QED BY <2>1, <2>2 DEF SentInv
<1>2. cells \in [Refs -> Data] /\ baseline \in [Classes -> Refs \cup {None}]
  BY TableAssumption DEF Init
<1> QED BY <1>1, <1>2 DEF Init, ItemsInv

LEMMA ItemsStep == HistoryInv /\ ItemsInv /\ [Next]_vars => ItemsInv'
<1> SUFFICES ASSUME HistoryInv, ItemsInv, [Next]_vars PROVE ItemsInv'
  OBVIOUS
<1>1. CASE CreateTable
  <2>1. /\ entry' = 0 /\ items' = <<>> /\ sent' = sent /\ sent = <<>>
        /\ cells' = cells /\ baseline' = baseline /\ baseline = [k \in Classes |-> None]
        /\ entity_classes' = entity_classes
    BY <1>1 DEF CreateTable, ItemsInv
  <2>2. DOMAIN sent = {} /\ items' \in [{} -> [string : Keys, user_data : Refs \cup {None}]]
    BY <2>1
  <2>3. TableInv' /\ SharedInv'
    BY <2>1, <2>2, TableAssumption DEF TableInv, SharedInv
  <2>4. SentInv(sent)'
    BY <2>1 DEF ItemsInv, SentInv
  <2>5. items' # None
    <3>1. 0 \in 0..MaxItems /\ 0..(0 - 1) = {}
      BY TableAssumption
    <3> QED BY <2>2, <3>1, TablesExist
  <2> QED BY <2>1, <2>3, <2>4, <2>5, TableAssumption DEF ItemsInv
<1>2. CASE UpdateTable
  <2>1. /\ entry' = 0 /\ 0 # None /\ items # None
        /\ UNCHANGED <<sent, items, cells, baseline, entity_classes>>
    BY <1>2, TableAssumption DEF UpdateTable
  <2>2. 0 \in 0..MaxEntries
    BY TableAssumption
  <2> QED BY <2>1, <2>2 DEF ItemsInv, SentInv, TableInv, SharedInv
<1>3. ASSUME NEW i \in 0..(MaxItems - 1), NEW key \in Keys, NEW with_key \in BOOLEAN,
             NEW data \in Data \cup {None}, ReadEntry(i, key, with_key, data)
      PROVE  ItemsInv'
  BY <1>3, ReadKeeps
<1>4. CASE EndUpdate
  <2>1. /\ entry' = None /\ items # None /\ UNCHANGED <<sent, items, cells, entity_classes>>
    BY <1>4 DEF EndUpdate, ItemsInv
  <2>2. CASE entity_classes
    <3>1. Refresh(items)
      BY <1>4, <2>2 DEF EndUpdate
    <3> QED BY <2>1, <2>2, <3>1, RefreshKeeps DEF ItemsInv
  <2>3. CASE ~entity_classes
    <3>1. baseline' = baseline
      BY <1>4, <2>3 DEF EndUpdate
    <3> QED BY <2>1, <2>3, <3>1 DEF ItemsInv, SentInv, TableInv, SharedInv
  <2> QED BY <2>2, <2>3
<1>5. ASSUME NEW table \in LaterTables, FullUpdate(table) PROVE ItemsInv'
  BY <1>5, FullKeeps
<1>6. CASE ClassInfo
  <2>1. entity_classes' = TRUE /\ UNCHANGED <<sent, items, cells, entry>>
    BY <1>6 DEF ClassInfo
  <2>2. CASE items # None
    <3>1. Refresh(items)
      BY <1>6, <2>2 DEF ClassInfo
    <3> QED BY <2>1, <2>2, <3>1, RefreshKeeps DEF ItemsInv
  <2>3. CASE items = None
    <3>1. baseline' = baseline
      BY <1>6, <2>3 DEF ClassInfo
    <3> QED BY <2>1, <2>3, <3>1 DEF ItemsInv, SentInv
  <2> QED BY <2>2, <2>3
<1>7. CASE Reset
  <2>1. SentInv(sent)'
    <3>1. sent' \in [0..(0 - 1) -> SentItem] /\ 0 \in 0..MaxItems /\ DOMAIN sent' = {}
      BY <1>7, TableAssumption DEF Reset
    <3> QED BY <3>1 DEF SentInv
  <2> QED BY <1>7, <2>1 DEF Reset, ItemsInv
<1>8. CASE UNCHANGED vars
  BY <1>8 DEF vars, tableVars, ItemsInv, SentInv, TableInv, SharedInv
<1> QED BY <1>1, <1>2, <1>3, <1>4, <1>5, <1>6, <1>7, <1>8 DEF Next

------------------------------------------------------------------------------
(***************************************************************************)
(* The theorems.                                                           *)
(***************************************************************************)
\* The counter of keys stays within the entries of the message.
CountInv ==
  /\ history_delta_index \in 0..MaxEntries
  /\ entry # None => history_delta_index <= entry

LEMMA CountStep == HistoryInv /\ ItemsInv /\ CountInv /\ [Next]_vars => CountInv'
<1> SUFFICES ASSUME HistoryInv, ItemsInv, CountInv, [Next]_vars PROVE CountInv'
  OBVIOUS
<1>1. CASE CreateTable \/ UpdateTable
  BY <1>1, TableAssumption DEF CreateTable, UpdateTable, HistoryReset, HistoryBegin, CountInv
<1>2. ASSUME NEW i \in 0..(MaxItems - 1), NEW key \in Keys, NEW with_key \in BOOLEAN,
             NEW data \in Data \cup {None}, ReadEntry(i, key, with_key, data)
      PROVE  CountInv'
  <2>1. /\ entry # None /\ entry < MaxEntries /\ entry' = entry + 1
        /\ history_delta_index' \in {history_delta_index, history_delta_index + 1}
    BY <1>2, ReadIsWritten DEF ReadEntry, HistoryAdd, historyVars
  <2>2. entry \in 0..MaxEntries /\ MaxEntries \in Nat
    BY <2>1, TableAssumption DEF ItemsInv
  <2> QED BY <2>1, <2>2 DEF CountInv
<1>3. CASE EndUpdate
  BY <1>3 DEF EndUpdate, historyVars, CountInv
<1>4. CASE UNCHANGED <<historyVars, entry>>
  BY <1>4 DEF historyVars, CountInv
<1> QED BY <1>1, <1>2, <1>3, <1>4 DEF Next, FullUpdate, ClassInfo, Reset, vars, tableVars

\* The ring, the items and the counter are what they should be, together
\* (StringTable::parse_update and do_full_update, stringtables.rs:132).
THEOREM ItemsInvariant == Spec => [](HistoryInv /\ ItemsInv /\ CountInv)
<1>1. Init => HistoryInv /\ ItemsInv /\ CountInv
  BY ItemsInit, HistoryAssumption, TableAssumption
     DEF Init, HistoryInit, EmptyRing, HistoryInv, CountInv
<1>2. HistoryInv /\ ItemsInv /\ CountInv /\ [Next]_vars => (HistoryInv /\ ItemsInv /\ CountInv)'
  BY StepHistory, ItemsStep, CountStep
<1> QED BY <1>1, <1>2, PTL DEF Spec

\* Table, ring and baseline stay within their types: there is always a reference to
\* take for a new user datum (parse_update, stringtables.rs:268).
THEOREM TypeCorrect == Spec => []TypeOK
<1>1. HistoryInv /\ ItemsInv /\ CountInv => TypeOK
  <2> SUFFICES ASSUME HistoryInv, ItemsInv, CountInv PROVE TypeOK
    OBVIOUS
  <2>1. ASSUME items # None
        PROVE  DOMAIN items \subseteq 0..(MaxItems - 1) /\ Range(items) \subseteq Item
    <3>1. items \in [DOMAIN sent -> [string : Keys, user_data : Refs \cup {None}]]
      BY <2>1 DEF ItemsInv, TableInv
    <3>2. PICK n \in 0..MaxItems : DOMAIN sent = 0..(n - 1)
      BY SentSize DEF ItemsInv
    <3>3. 0..(n - 1) \subseteq 0..(MaxItems - 1)
      BY TableAssumption
    <3>4. \A i \in DOMAIN items : items[i] \in Item
      BY <3>1 DEF Item
    <3> QED BY <3>1, <3>2, <3>3, <3>4 DEF Range
  <2>2. entry \in 0..MaxEntries \cup {None}
    BY DEF ItemsInv
  <2> QED BY <2>1, <2>2 DEF TypeOK, HistoryInv, ItemsInv, CountInv
<1> QED BY <1>1, ItemsInvariant, PTL

\* At every entry the table is the sender's: keys written as references come out right
\* and data written through a reference reach their item and no other
\* (StringTable::parse_update, stringtables.rs:257).
THEOREM ItemsCorrect == Spec => []ItemsAreSent
<1>1. ItemsInv => ItemsAreSent
  BY DEF ItemsInv, TableInv, ItemsAreSent
<1> QED BY <1>1, ItemsInvariant, PTL

\* Between messages every class's baseline is what the sender's table says, whether it
\* was written through the reference they share or the reference was replaced, as long as
\* no key is text and no class's (InstanceBaseline::update, instancebaseline.rs:16).
THEOREM BaselineCorrect == Spec => []BaselineIsTable
<1>1. ItemsInv => BaselineIsTable
  <2> SUFFICES ASSUME ItemsInv, entry = None, items # None, entity_classes, Readable(sent),
                      NEW i \in DOMAIN sent, sent[i].key \in Classes
               PROVE  by_id(sent[i].key) = sent[i].data
    BY DEF BaselineIsTable, Readable
  <2>1. baseline[sent[i].key] = items[i].user_data
    BY DEF ItemsInv, SharedInv
  <2>2. sent[i].data = IF items[i].user_data = None THEN None ELSE cells[items[i].user_data]
    BY DEF ItemsInv, TableInv
  <2> QED BY <2>1, <2>2 DEF by_id
<1> QED BY <1>1, ItemsInvariant, PTL
=============================================================================
