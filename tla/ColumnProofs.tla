----------------------------- MODULE ColumnProofs -----------------------------
(***************************************************************************)
(* Proofs about an index, and about a column and its cursor.               *)
(*                                                                         *)
(* Of Index, for columns of any length and any batch size: what the index  *)
(* answers without reading a row agrees with the rows.                     *)
(*                                                                         *)
(* Of IndexedColumn: the buffer has room for what is in it, a batch is     *)
(* what was put, the cursor counts what it passes, and building the index  *)
(* over the cursor builds the index of the values put, so that what is     *)
(* proved of Index holds of the column as it is stored.                    *)
(***************************************************************************)
EXTENDS IndexedColumn, SequenceLemmas

------------------------------------------------------------------------------
(* The index *)

\* The loop invariant of cx_index_new: the bounds hold of every value gone
\* through so far, NaN aside, while count is ahead by at most the batch being
\* gone through.
Bounded == /\ TypeOK
           /\ scanned <= count /\ count <= Len(column)
           /\ pc = "put" => count = 0
           /\ pc = "done" => scanned = Len(column)
           /\ \A i \in 1..scanned :
                  column[i] # NaN => min <= column[i] /\ column[i] <= max

\* No step of cx_index_new breaks its loop invariant.
THEOREM BoundedIsInductive == Bounded /\ [Next]_vars => Bounded'
<1> SUFFICES ASSUME Bounded, [Next]_vars PROVE Bounded'
  OBVIOUS
<1> USE IndexAssumption DEF Bounded, TypeOK
<1>1. ASSUME NEW v \in Values, Put(v) PROVE Bounded'
  BY <1>1 DEF Put
<1>2. CASE New
  BY <1>2 DEF New
<1>3. CASE NextBatch
  BY <1>3 DEF NextBatch
<1>4. CASE Update
  <2>1. scanned + 1 \in 1..Len(column) /\ scanned' = scanned + 1
        /\ UNCHANGED <<column, pc, count>>
    BY <1>4 DEF Update
  <2>2. PICK value \in Values : value = column[scanned + 1]
    BY <2>1
  <2>3. /\ max' = IF Below(max, value) THEN value ELSE max
        /\ min' = IF Below(value, min) THEN value ELSE min
    BY <1>4, <2>2 DEF Update, Take
  <2>4. CASE value = NaN
    <3>1. min' = min /\ max' = max
      BY <2>3, <2>4 DEF Below
    <3>2. ASSUME NEW i \in 1..scanned', column'[i] # NaN
          PROVE  i \in 1..scanned /\ column'[i] = column[i]
      <4>1. i # scanned + 1
        BY <2>1, <2>2, <2>4, <3>2
      <4>2. QED BY <2>1, <4>1
    <3>3. QED BY <1>4, <2>1, <3>1, <3>2 DEF Update
  <2>5. CASE value # NaN
    <3>1. /\ value \in Int /\ min # NaN /\ max # NaN
      BY <2>5
    <3>2. /\ min' \in Int /\ min' <= min /\ min' <= value
          /\ max' \in Int /\ max <= max' /\ value <= max'
      BY <2>3, <3>1, <2>5 DEF Below
    <3>3. ASSUME NEW i \in 1..scanned', column'[i] # NaN
          PROVE  min' <= column'[i] /\ column'[i] <= max'
      <4>1. CASE i = scanned + 1
        BY <2>1, <2>2, <3>2, <4>1
      <4>2. CASE i \in 1..scanned
        <5>1. column[i] \in Int
          BY <2>1, <3>3, <4>2
        <5>2. QED BY <2>1, <3>2, <3>3, <4>2, <5>1
      <4>3. QED BY <2>1, <4>1, <4>2
    <3>4. QED BY <1>4, <2>1, <3>2, <3>3 DEF Update
  <2>6. QED BY <2>4, <2>5
<1>5. CASE Built
  BY <1>5 DEF Built
<1>6. CASE Discard
  BY <1>6 DEF Discard
<1>7. CASE UNCHANGED vars
  BY <1>7 DEF vars
<1>8. QED BY <1>1, <1>2, <1>3, <1>4, <1>5, <1>6, <1>7 DEF Next, Done

\* The bounds kept in the index hold of every value gone through.
THEOREM AlwaysBounded == Spec => []Bounded
<1>1. Init => Bounded
  BY IndexAssumption DEF Init, Bounded, TypeOK
<1>2. QED BY <1>1, BoundedIsInductive, PTL DEF Spec

\* Every variable keeps its type.
THEOREM TypeCorrect == Spec => []TypeOK
<1>1. Bounded => TypeOK
  BY DEF Bounded
<1>2. QED BY <1>1, AlwaysBounded, PTL

\* What the bounds of a finished index say of each row.
LEMMA RowsAreBounded ==
    ASSUME Bounded, pc = "done", NEW i \in DOMAIN column
    PROVE  /\ column[i] \in Values
           /\ column[i] # NaN => /\ column[i] \in Int
                                 /\ min <= column[i] /\ column[i] <= max
  BY IndexAssumption DEF Bounded, TypeOK

\* A row group that its index skips has no row that matches, whatever the type
\* of the column, NaN among its values included.
THEOREM SkippingIsSound == Spec => []SkippedGroupsHaveNoMatch
<1>1. Bounded => SkippedGroupsHaveNoMatch
  <2> SUFFICES ASSUME Bounded, pc = "done", NEW v \in Values, NEW i \in DOMAIN column
               PROVE  /\ MatchEq(TheIndex, v) = NONE => ~Equal(column[i], v)
                      /\ MatchLt(TheIndex, v) = NONE => ~Below(column[i], v)
                      /\ MatchGt(TheIndex, v) = NONE => ~Below(v, column[i])
    BY DEF SkippedGroupsHaveNoMatch, Rows
  <2>1. /\ min \in Int /\ max \in Int /\ NaN \notin Int /\ (v = NaN \/ v \in Int)
    BY IndexAssumption DEF Bounded, TypeOK
  <2>2. column[i] # NaN => /\ column[i] \in Int
                           /\ min <= column[i] /\ column[i] <= max
    BY RowsAreBounded
  <2>3. QED
    BY <2>1, <2>2 DEF MatchEq, MatchLt, MatchGt, NONE, ALL, UNKNOWN, Equal, Below, TheIndex
<1>2. QED BY <1>1, AlwaysBounded, PTL

\* Of a column without NaN, every verdict is sound, "all rows match" included.
THEOREM NumericVerdicts == Spec => []NumericVerdictsAreSound
<1>1. Bounded => NumericVerdictsAreSound
  <2> SUFFICES ASSUME Bounded, ColumnOf(Values \ {NaN}), pc = "done",
                      NEW v \in Values, NEW i \in DOMAIN column
               PROVE  /\ MatchEq(TheIndex, v) = NONE => ~Equal(column[i], v)
                      /\ MatchLt(TheIndex, v) = NONE => ~Below(column[i], v)
                      /\ MatchGt(TheIndex, v) = NONE => ~Below(v, column[i])
                      /\ MatchEq(TheIndex, v) = ALL => Equal(column[i], v)
                      /\ MatchLt(TheIndex, v) = ALL => Below(column[i], v)
                      /\ MatchGt(TheIndex, v) = ALL => Below(v, column[i])
    BY DEF NumericVerdictsAreSound, VerdictsAreSound, Sound, Rows
  <2>1. /\ min \in Int /\ max \in Int /\ NaN \notin Int /\ (v = NaN \/ v \in Int)
    BY IndexAssumption DEF Bounded, TypeOK
  <2>2. column[i] # NaN
    BY DEF ColumnOf
  <2>3. column[i] \in Int /\ min <= column[i] /\ column[i] <= max
    BY <2>2, RowsAreBounded
  <2>4. QED
    BY <2>1, <2>2, <2>3
       DEF MatchEq, MatchLt, MatchGt, NONE, ALL, UNKNOWN, Equal, Below, TheIndex
<1>2. QED BY <1>1, AlwaysBounded, PTL

\* The verdicts on a column of bits are sound.
THEOREM BitVerdicts == Spec => []BitVerdictsAreSound
<1>1. Bounded => BitVerdictsAreSound
  <2> SUFFICES ASSUME Bounded, pc = "done", ColumnOf({0, 1})
               PROVE  BitVerdictsAreSound
    BY DEF BitVerdictsAreSound
  <2>1. count = Len(column)
    BY DEF Bounded, TypeOK
  <2>2. ASSUME NEW v \in {0, 1}, NEW i \in DOMAIN column
        PROVE  /\ MatchBitEq(TheIndex, v) = NONE => column[i] # v
               /\ MatchBitEq(TheIndex, v) = ALL => column[i] = v
    <3>1. column[i] \in {0, 1}
      BY DEF ColumnOf
    <3>2. min <= column[i] /\ column[i] <= max
      BY <3>1, RowsAreBounded, IndexAssumption
    <3>3. min \in Int /\ max \in Int
      BY DEF Bounded, TypeOK
    <3>4. QED BY <3>1, <3>2, <3>3 DEF MatchBitEq, NONE, ALL, UNKNOWN, TheIndex
  <2>3. QED BY <2>1, <2>2 DEF BitVerdictsAreSound, Sound, Rows
<1>2. QED BY <1>1, AlwaysBounded, PTL

\* The verdicts on the lengths of strings are sound.
THEOREM LengthVerdicts == Spec => []LengthVerdictsAreSound
<1>1. Bounded => LengthVerdictsAreSound
  <2> SUFFICES ASSUME Bounded, pc = "done", ColumnOf(Nat),
                      NEW length \in Values \cap Nat, NEW i \in DOMAIN column
               PROVE  /\ MatchStrEq(TheIndex, length) # ALL
                      /\ MatchStrContains(TheIndex, length) # ALL
                      /\ MatchStrEq(TheIndex, length) = NONE => column[i] # length
                      /\ MatchStrContains(TheIndex, length) = NONE => ~(column[i] >= length)
    BY DEF LengthVerdictsAreSound, Sound, Rows
  <2>1. min \in Int /\ max \in Int /\ length \in Int
    BY DEF Bounded, TypeOK
  <2>2. column[i] \in Nat
    BY DEF ColumnOf
  <2>3. min <= column[i] /\ column[i] <= max
    BY <2>2, RowsAreBounded, IndexAssumption
  <2>4. QED
    BY <2>1, <2>2, <2>3 DEF MatchStrEq, MatchStrContains, NONE, ALL, UNKNOWN, TheIndex
<1>2. QED BY <1>1, AlwaysBounded, PTL

------------------------------------------------------------------------------
(* Arithmetic *)

\* A number below the place where sizes wrap round is not changed by wrapping.
LEMMA NoWrap ==
    ASSUME NEW w \in Nat \ {0}, NEW x \in Nat, x < w
    PROVE  x % w = x
OBVIOUS

\* Wrapped round, a number is below that place.
LEMMA Wrapped ==
    ASSUME NEW w \in Nat \ {0}, NEW x \in Int
    PROVE  x % w \in 0..(w - 1)
OBVIOUS

\* One more word.
LEMMA OneMoreWord ==
    ASSUME NEW w \in Nat, NEW n \in Int
    PROVE  /\ n * w \in Int
           /\ (n + 1) * w = n * w + w
           /\ (n - 1) * w = n * w - w
OBVIOUS

\* Fewer words hold fewer bits.
LEMMA WordsInOrder ==
    ASSUME NEW w \in Nat, NEW m \in Nat, NEW n \in Nat, m <= n
    PROVE  m * w <= n * w /\ m * w \in Nat /\ n * w \in Nat
OBVIOUS

\* What the last word holds is what is left of the bits: so n words hold c.
LEMMA LastWord ==
    ASSUME NEW w \in Nat \ {0}, NEW n \in Nat, NEW c \in Nat,
           n * w - w < c, c <= n * w
    PROVE  /\ c % w = 0 => c = n * w
           /\ c % w # 0 => c % w = c - (n * w - w) /\ c < n * w
<1>1. PICK q, r : /\ q = c \div w /\ r = c % w
                  /\ q \in Nat /\ r \in Nat /\ r < w /\ c = q * w + r
    <2>1. /\ c \div w \in Nat /\ c % w \in Nat /\ c % w < w
          /\ c = (c \div w) * w + (c % w)
        OBVIOUS
    <2> QED BY <2>1
<1>2. q <= n
    <2> SUFFICES ASSUME n + 1 <= q PROVE FALSE
        BY <1>1
    <2>1. (n + 1) * w <= q * w /\ (n + 1) * w = n * w + w
        BY <1>1, WordsInOrder, OneMoreWord
    <2> QED BY <1>1, <2>1, OneMoreWord
<1>3. q + 1 >= n
    <2> SUFFICES ASSUME q + 2 <= n PROVE FALSE
        BY <1>1
    <2>1. (q + 2) * w <= n * w /\ (q + 2) * w = q * w + w + w
        BY <1>1, WordsInOrder
    <2> QED BY <1>1, <2>1, OneMoreWord
<1>4. CASE q = n
    <2>1. q * w = n * w /\ n * w \in Nat
        BY <1>4, WordsInOrder
    <2>2. r = 0
        BY <1>1, <2>1
    <2> QED BY <1>1, <2>1, <2>2
<1>5. CASE q = n - 1
    <2>1. q * w = n * w - w /\ n * w \in Nat
        BY <1>5, OneMoreWord, WordsInOrder
    <2>2. r = c - (n * w - w) /\ r # 0 /\ c < n * w
        BY <1>1, <2>1
    <2> QED BY <1>1, <2>2
<1> QED BY <1>1, <1>2, <1>3, <1>4, <1>5

------------------------------------------------------------------------------
(* The invariant *)

\* How many values a slot of a column of type t has.
Per(t) == IF t = "bit" THEN Word ELSE 1

\* The bits of word j: those of the values c that fall into it.
Bits(c, j) == { k \in 0..(Word - 1) : /\ (j - 1) * Word + k < Len(c)
                                      /\ c[(j - 1) * Word + k + 1] = 1 }

\* The slots hold the values c, and no slot is without one.
Holds(t, c, slots) ==
    IF t = "bit"
    THEN /\ Len(slots) * Word - Word < Len(c)
         /\ Len(c) <= Len(slots) * Word
         /\ \A j \in 1..Len(slots) : slots[j] = Bits(c, j)
    ELSE slots = c

\* The units that slots take.
Sizes(t, slots) ==
    [i \in DOMAIN slots |-> IF t = "str" THEN slots[i] + 1 ELSE 1]

Used(t, slots) == Total(Sizes(t, slots))

IndexInv ==
    /\ type \in Types
    /\ column \in Seq(ValuesOf(type)) /\ Len(column) <= MaxRows
    /\ pc \in {"put", "scan", "done"}
    /\ scanned \in Nat /\ count \in Nat
    /\ pc = "put" => scanned = 0 /\ count = 0
    /\ pc = "done" => count = Len(column)

\* A column with all that was put.
Columns(t) == [slots : Seq(Slots(t)), count : Nat, offset : Nat, size : Nat,
               mmapped : BOOLEAN]

IsColumn(t, c, s) == /\ s \in Columns(t)
                     /\ Holds(t, c, s.slots)
                     /\ s.count = Len(c)
                     /\ s.offset = Used(t, s.slots)
                     /\ s.offset <= s.size

\* The column is in memory until it is written, with room that can be doubled,
\* and again when it has been opened.
StoredInv ==
    /\ page = None => ~stored.mmapped /\ stored.size > 0
    /\ page = None \/ stored # None => IsColumn(type, column, stored)

Pages(t) == [slots : Seq(Slots(t)), compressed : BOOLEAN, size : Nat]

\* It is written once it is indexed.
PageInv ==
    page # None => /\ pc = "done"
                   /\ page \in Pages(type)
                   /\ Holds(type, column, page.slots)
                   /\ page.size = Used(type, page.slots)

\* A batch that was made in a column that holds c.
BatchHolds(t, c, b) ==
    LET from == b.first * Per(t)
        values == SubSeq(c, from + 1, Min({from + Word, Len(c)}))
    IN /\ b.available = Len(values)
       /\ b.slots =
              IF t = "bit"
              THEN << { k \in 0..(Len(values) - 1) : values[k + 1] = 1 } >>
              ELSE values

\* The values that lie before a place in the column.
Before(t, c, slots) == Min({slots * Per(t), Len(c)})

\* They are what the cursor has answered.
Counted == \/ passed = Before(type, column, position)
           \/ late /\ type = "bit" /\ Len(column) % Word # 0

CursorInv ==
    /\ passed \in 0..(Wrap - 1) /\ late \in BOOLEAN
    /\ IF page = None THEN pc # "scan" => position = None /\ batch = None
       ELSE stored = None => position = None /\ batch = None
    /\ position # None => position \in 0..Len(stored.slots) /\ Counted
    /\ batch # None => /\ batch.first \in Nat
                       /\ batch.first < Len(stored.slots) =>
                              BatchHolds(type, column, batch)

\* While cx_index_new runs its cursor has just handed out what is counted.
ScanInv ==
    pc = "scan" =>
        /\ position \in 0..Len(stored.slots) /\ Counted /\ ~late
        /\ count = Before(type, column, position) /\ scanned <= count
        /\ scanned < count =>
               /\ batch.first \in Nat /\ batch.first < Len(stored.slots)
               /\ batch.first * PerSlot <= scanned
               /\ count = batch.first * PerSlot + batch.available
               /\ BatchHolds(type, column, batch)

Inv == IndexInv /\ StoredInv /\ PageInv /\ CursorInv /\ ScanInv

------------------------------------------------------------------------------
(* The buffer *)

\* The function that Resized defines by recursion, up to n.
Doubles(f, size, n) ==
    f = [k \in 0..n |-> IF k = 0 THEN size ELSE 2 * f[k - 1]]

\* Its value at each place.
LEMMA DoublesAt ==
    ASSUME NEW f, NEW size, NEW n, Doubles(f, size, n), NEW i \in 0..n
    PROVE  f[i] = IF i = 0 THEN size ELSE 2 * f[i - 1]
<1> DEFINE g == [j \in 0..n |-> IF j = 0 THEN size ELSE 2 * f[j - 1]]
<1>1. f = g
    BY DEF Doubles
<1>2. g[i] = IF i = 0 THEN size ELSE 2 * f[i - 1]
    OBVIOUS
<1> QED
    BY ONLY <1>1, <1>2, Zenon

\* There is such a function.
LEMMA DoublesExist ==
    ASSUME NEW size, NEW n \in Nat
    PROVE  \E f : Doubles(f, size, n)
<1> DEFINE X == {m \in Nat : \E f : Doubles(f, size, m)}
<1>1. 0 \in X
    <2> DEFINE g == [i \in 0..0 |-> size]
    <2>1. g = [i \in 0..0 |-> IF i = 0 THEN size ELSE 2 * g[i - 1]]
        OBVIOUS
    <2> HIDE DEF g
    <2>2. Doubles(g, size, 0)
        BY <2>1 DEF Doubles
    <2> QED BY <2>2
<1>2. ASSUME NEW m \in Nat, m \in X PROVE m + 1 \in X
    <2>1. PICK f : Doubles(f, size, m)
        BY <1>2
    <2> DEFINE g == [i \in 0..(m + 1) |-> IF i = m + 1 THEN 2 * f[m] ELSE f[i]]
    <2>2. ASSUME NEW i \in 0..(m + 1)
          PROVE  g[i] = IF i = 0 THEN size ELSE 2 * g[i - 1]
        <3>1. CASE i = m + 1
            <4>1. i # 0 /\ i - 1 = m /\ m # m + 1 /\ m \in 0..(m + 1)
                BY <3>1
            <4>2. g[i - 1] = f[m]
                BY <4>1
            <4> QED BY <3>1, <4>1, <4>2
        <3>2. CASE i # m + 1
            <4>1. i \in 0..m
                BY <3>2
            <4>2. f[i] = IF i = 0 THEN size ELSE 2 * f[i - 1]
                BY <2>1, <4>1, DoublesAt
            <4>3. g[i] = f[i] /\ (i # 0 => g[i - 1] = f[i - 1])
                BY <3>2, <4>1
            <4> QED BY <4>2, <4>3
        <3> QED BY <3>1, <3>2
    <2>3. Doubles(g, size, m + 1)
        <3>1. g = [i \in 0..(m + 1) |-> g[i]]
            OBVIOUS
        <3> HIDE DEF g
        <3> QED BY <2>2, <3>1 DEF Doubles
    <2> QED BY <2>3
<1> HIDE DEF X
<1>3. n \in X
    BY <1>1, <1>2, NatInductive
<1> QED BY <1>3 DEF X

\* A size that is not zero, doubled often enough, is large enough.
LEMMA DoublesGrow ==
    ASSUME NEW size \in Nat \ {0}, NEW n \in Nat, NEW f, Doubles(f, size, n)
    PROVE  \A k \in 0..n : f[k] \in Nat /\ f[k] > k
<1> DEFINE X == {m \in Nat : m \in 0..n => f[m] \in Nat /\ f[m] > m}
<1>1. 0 \in X
    <2>1. f[0] = size
        BY DoublesAt
    <2> QED BY <2>1
<1>2. ASSUME NEW m \in Nat, m \in X PROVE m + 1 \in X
    <2> SUFFICES ASSUME m + 1 \in 0..n
                 PROVE  f[m + 1] \in Nat /\ f[m + 1] > m + 1
        OBVIOUS
    <2>1. m + 1 - 1 = m /\ m + 1 # 0 /\ m \in 0..n
        OBVIOUS
    <2>2. f[m + 1] = 2 * f[m]
        BY <2>1, DoublesAt
    <2> QED BY <1>2, <2>1, <2>2
<1> HIDE DEF X
<1>3. Nat \subseteq X
    BY <1>1, <1>2, NatInductive
<1> QED BY <1>3 DEF X

\* A resized buffer has room for n more units and the spare.
LEMMA ResizedIsEnough ==
    ASSUME stored.offset \in Nat, stored.size \in Nat \ {0}, NEW n \in Nat
    PROVE  Resized(n) \in Nat /\ Resized(n) >= stored.offset + n + OverAlloc
<1> DEFINE required == stored.offset + n + OverAlloc
           f == CHOOSE f : Doubles(f, stored.size, required)
           enough == {s \in Range(f) : s >= required}
<1>1. required \in Nat
    BY ColumnAssumption
<1>2. Doubles(f, stored.size, required)
    BY <1>1, DoublesExist
<1>3. DOMAIN f = 0..required
    <2> HIDE DEF f, required
    <2> QED BY <1>2 DEF Doubles
<1>4. Resized(n) = Min(enough)
    BY DEF Resized, Doubles
<1> HIDE DEF f
<1>5. \A k \in 0..required : f[k] \in Nat /\ f[k] > k
    BY <1>1, <1>2, DoublesGrow
<1> HIDE DEF required
<1>6. enough \in SUBSET Nat /\ enough # {}
    <2>1. required \in 0..required /\ f[required] >= required /\ f[required] \in Nat
        BY <1>1, <1>5
    <2> QED BY <1>3, <1>5, <2>1 DEF Range
<1>7. Min(enough) \in enough
    BY <1>6, MinExists
<1> QED BY <1>4, <1>6, <1>7 DEF required
------------------------------------------------------------------------------
(* What the slots hold *)

\* What the three types of column are.
LEMMA TypesAre ==
    ASSUME NEW t \in Types
    PROVE  /\ t \in {"bit", "fixed", "str"}
           /\ t = "bit" => ValuesOf(t) = Values \cap {0, 1}
           /\ t = "fixed" => ValuesOf(t) = Values
           /\ t = "str" => ValuesOf(t) = Values \cap Nat
           /\ ValuesOf(t) \subseteq Values
           /\ Word \in Nat \ {0} /\ BatchSize = Word /\ Per(t) \in Nat \ {0}
BY IndexedColumnAssumption, ColumnAssumption DEF ValuesOf, Per

\* No slots hold no values.
LEMMA NoneHeld ==
    ASSUME NEW t \in Types
    PROVE  Holds(t, <<>>, <<>>) /\ Used(t, <<>>) = 0
<1>1. Holds(t, <<>>, <<>>)
    BY ColumnAssumption DEF Holds
<1>2. Sizes(t, <<>>) = <<>>
    BY DEF Sizes
<1> QED BY <1>1, <1>2, TotalOfNone DEF Used

\* The sizes of slots are numbers.
LEMMA SizesType ==
    ASSUME NEW t \in Types, NEW slots \in Seq(Slots(t))
    PROVE  Sizes(t, slots) \in Seq(Nat) /\ Len(Sizes(t, slots)) = Len(slots)
<1>1. \A i \in 1..Len(slots) : (IF t = "str" THEN slots[i] + 1 ELSE 1) \in Nat
    BY TypesAre DEF Slots
<1>2. Sizes(t, slots) \in [1..Len(slots) -> Nat]
    BY <1>1 DEF Sizes
<1> QED BY <1>2

\* One more slot takes its size.
LEMMA UsedAppend ==
    ASSUME NEW t \in Types, NEW slots \in Seq(Slots(t)), NEW slot \in Slots(t),
           NEW n, n = IF t = "str" THEN slot + 1 ELSE 1
    PROVE  n \in Nat /\ Used(t, Append(slots, slot)) = Used(t, slots) + n
<1>1. n \in Nat
    BY TypesAre DEF Slots
<1>2. Sizes(t, Append(slots, slot)) = Append(Sizes(t, slots), n)
    <2>1. /\ Append(slots, slot) \in Seq(Slots(t))
          /\ Len(Append(slots, slot)) = Len(slots) + 1
          /\ \A i \in 1..Len(slots) : Append(slots, slot)[i] = slots[i]
          /\ Append(slots, slot)[Len(slots) + 1] = slot
        BY AppendProperties
    <2>2. /\ Sizes(t, slots) \in Seq(Nat) /\ Len(Sizes(t, slots)) = Len(slots)
          /\ Sizes(t, Append(slots, slot)) \in Seq(Nat)
          /\ Len(Sizes(t, Append(slots, slot))) = Len(slots) + 1
        BY <2>1, SizesType
    <2>3. /\ Append(Sizes(t, slots), n) \in Seq(Nat)
          /\ Len(Append(Sizes(t, slots), n)) = Len(slots) + 1
        BY <1>1, <2>2
    <2>4. ASSUME NEW i \in 1..(Len(slots) + 1)
          PROVE  Sizes(t, Append(slots, slot))[i] = Append(Sizes(t, slots), n)[i]
        <3>1. Sizes(t, Append(slots, slot))[i] =
                  IF t = "str" THEN Append(slots, slot)[i] + 1 ELSE 1
            BY <2>1 DEF Sizes
        <3>2. CASE i = Len(slots) + 1
            BY <1>1, <2>1, <2>2, <3>1, <3>2
        <3>3. CASE i # Len(slots) + 1
            <4>1. i \in 1..Len(slots)
                BY <3>3
            <4>2. Append(Sizes(t, slots), n)[i] = Sizes(t, slots)[i]
                BY <1>1, <2>2, <4>1, AppendProperties
            <4>3. Sizes(t, slots)[i] = IF t = "str" THEN slots[i] + 1 ELSE 1
                BY <4>1 DEF Sizes
            <4> QED BY <2>1, <3>1, <4>1, <4>2, <4>3
        <3> QED BY <3>2, <3>3
    <2> QED BY <2>2, <2>3, <2>4, SeqEqual
<1>3. Total(Append(Sizes(t, slots), n)) = Total(Sizes(t, slots)) + n
    BY <1>1, SizesType, TotalAppend
<1> QED BY <1>1, <1>2, <1>3 DEF Used

\* Words take one unit each, whatever their bits.
LEMMA UsedByWords ==
    ASSUME NEW t, t # "str", NEW s \in Seq(SUBSET (0..(Word - 1))),
           NEW r \in Seq(SUBSET (0..(Word - 1))), Len(s) = Len(r)
    PROVE  Used(t, s) = Used(t, r)
<1>1. DOMAIN s = DOMAIN r
    OBVIOUS
<1>2. Sizes(t, s) = Sizes(t, r)
    BY <1>1 DEF Sizes
<1> QED BY <1>2 DEF Used

\* A full word keeps its bits when a value is put.
LEMMA BitsKept ==
    ASSUME NEW S, NEW c \in Seq(S), NEW v \in S, NEW j \in Nat \ {0},
           j * Word <= Len(c)
    PROVE  Bits(Append(c, v), j) = Bits(c, j)
<1>1. PICK b \in Int : /\ b = (j - 1) * Word /\ b + Word = j * Word
                       /\ Word \in Nat \ {0} /\ b >= 0
    <2>1. (j - 1) * Word = j * Word - Word /\ j * Word \in Int
        BY ColumnAssumption, OneMoreWord
    <2>2. (j - 1) * Word >= 0
        BY ColumnAssumption, WordsInOrder
    <2> QED BY <2>1, <2>2, ColumnAssumption
<1>2. \A k \in 0..(Word - 1) : /\ b + k < Len(c) /\ b + k < Len(Append(c, v))
                               /\ Append(c, v)[b + k + 1] = c[b + k + 1]
    BY <1>1
<1> QED BY <1>1, <1>2 DEF Bits

\* The word that a value is put in has its bit, when it is one, as well.
LEMMA BitPut ==
    ASSUME NEW S, NEW c \in Seq(S), NEW v \in S, NEW j \in Nat \ {0}, NEW b \in Nat,
           b = (j - 1) * Word, b <= Len(c), Len(c) < b + Word
    PROVE  Bits(Append(c, v), j) =
               Bits(c, j) \cup (IF v = 1 THEN {Len(c) - b} ELSE {})
<1>1. /\ Word \in Nat \ {0}
      /\ Append(c, v)[Len(c) + 1] = v /\ Len(Append(c, v)) = Len(c) + 1
      /\ \A i \in 1..Len(c) : Append(c, v)[i] = c[i]
    BY ColumnAssumption
<1>2. ASSUME NEW k \in 0..(Word - 1)
      PROVE  /\ b + k < Len(c) => /\ k # Len(c) - b
                                  /\ Append(c, v)[b + k + 1] = c[b + k + 1]
             /\ b + k = Len(c) => /\ k = Len(c) - b
                                  /\ Append(c, v)[b + k + 1] = v
             /\ b + k > Len(c) => k # Len(c) - b
             /\ b + k < Len(Append(c, v)) <=> b + k < Len(c) \/ b + k = Len(c)
    BY <1>1
<1>3. Len(c) - b \in 0..(Word - 1)
    BY <1>1
<1> QED BY <1>1, <1>2, <1>3 DEF Bits

\* A value that has a slot of its own is held once it is put.
LEMMA NumberPut ==
    ASSUME NEW t \in Types, t # "bit", NEW c, NEW slots, NEW v \in ValuesOf(t),
           Holds(t, c, slots)
    PROVE  v \in Slots(t) /\ Holds(t, Append(c, v), Append(slots, v))
BY DEF Slots, Holds

\* A bit that starts a word is held once it is put.
LEMMA WordPut ==
    ASSUME NEW t \in Types, t = "bit", NEW S, NEW c \in Seq(S), NEW v \in S,
           NEW slots \in Seq(Slots(t)), Holds(t, c, slots), Len(c) % Word = 0,
           NEW w, w = IF v = 1 THEN {0} ELSE {}
    PROVE  w \in Slots(t) /\ Holds(t, Append(c, v), Append(slots, w))
<1>1. w \in Slots(t)
    BY ColumnAssumption DEF Slots
<1>2. PICK n \in Nat, b \in Int : n = Len(slots) /\ b = n * Word
    <2>1. Len(slots) \in Nat /\ Len(slots) * Word \in Int
        BY ColumnAssumption, OneMoreWord
    <2> QED BY <2>1
<1>3. /\ Word \in Nat \ {0} /\ Len(c) \in Nat /\ b - Word < Len(c) /\ Len(c) <= b
      /\ \A j \in 1..n : slots[j] = Bits(c, j)
    BY <1>2, ColumnAssumption DEF Holds
<1>4. Len(c) = b
    BY <1>2, <1>3, LastWord
<1>5. /\ Len(Append(slots, w)) = n + 1 /\ Append(slots, w)[n + 1] = w
      /\ \A j \in 1..n : Append(slots, w)[j] = slots[j]
      /\ Len(Append(c, v)) = b + 1
    BY <1>1, <1>2, <1>4, AppendProperties
<1>6. (n + 1) * Word = b + Word /\ n + 1 - 1 = n
    BY <1>2, <1>3, OneMoreWord
<1>7. ASSUME NEW j \in 1..n
      PROVE  Append(slots, w)[j] = Bits(Append(c, v), j)
    <2>1. j * Word <= Len(c) /\ j \in Nat \ {0}
        BY <1>2, <1>3, <1>4, WordsInOrder
    <2>2. Bits(Append(c, v), j) = Bits(c, j)
        BY <2>1, BitsKept
    <2> QED BY <1>3, <1>5, <2>2
<1>8. w = Bits(Append(c, v), n + 1)
    <2>1. PICK m \in Nat \ {0} : m = n + 1 /\ b = (m - 1) * Word
        BY <1>2
    <2>2. Bits(Append(c, v), m) = Bits(c, m) \cup (IF v = 1 THEN {Len(c) - b} ELSE {})
        <3>1. b \in Nat /\ b <= Len(c) /\ Len(c) < b + Word
            BY <1>3, <1>4
        <3> QED BY <2>1, <3>1, BitPut
    <2>3. Bits(c, m) = {}
        <3>1. (m - 1) * Word = b /\ b \in Nat /\ Len(c) = b
            BY ONLY <1>3, <1>4, <2>1
        <3>2. ASSUME NEW k \in 0..(Word - 1) PROVE ~((m - 1) * Word + k < Len(c))
            <4>1. ~(b + k < b)
                BY ONLY <1>3, <3>1
            <4> QED BY ONLY <3>1, <4>1
        <3> QED BY <3>2, Zenon DEF Bits
    <2>4. Len(c) - b = 0
        BY <1>3, <1>4
    <2> QED BY <2>1, <2>2, <2>3, <2>4
<1>9. ASSUME NEW j \in 1..(n + 1)
      PROVE  Append(slots, w)[j] = Bits(Append(c, v), j)
    <2>1. CASE j = n + 1
        BY <1>5, <1>8, <2>1
    <2>2. CASE j # n + 1
        <3>1. j \in 1..n
            BY <2>2
        <3> QED BY <1>7, <3>1
    <2> QED BY <2>1, <2>2
<1>10. /\ Len(Append(slots, w)) * Word - Word < Len(Append(c, v))
       /\ Len(Append(c, v)) <= Len(Append(slots, w)) * Word
    BY <1>3, <1>4, <1>5, <1>6
<1> QED BY <1>1, <1>5, <1>9, <1>10 DEF Holds

\* The slots when a bit has been added to the last word.
BitOr(c, slots, v) ==
    [slots EXCEPT ![Len(slots)] = IF v = 1 THEN slots[Len(slots)] \cup {Len(c) % Word}
                                  ELSE slots[Len(slots)]]

\* It is held as well.
LEMMA BitAdded ==
    ASSUME NEW t \in Types, t = "bit", NEW S, NEW c \in Seq(S), NEW v \in S,
           NEW slots \in Seq(Slots(t)), Holds(t, c, slots), Len(c) % Word # 0,
           NEW r, r = BitOr(c, slots, v)
    PROVE  /\ r \in Seq(Slots(t)) /\ Len(r) = Len(slots)
           /\ Holds(t, Append(c, v), r)
<1> DEFINE w == IF v = 1 THEN slots[Len(slots)] \cup {Len(c) % Word}
                ELSE slots[Len(slots)]
<1>0. r = [slots EXCEPT ![Len(slots)] = w]
    BY DEF BitOr
<1>1. PICK n \in Nat, b \in Int : n = Len(slots) /\ b = n * Word
    <2>1. Len(slots) \in Nat /\ Len(slots) * Word \in Int
        BY ColumnAssumption, OneMoreWord
    <2> QED BY <2>1
<1>2. /\ Word \in Nat \ {0} /\ Len(c) \in Nat /\ b - Word < Len(c) /\ Len(c) <= b
      /\ \A j \in 1..n : slots[j] = Bits(c, j)
    BY <1>1, ColumnAssumption DEF Holds
<1>3. Len(c) % Word = Len(c) - (b - Word) /\ Len(c) < b
    BY <1>1, <1>2, LastWord
<1>4. n # 0
    <2>1. n = 0 => b = 0
        BY <1>1, <1>2
    <2> QED BY <1>2, <1>3, <2>1
<1>5. b - Word = (n - 1) * Word /\ n - 1 \in Nat /\ b - Word \in Nat
    <2>1. (n - 1) * Word = b - Word
        BY <1>1, <1>2, OneMoreWord
    <2>2. (n - 1) * Word \in Nat
        BY <1>2, <1>4, WordsInOrder
    <2> QED BY <1>4, <2>1, <2>2
<1>6. w \in Slots(t)
    <2>1. slots[n] \in Slots(t)
        BY <1>1, <1>4
    <2>2. Len(c) % Word \in 0..(Word - 1)
        BY <1>2, <1>3
    <2> QED BY <1>1, <2>1, <2>2 DEF Slots
<1>7. /\ r \in Seq(Slots(t)) /\ Len(r) = n /\ r[n] = w
      /\ \A j \in 1..n : j # n => r[j] = slots[j]
    <2>1. slots \in [1..n -> Slots(t)] /\ n \in 1..n /\ n \in Nat
        BY <1>1, <1>4
    <2>2. r = [slots EXCEPT ![n] = w]
        BY <1>0, <1>1
    <2> HIDE DEF w
    <2>3. /\ r \in [1..n -> Slots(t)] /\ r[n] = w
          /\ \A j \in 1..n : j # n => r[j] = slots[j]
        BY ONLY <1>6, <2>1, <2>2
    <2>4. r \in Seq(Slots(t)) /\ Len(r) = n
        BY ONLY <2>1, <2>3
    <2> QED BY ONLY <2>3, <2>4
<1>8. ASSUME NEW j \in 1..n, j # n
      PROVE  r[j] = Bits(Append(c, v), j)
    <2>1. j * Word <= Len(c) /\ j \in Nat \ {0}
        <3>1. PICK m \in Nat : m = n - 1 /\ m * Word = b - Word
            BY <1>5
        <3>2. j \in Nat /\ j # 0 /\ j <= m /\ Word \in Nat
            BY <1>2, <1>8, <3>1
        <3>3. j * Word <= m * Word /\ j * Word \in Nat
            BY ONLY m \in Nat, <3>2, WordsInOrder
        <3> QED BY <1>2, <3>1, <3>2, <3>3
    <2>2. Bits(Append(c, v), j) = Bits(c, j)
        BY <2>1, BitsKept
    <2> QED BY <1>2, <1>7, <1>8, <2>2
<1>9. w = Bits(Append(c, v), n)
    <2>1. PICK d \in Nat : d = b - Word
        BY <1>5
    <2>2. /\ n \in Nat \ {0} /\ d = (n - 1) * Word /\ d <= Len(c)
          /\ Len(c) < d + Word
        BY <1>1, <1>2, <1>3, <1>4, <1>5, <2>1
    <2>3. Bits(Append(c, v), n) = Bits(c, n) \cup (IF v = 1 THEN {Len(c) - d} ELSE {})
        BY <2>2, BitPut
    <2>4. Len(c) % Word = Len(c) - d /\ slots[n] = Bits(c, n)
        BY <1>2, <1>3, <1>4, <2>1
    <2> QED BY <1>1, <2>3, <2>4
<1>10. \A j \in 1..n : r[j] = Bits(Append(c, v), j)
    BY <1>7, <1>8, <1>9
<1>11. b - Word < Len(Append(c, v)) /\ Len(Append(c, v)) <= b
    BY <1>1, <1>2, <1>3
<1> QED BY <1>1, <1>7, <1>10, <1>11 DEF Holds
------------------------------------------------------------------------------
(* Putting values *)

\* A slot is put at the end, where there is room for it, if need be after the
\* buffer has been resized.
LEMMA SlotPut ==
    ASSUME type \in Types, NEW c, IsColumn(type, c, stored),
           ~stored.mmapped, stored.size > 0,
           NEW slot \in Slots(type), NEW d, Len(d) = Len(c) + 1, Len(c) \in Nat,
           Holds(type, d, Append(stored.slots, slot)), PutSlot(slot)
    PROVE  IsColumn(type, d, stored') /\ ~stored'.mmapped /\ stored'.size > 0
<1>1. PICK n \in Nat :
          /\ n = SlotSize(slot)
          /\ Used(type, Append(stored.slots, slot)) = Used(type, stored.slots) + n
    <2>1. stored.slots \in Seq(Slots(type))
        BY DEF IsColumn, Columns
    <2> QED BY <2>1, UsedAppend DEF SlotSize
<1>2. PICK size : size = IF MustResize(n) THEN Resized(n) ELSE stored.size
    OBVIOUS
<1>3. size \in Nat /\ stored.offset + n <= size /\ size > 0
    <2>1. stored.offset \in Nat /\ stored.size \in Nat \ {0}
        BY DEF IsColumn, Columns
    <2>2. CASE MustResize(n)
        <3>1. Resized(n) \in Nat /\ Resized(n) >= stored.offset + n + OverAlloc
            BY <2>1, ResizedIsEnough
        <3>2. stored.offset + n > stored.size
            BY <2>2 DEF MustResize
        <3> QED BY <1>2, <2>1, <2>2, <3>1, <3>2, ColumnAssumption
    <2>3. CASE ~MustResize(n)
        BY <1>2, <2>1, <2>3 DEF MustResize
    <2> QED BY <2>2, <2>3
<1>4. PICK slots, m, offset :
          /\ slots = Append(stored.slots, slot) /\ slots \in Seq(Slots(type))
          /\ m = stored.count + 1 /\ offset = stored.offset + n
          /\ m \in Nat /\ offset \in Nat
    <2>1. PICK old \in Seq(Slots(type)) : old = stored.slots
        BY DEF IsColumn, Columns
    <2>2. Append(old, slot) \in Seq(Slots(type))
        BY ONLY slot \in Slots(type), old \in Seq(Slots(type)), AppendProperties
    <2>3. stored.count + 1 \in Nat /\ stored.offset + n \in Nat
        BY DEF IsColumn, Columns
    <2> QED BY <2>1, <2>2, <2>3
<1>5. stored' = [stored EXCEPT !.slots = slots, !.count = m, !.offset = offset,
                               !.size = size]
    BY <1>1, <1>2, <1>4, Zenon DEF PutSlot
<1>6. stored \in Columns(type)
    BY DEF IsColumn
<1>7. /\ stored' \in Columns(type)
      /\ stored'.slots = slots /\ stored'.count = m /\ stored'.offset = offset
      /\ stored'.size = size /\ stored'.mmapped = stored.mmapped
    <2>1. stored' = [slots |-> slots, count |-> m, offset |-> offset,
                     size |-> size, mmapped |-> stored.mmapped]
        BY ONLY <1>5, <1>6 DEF Columns
    <2>2. stored.mmapped \in BOOLEAN
        BY <1>6 DEF Columns
    <2> QED BY ONLY <1>3, <1>4, <2>1, <2>2 DEF Columns
<1> QED BY <1>1, <1>3, <1>4, <1>7 DEF IsColumn

\* A column holds what is put in it, in room of its own.
LEMMA ValuePut ==
    ASSUME type \in Types, NEW c \in Seq(ValuesOf(type)), IsColumn(type, c, stored),
           ~stored.mmapped, stored.size > 0,
           NEW v \in ValuesOf(type), ColumnPut(v)
    PROVE  /\ IsColumn(type, Append(c, v), stored')
           /\ ~stored'.mmapped /\ stored'.size > 0
<1>1. /\ stored \in Columns(type) /\ Holds(type, c, stored.slots)
      /\ stored.count = Len(c) /\ stored.slots \in Seq(Slots(type))
    BY DEF IsColumn, Columns
<1>2. Len(Append(c, v)) = Len(c) + 1 /\ Len(c) \in Nat
    OBVIOUS
<1>3. CASE type # "bit"
    <2>1. PutSlot(v)
        BY <1>3 DEF ColumnPut
    <2>2. v \in Slots(type) /\ Holds(type, Append(c, v), Append(stored.slots, v))
        BY <1>1, <1>3, NumberPut
    <2> QED BY <1>2, <2>1, <2>2, SlotPut
<1>4. CASE type = "bit" /\ Len(c) % Word = 0
    <2>1. PICK w : w = IF v = 1 THEN {0} ELSE {}
        OBVIOUS
    <2>2. PutSlot(w)
        BY <1>1, <1>4, <2>1 DEF ColumnPut, PutBit
    <2>3. w \in Slots(type) /\ Holds(type, Append(c, v), Append(stored.slots, w))
        BY <1>1, <1>4, <2>1, WordPut
    <2> QED BY <1>2, <2>2, <2>3, SlotPut
<1>5. CASE type = "bit" /\ Len(c) % Word # 0
    <2>1. PICK slots \in Seq(Slots(type)) : slots = stored.slots
        BY <1>1
    <2>2. PICK r : r = BitOr(c, slots, v)
        OBVIOUS
    <2>3. /\ r \in Seq(Slots(type)) /\ Len(r) = Len(slots)
          /\ Holds(type, Append(c, v), r)
        <3>1. Holds(type, c, slots)
            BY <1>1, <2>1
        <3> QED BY ONLY type \in Types, slots \in Seq(Slots(type)),
                        c \in Seq(ValuesOf(type)), v \in ValuesOf(type),
                        <1>5, <2>2, <3>1, BitAdded
    <2>4. PICK m \in Nat : m = stored.count + 1
        BY <1>1, <1>2
    <2>5. stored' = [stored EXCEPT !.slots = r, !.count = m]
        <3>1. PutBit(v) /\ stored.count % Word # 0
            BY <1>1, <1>5 DEF ColumnPut
        <3>2. stored' = [stored EXCEPT
                  !.slots[Len(stored.slots)] = OrBit(@, v),
                  !.count = @ + 1]
            BY <3>1, Zenon DEF PutBit
        <3>3. OrBit(slots[Len(slots)], v) =
                  IF v = 1 THEN slots[Len(slots)] \cup {Len(c) % Word}
                  ELSE slots[Len(slots)]
            BY <1>1 DEF OrBit
        <3>4. r = [slots EXCEPT ![Len(slots)] = OrBit(slots[Len(slots)], v)]
            BY <2>2, <3>3 DEF BitOr
        <3> QED BY <2>1, <2>4, <3>2, <3>4, Zenon
    <2>6. /\ stored' \in Columns(type)
          /\ stored'.slots = r /\ stored'.count = m
          /\ stored'.offset = stored.offset /\ stored'.size = stored.size
          /\ stored'.mmapped = stored.mmapped
        <3>1. stored' = [slots |-> r, count |-> m, offset |-> stored.offset,
                         size |-> stored.size, mmapped |-> stored.mmapped]
            BY ONLY <1>1, <2>5 DEF Columns
        <3>2. /\ stored.offset \in Nat /\ stored.size \in Nat
              /\ stored.mmapped \in BOOLEAN
            BY <1>1 DEF Columns
        <3> QED BY ONLY <2>3, m \in Nat, <3>1, <3>2 DEF Columns
    <2>7. Used(type, r) = Used(type, stored.slots)
        BY <1>1, <1>5, <2>1, <2>3, UsedByWords DEF Slots
    <2> QED BY <1>1, <1>2, <2>3, <2>4, <2>6, <2>7 DEF IsColumn
<1> QED BY <1>3, <1>4, <1>5
------------------------------------------------------------------------------
(* The cursor *)

\* What lies before a place.
LEMMA BeforeIs ==
    ASSUME NEW t \in Types, NEW S, NEW c \in Seq(S), NEW slots, NEW n \in Nat,
           slots \in Seq(Slots(t)), Holds(t, c, slots), NEW p \in 0..n, n = Len(slots)
    PROVE  /\ p * Per(t) \in Nat /\ Len(c) \in Nat /\ Before(t, c, p) \in 0..Len(c)
           /\ p < n => p * Per(t) < Len(c) /\ Before(t, c, p) = p * Per(t)
           /\ p = n => Before(t, c, p) = Len(c)
<1>1. p * Per(t) \in Nat /\ Len(c) \in Nat
    <2>1. Per(t) \in Nat /\ p \in Nat
        BY TypesAre
    <2> QED BY <2>1, WordsInOrder
<1>2. Before(t, c, p) = IF p * Per(t) <= Len(c) THEN p * Per(t) ELSE Len(c)
    BY <1>1, MinOfTwo DEF Before
<1>3. CASE t = "bit"
    <2>1. PICK b : b = n * Word
        OBVIOUS
    <2>2. b \in Nat /\ b - Word < Len(c) /\ Len(c) <= b
        BY <1>3, <2>1, WordsInOrder, ColumnAssumption DEF Holds
    <2>3. Per(t) = Word
        BY <1>3 DEF Per
    <2>4. CASE p < n
        <3>1. PICK m \in Nat : m = n - 1 /\ p <= m
            BY <2>4
        <3>2. m * Word = b - Word
            BY <2>1, <3>1, OneMoreWord, ColumnAssumption
        <3>3. p * Word <= m * Word
            <4>1. p \in Nat /\ p <= m /\ Word \in Nat
                BY <3>1, ColumnAssumption
            <4> QED BY ONLY m \in Nat, <4>1, WordsInOrder
        <3>4. PICK d \in Nat : d = p * Per(t) /\ d = p * Word
            BY <1>1, <2>3
        <3>5. d < Len(c)
            BY <1>1, <2>2, <3>2, <3>3, <3>4, ColumnAssumption
        <3> QED BY <1>1, <1>2, <2>4, <3>4, <3>5
    <2>5. CASE p = n
        BY <1>1, <1>2, <2>1, <2>2, <2>3, <2>5
    <2> QED BY <1>1, <1>2, <2>4, <2>5
<1>4. CASE t # "bit"
    <2>1. Len(c) = n /\ Per(t) = 1 /\ p * 1 = p
        BY <1>4 DEF Holds, Per
    <2> QED BY <1>1, <1>2, <2>1
<1> QED BY <1>3, <1>4

\* What two stretches of slots hold adds up.
LEMMA Stretches ==
    ASSUME NEW w \in Nat, NEW m \in Nat, NEW n \in Nat
    PROVE  (m + n) * w = m * w + n * w /\ m * w \in Nat /\ n * w \in Nat
OBVIOUS

\* What the cursor answers for slots ahead of it is the values they hold.
LEMMA ValuesInIs ==
    ASSUME type \in Types, NEW S, NEW c \in Seq(S), IsColumn(type, c, stored),
           Len(c) < Wrap, NEW L \in Nat, L = Len(stored.slots),
           position \in 0..L, NEW n \in 0..(L - position),
           \/ position < L
           \/ ~(type = "bit" /\ Len(c) % Word # 0)
    PROVE  ValuesIn(n) = Before(type, c, position + n) - Before(type, c, position)
<1>1. /\ stored.slots \in Seq(Slots(type)) /\ Holds(type, c, stored.slots)
      /\ stored.count = Len(c)
    BY DEF IsColumn, Columns
<1>2. PICK q \in 0..L : q = position + n
    OBVIOUS
<1>3. /\ Len(c) \in Nat
      /\ Before(type, c, position) \in 0..Len(c)
      /\ position < L => /\ position * Per(type) < Len(c)
                         /\ Before(type, c, position) = position * Per(type)
      /\ position = L => Before(type, c, position) = Len(c)
    BY <1>1, BeforeIs
<1>4. /\ Before(type, c, q) \in 0..Len(c)
      /\ q < L => Before(type, c, q) = q * Per(type)
      /\ q = L => Before(type, c, q) = Len(c)
    BY <1>1, BeforeIs
<1>5. /\ position * Per(type) \in Nat /\ n * Per(type) \in Nat
      /\ q * Per(type) = position * Per(type) + n * Per(type)
    <2>1. Per(type) \in Nat /\ position \in Nat /\ n \in Nat
        BY TypesAre
    <2> QED BY <1>2, <2>1, Stretches
<1>6. CASE type = "bit" /\ Len(c) % Word # 0
    <2>1. Per(type) = Word /\ PerSlot = Word /\ Word \in Nat \ {0}
        BY <1>6, ColumnAssumption DEF Per, PerSlot
    <2>2. PICK b \in Nat : b = L * Word
        BY <2>1, WordsInOrder
    <2>3. Len(c) % Word = Len(c) - (b - Word) /\ Len(c) < b /\ Len(c) % Word > 0
        <3>1. b - Word < Len(c) /\ Len(c) <= b
            BY <1>1, <1>6, <2>2 DEF Holds
        <3>2. Len(c) % Word = Len(c) - (b - Word) /\ Len(c) < b
            BY <1>3, <1>6, <2>1, <2>2, <3>1, LastWord
        <3> QED BY <1>3, <2>1, <3>1, <3>2
    <2>4. CASE q = L
        <3>1. position < L
            BY <1>6
        <3>2. ValuesIn(n) = (n * Word - (Word - (Len(c) % Word))) % Wrap
            <4>1. /\ (IF type = "bit" THEN stored.count % Word ELSE 0) = Len(c) % Word
                  /\ position + n = Len(stored.slots)
                BY <1>1, <1>2, <1>6, <2>4
            <4>2. ValuesIn(n) =
                      IF Len(c) % Word > 0 /\ position + n = Len(stored.slots)
                      THEN (n * Word - (Word - (Len(c) % Word))) % Wrap
                      ELSE n * Word
                BY ONLY <2>1, <4>1 DEF ValuesIn
            <4> QED BY <2>3, <4>1, <4>2
        <3>3. PICK x \in Nat : x = Len(c) - position * Word
            BY <1>3, <1>5, <2>1, <3>1
        <3>4. n * Word - (Word - (Len(c) % Word)) = x
            <4>1. PICK a \in Nat, d \in Nat : a = n * Word /\ d = position * Word
                BY <1>5, <2>1
            <4>2. b = d + a
                BY <1>5, <2>1, <2>2, <2>4, <4>1
            <4>3. x = Len(c) - d
                BY <3>3, <4>1
            <4>4. PICK l \in Nat, r \in Nat :
                      l = Len(c) /\ r = Len(c) % Word /\ r = l - (b - Word)
                BY <1>3, <2>1, <2>3
            <4>5. a - (Word - r) = x
                BY <2>1, <4>2, <4>3, <4>4
            <4> QED BY ONLY <4>1, <4>4, <4>5, Zenon
        <3>5. x % Wrap = x
            <4>1. x < Wrap /\ Wrap \in Nat \ {0}
                BY <1>3, <1>5, <2>1, <3>3, ColumnAssumption
            <4> QED BY <4>1, NoWrap
        <3> QED BY <1>2, <1>3, <1>4, <2>1, <2>4, <3>1, <3>2, <3>3, <3>4, <3>5
    <2>5. CASE q # L
        <3>1. ValuesIn(n) = n * Word /\ position < L /\ q < L
            BY <1>1, <1>2, <2>1, <2>5 DEF ValuesIn
        <3> QED BY <1>2, <1>3, <1>4, <1>5, <2>1, <3>1
    <2> QED BY <2>4, <2>5
<1>7. CASE ~(type = "bit" /\ Len(c) % Word # 0)
    <2>1. ValuesIn(n) = n * Per(type)
        <3>1. ~((IF type = "bit" THEN stored.count % Word ELSE 0) > 0)
            BY <1>1, <1>7
        <3> QED BY <3>1 DEF ValuesIn, Per, PerSlot
    <2>2. Before(type, c, L) = L * Per(type)
        <3>1. CASE type = "bit"
            <4>1. Per(type) = Word /\ Word \in Nat \ {0} /\ L * Word \in Nat
                BY <3>1, ColumnAssumption, WordsInOrder DEF Per
            <4>2. Len(c) = L * Word
                BY <1>1, <1>3, <1>7, <3>1, <4>1, LastWord DEF Holds
            <4>3. Before(type, c, L) = Len(c)
                BY <1>1, BeforeIs
            <4> QED BY <4>1, <4>2, <4>3
        <3>2. CASE type # "bit"
            <4>1. Per(type) = 1 /\ Len(c) = L /\ L * 1 = L
                BY <1>1, <3>2 DEF Per, Holds
            <4>2. Before(type, c, L) = Len(c)
                BY <1>1, BeforeIs
            <4> QED BY <4>1, <4>2
        <3> QED BY <3>1, <3>2
    <2>3. /\ Before(type, c, position) = position * Per(type)
          /\ Before(type, c, q) = q * Per(type)
        BY <1>3, <1>4, <2>2
    <2> QED BY <1>2, <1>5, <2>1, <2>3
<1> QED BY <1>6, <1>7

\* As many slots are skipped as there are.
LEMMA SkippedIs ==
    ASSUME NEW L \in Nat, L = Len(stored.slots), position \in 0..L, NEW n \in Nat,
           type \in Types
    PROVE  /\ SkippedSlots(n) \in 0..(L - position)
           /\ type = "bit" /\ n = Word /\ position < L => SkippedSlots(n) = 1
           /\ type # "bit" => SkippedSlots(n) = IF n <= L - position THEN n
                                                ELSE L - position
<1>1. PICK k \in Nat : k = n \div PerSlot
    <2>1. PerSlot \in Nat \ {0}
        BY ColumnAssumption DEF PerSlot
    <2> QED BY <2>1
<1>2. L - position \in Nat
    OBVIOUS
<1>3. SkippedSlots(n) = IF k <= L - position THEN k ELSE L - position
    <2>1. SkippedSlots(n) = Min({k, L - position})
        BY <1>1 DEF SkippedSlots
    <2> QED BY <1>2, <2>1, MinOfTwo
<1>4. type = "bit" /\ n = Word => k = 1
    BY <1>1, ColumnAssumption DEF PerSlot
<1>5. type # "bit" => k = n
    BY <1>1 DEF PerSlot
<1> QED BY <1>2, <1>3, <1>4, <1>5

\* The values between two places.
LEMMA Advanced ==
    ASSUME NEW w \in Nat \ {0}, NEW x \in Nat, NEW y \in Nat, y < w
    PROVE  (x + (y - x)) % w = y
<1>1. x + (y - x) = y
    OBVIOUS
<1> QED BY <1>1, NoWrap

\* The cursor stays inside the column and counts what it passes.
LEMMA AdvanceCounts ==
    ASSUME type \in Types, NEW S, column \in Seq(S), IsColumn(type, column, stored),
           Len(column) < Wrap, NEW L \in Nat, L = Len(stored.slots),
           position \in 0..L, Counted, passed \in 0..(Wrap - 1), late \in BOOLEAN,
           NEW n \in 0..(L - position), CursorAdvance(n),
           type' = type, column' = column
    PROVE  /\ position' = position + n /\ position' \in 0..L
           /\ Counted' /\ passed' \in 0..(Wrap - 1) /\ late' \in BOOLEAN
           /\ position < L => late' = late
<1>1. /\ position' = position + n
      /\ passed' = (passed + ValuesIn(n)) % Wrap
      /\ late' = (late \/ ~(position < L))
    BY DEF CursorAdvance, CursorValid
<1>2. late' \in BOOLEAN /\ (position < L => late' = late)
    <2>1. late' \in BOOLEAN
        BY <1>1, Zenon
    <2>2. CASE position < L
        <3>1. late' = (late \/ FALSE)
            BY <1>1, <2>2
        <3> QED BY <2>1, <3>1
    <2>3. CASE ~(position < L)
        BY <2>1, <2>3
    <2> QED BY <2>2, <2>3
<1>3. position' \in 0..L
    BY <1>1
<1>4. CASE late' /\ type = "bit" /\ Len(column) % Word # 0
    <2>1. Counted'
        BY <1>4 DEF Counted
    <2>2. (passed + ValuesIn(n)) \in Int
        <3>1. ValuesIn(n) \in Int
            <4>1. PICK trailing \in Nat :
                      trailing = IF type = "bit" THEN stored.count % Word ELSE 0
                BY ColumnAssumption DEF IsColumn
            <4>2. PICK m \in Nat : m = n * PerSlot
                BY ColumnAssumption DEF PerSlot
            <4>3. ValuesIn(n) =
                      IF trailing > 0 /\ position + n = Len(stored.slots)
                      THEN (m - (Word - trailing)) % Wrap ELSE m
                BY <4>1, <4>2 DEF ValuesIn
            <4>4. (m - (Word - trailing)) % Wrap \in 0..(Wrap - 1)
                <5>1. PICK z \in Int : z = m - (Word - trailing)
                    BY ColumnAssumption
                <5>2. z % Wrap \in 0..(Wrap - 1)
                    BY ColumnAssumption, Wrapped
                <5> QED BY <5>1, <5>2
            <4> QED BY <4>3, <4>4, ColumnAssumption
        <3> QED BY <3>1
    <2>3. passed' \in 0..(Wrap - 1)
        BY <1>1, <2>2, Wrapped, ColumnAssumption
    <2> QED BY <1>1, <1>2, <1>3, <2>1, <2>3
<1>5. CASE ~(late' /\ type = "bit" /\ Len(column) % Word # 0)
    <2>1. \/ position < L
          \/ ~(type = "bit" /\ Len(column) % Word # 0)
        BY <1>1, <1>5
    <2>2. ValuesIn(n) = Before(type, column, position + n)
                            - Before(type, column, position)
        BY <2>1, ValuesInIs
    <2>3. passed = Before(type, column, position)
        BY <1>1, <1>5 DEF Counted
    <2>4. /\ Len(column) \in Nat
          /\ Before(type, column, position) \in 0..Len(column)
          /\ Before(type, column, position + n) \in 0..Len(column)
        <3>1. /\ stored.slots \in Seq(Slots(type))
              /\ Holds(type, column, stored.slots)
            BY DEF IsColumn, Columns
        <3>2. PICK q \in 0..L : q = position + n
            OBVIOUS
        <3>3. Before(type, column, q) \in 0..Len(column)
            BY <3>1, BeforeIs
        <3>4. Before(type, column, position) \in 0..Len(column)
            BY <3>1, BeforeIs
        <3> QED BY <3>2, <3>3, <3>4
    <2>5. passed' = Before(type, column, position + n)
        <3>1. PICK x \in Nat, y \in Nat :
                  /\ x = Before(type, column, position)
                  /\ y = Before(type, column, position + n) /\ y < Wrap
            BY <2>4, ColumnAssumption
        <3>2. (x + (y - x)) % Wrap = y
            BY <3>1, Advanced, ColumnAssumption
        <3> QED BY <1>1, <2>2, <2>3, <3>1, <3>2
    <2>6. Counted'
        BY <1>1, <2>5 DEF Counted
    <2>7. passed' \in 0..(Wrap - 1)
        BY <2>4, <2>5, ColumnAssumption
    <2> QED BY <1>1, <1>2, <1>3, <2>6, <2>7
<1> QED BY <1>4, <1>5

\* A stretch of one.
LEMMA OneOfSequence ==
    ASSUME NEW S, NEW s \in Seq(S), NEW m \in 1..Len(s)
    PROVE  SubSeq(s, m, m) = << s[m] >>
<1>1. m \in Int /\ s[m] \in S /\ m - m + 1 = 1 /\ m + 1 - 1 = m
    OBVIOUS
<1>2. \A i \in m..m : s[i] \in S
    BY <1>1
<1>3. /\ SubSeq(s, m, m) \in Seq(S) /\ Len(SubSeq(s, m, m)) = 1
      /\ SubSeq(s, m, m)[1] = s[m]
    BY <1>1, <1>2, SubSeqProperties
<1>4. PICK x, r, q : /\ x \in S /\ x = s[m] /\ r = SubSeq(s, m, m) /\ q = << x >>
    BY <1>1
<1>5. q \in Seq(S) /\ Len(q) = 1 /\ q[1] = x
    BY ONLY <1>4
<1>6. r \in Seq(S) /\ Len(r) = 1 /\ r[1] = x
    BY ONLY <1>3, <1>4
<1>7. r = q
    BY ONLY <1>5, <1>6, SeqEqual
<1> QED BY <1>4, <1>7

\* The cursor hands out the values at its place.
LEMMA BatchIs ==
    ASSUME type \in Types, NEW S, NEW c, c \in Seq(S), IsColumn(type, c, stored),
           Len(c) < Wrap, NEW L \in Nat, L = Len(stored.slots),
           position \in 0..L, position < L, CursorNextBatch
    PROVE  /\ batch'.first = position
           /\ batch'.available = Before(type, c, position + SkippedSlots(Word))
                                     - position * Per(type)
           /\ Before(type, c, position + SkippedSlots(Word)) =
                  Min({position * Per(type) + Word, Len(c)})
           /\ BatchHolds(type, c, batch')
<1>1. /\ stored.slots \in Seq(Slots(type)) /\ Holds(type, c, stored.slots)
      /\ Word \in Nat \ {0} /\ Len(c) \in Nat
    BY ColumnAssumption DEF IsColumn, Columns
<1>2. PICK n \in 0..(L - position) :
          /\ n = SkippedSlots(Word)
          /\ type = "bit" => n = 1
          /\ type # "bit" => n = IF Word <= L - position THEN Word ELSE L - position
    BY <1>1, SkippedIs
<1>3. PICK from \in Nat :
          /\ from = position * Per(type) /\ from < Len(c)
          /\ Before(type, c, position) = from
    BY <1>1, BeforeIs
<1>4. /\ batch'.first = position
      /\ batch'.available = ValuesIn(n)
      /\ batch'.slots = SubSeq(stored.slots, position + 1, position + n)
    BY <1>2 DEF CursorNextBatch
<1>5. ValuesIn(n) = Before(type, c, position + n) - from
    BY <1>3, ValuesInIs
<1>6. PICK to \in Nat : /\ to = Min({from + Word, Len(c)})
                        /\ to = IF from + Word <= Len(c) THEN from + Word ELSE Len(c)
    BY <1>1, MinOfTwo
<1>7. Before(type, c, position + n) = to
    <2>1. CASE type = "bit"
        <3>1. Per(type) = Word /\ n = 1 /\ (position + 1) * Word = from + Word
            BY <1>1, <1>2, <1>3, <2>1, OneMoreWord DEF Per
        <3> QED BY <1>6, <3>1 DEF Before
    <2>2. CASE type # "bit"
        <3>1. Per(type) = 1 /\ Len(c) = L /\ from = position
            BY <1>1, <1>3, <2>2 DEF Per, Holds
        <3>2. (position + n) * 1 = position + n /\ position + n <= L
            OBVIOUS
        <3>3. Before(type, c, position + n) = position + n
            BY <3>1, <3>2, MinOfTwo DEF Before
        <3>4. PICK p \in Nat : p = position /\ p <= L
            OBVIOUS
        <3>5. n = IF Word <= L - p THEN Word ELSE L - p
            BY <1>2, <2>2, <3>4
        <3>6. to = IF p + Word <= L THEN p + Word ELSE L
            BY <1>6, <3>1, <3>4
        <3>7. p + n = to
            BY ONLY p \in Nat, L \in Nat, <1>1, <3>4, <3>5, <3>6
        <3> QED BY <3>3, <3>4, <3>7
    <2> QED BY <2>1, <2>2
<1>8. PICK values : values = SubSeq(c, from + 1, to)
    OBVIOUS
<1>9. /\ Len(values) = to - from /\ to - from \in Nat
      /\ \A k \in 1..(to - from) : values[k] = c[from + k]
    <2>1. from < to /\ to <= Len(c)
        BY <1>1, <1>3, <1>6
    <2>2. \A i \in from + 1 .. to : i \in 1..Len(c)
        BY <2>1
    <2> QED BY <1>8, <2>1, <2>2
<1>10. batch'.slots = IF type = "bit"
                      THEN << { k \in 0..(Len(values) - 1) : values[k + 1] = 1 } >>
                      ELSE values
    <2>1. CASE type = "bit"
        <3>1. batch'.slots = << stored.slots[position + 1] >>
            <4>1. PICK p \in Nat : p = position /\ p + 1 \in 1..L
                OBVIOUS
            <4>2. batch'.slots = SubSeq(stored.slots, p + 1, p + 1)
                BY <1>2, <1>4, <2>1, <4>1
            <4>3. SubSeq(stored.slots, p + 1, p + 1) = << stored.slots[p + 1] >>
                BY <1>1, <4>1, OneOfSequence
            <4> QED BY <4>1, <4>2, <4>3
        <3>2. stored.slots[position + 1] = Bits(c, position + 1)
            <4>1. position + 1 \in 1..L
                OBVIOUS
            <4> QED BY <1>1, <2>1, <4>1 DEF Holds
        <3>3. Bits(c, position + 1) =
                  { k \in 0..(Word - 1) : from + k < Len(c) /\ c[from + k + 1] = 1 }
            <4>1. position + 1 - 1 = position /\ position * Word = from
                BY <1>3, <2>1 DEF Per
            <4> QED BY <4>1 DEF Bits
        <3>4. { k \in 0..(Word - 1) : from + k < Len(c) /\ c[from + k + 1] = 1 } =
                  { k \in 0..(to - from - 1) : values[k + 1] = 1 }
            <4>1. ASSUME NEW k \in Nat
                  PROVE  k \in 0..(Word - 1) /\ from + k < Len(c) <=> k \in 0..(to - from - 1)
                BY <1>1, <1>6
            <4>2. ASSUME NEW k \in 0..(to - from - 1)
                  PROVE  values[k + 1] = c[from + k + 1]
                <5>1. PICK m \in 1..(to - from) : m = k + 1 /\ from + m = from + k + 1
                    BY <1>9
                <5> QED BY <1>9, <5>1
            <4> QED BY <4>1, <4>2
        <3> QED BY <1>9, <2>1, <3>1, <3>2, <3>3, <3>4
    <2>2. CASE type # "bit"
        <3>1. Per(type) = 1 /\ stored.slots = c /\ Len(c) = L /\ from = position
            BY <1>1, <1>3, <2>2 DEF Per, Holds
        <3>2. position + n = to
            <4>1. PICK p \in Nat : p = position /\ p <= L
                OBVIOUS
            <4>2. n = IF Word <= L - p THEN Word ELSE L - p
                BY <1>2, <2>2, <4>1
            <4>3. to = IF p + Word <= L THEN p + Word ELSE L
                BY <1>6, <3>1, <4>1
            <4>4. p + n = to
                BY ONLY p \in Nat, L \in Nat, <1>1, <4>1, <4>2, <4>3
            <4> QED BY <4>1, <4>4
        <3> QED BY <1>4, <1>8, <2>2, <3>1, <3>2
    <2> QED BY <2>1, <2>2
<1>11. BatchHolds(type, c, batch')
    <2>1. batch'.available = Len(values)
        BY <1>4, <1>5, <1>7, <1>9
    <2>2. values = SubSeq(c, batch'.first * Per(type) + 1,
                          Min({batch'.first * Per(type) + Word, Len(c)}))
        BY <1>3, <1>4, <1>6, <1>8
    <2> QED BY <1>10, <2>1, <2>2 DEF BatchHolds
<1> QED BY <1>2, <1>3, <1>4, <1>5, <1>6, <1>7, <1>11

\* What is read at a place of a batch is the value that was put there.
LEMMA ValueRead ==
    ASSUME type \in Types, column \in Seq(ValuesOf(type)),
           BatchHolds(type, column, batch), batch.first \in Nat, scanned \in Nat,
           batch.first * PerSlot <= scanned,
           scanned < batch.first * PerSlot + batch.available
    PROVE  /\ BatchValue(scanned - batch.first * PerSlot) = column[scanned + 1]
           /\ scanned + 1 \in 1..Len(column)
<1>1. PICK from \in Nat : from = batch.first * PerSlot /\ from = batch.first * Per(type)
    BY ColumnAssumption DEF PerSlot, Per
<1>2. PICK to \in Nat : /\ to = Min({from + Word, Len(column)})
                        /\ to <= Len(column)
    <2>1. Len(column) \in Nat /\ Word \in Nat
        BY ColumnAssumption
    <2> QED BY <2>1, MinOfTwo
<1>3. PICK values : values = SubSeq(column, from + 1, to)
    OBVIOUS
<1>4. /\ batch.available = Len(values)
      /\ batch.slots =
             IF type = "bit"
             THEN << { k \in 0..(Len(values) - 1) : values[k + 1] = 1 } >>
             ELSE values
    BY <1>1, <1>2, <1>3 DEF BatchHolds
<1>5. \A i \in from + 1 .. to : i \in 1..Len(column)
    BY <1>2
<1>6. /\ Len(values) = IF from + 1 <= to THEN to - from ELSE 0
      /\ \A k \in 1..(to - from) : values[k] = column[from + k]
    BY <1>3, <1>5
<1>7. PICK k \in Nat : k = scanned - from /\ k < to - from /\ Len(values) = to - from
    <2>1. from <= scanned
        BY <1>1, Zenon
    <2>2. scanned < from + Len(values)
        BY <1>1, <1>4, Zenon
    <2>3. CASE from + 1 <= to
        BY <1>6, <2>1, <2>2, <2>3
    <2>4. CASE ~(from + 1 <= to)
        BY <1>6, <2>1, <2>2, <2>4
    <2> QED BY <2>3, <2>4
<1>8. scanned + 1 \in 1..Len(column) /\ from + (k + 1) = scanned + 1
    BY <1>2, <1>7
<1>9. k + 1 \in 1..(to - from) /\ k \in 0..(Len(values) - 1)
    BY <1>7
<1>10. values[k + 1] = column[scanned + 1]
    BY <1>6, <1>8, <1>9
<1>11. column[scanned + 1] \in ValuesOf(type)
    BY <1>8
<1>12. CASE type = "bit"
    <2>1. batch.slots[1] = { j \in 0..(Len(values) - 1) : values[j + 1] = 1 }
        BY <1>4, <1>12
    <2>2. k \in batch.slots[1] <=> column[scanned + 1] = 1
        BY <1>9, <1>10, <2>1
    <2>3. column[scanned + 1] \in {0, 1}
        BY <1>11, <1>12, TypesAre
    <2>4. BatchValue(k) = IF k \in batch.slots[1] THEN 1 ELSE 0
        BY <1>12 DEF BatchValue
    <2> QED BY <1>1, <1>7, <1>8, <2>2, <2>3, <2>4
<1>13. CASE type # "bit"
    <2>1. BatchValue(k) = values[k + 1]
        BY <1>4, <1>13 DEF BatchValue
    <2> QED BY <1>1, <1>7, <1>8, <1>10, <2>1
<1> QED BY <1>12, <1>13

------------------------------------------------------------------------------
(* The invariant holds at first and is kept *)

\* A new column is empty.
LEMMA Initially == IndexedInit => Inv
<1> SUFFICES ASSUME IndexedInit PROVE Inv
    OBVIOUS
<1>1. /\ type \in Types /\ column = <<>> /\ pc = "put" /\ scanned = 0 /\ count = 0
      /\ stored = NewColumn /\ page = None
      /\ position = None /\ passed = 0 /\ batch = None /\ late = FALSE
    BY DEF IndexedInit, Init
<1>2. IndexInv
    <2>1. <<>> \in Seq(ValuesOf(type))
        OBVIOUS
    <2>2. Len(<<>>) = 0 /\ 0 <= MaxRows
        BY IndexAssumption
    <2> QED BY <1>1, <2>1, <2>2 DEF IndexInv
<1>3. StoredInv
    <2>1. /\ stored.slots = <<>> /\ stored.count = 0 /\ stored.offset = 0
          /\ stored.size = InitialSize + OverAlloc /\ stored.mmapped = FALSE
        BY <1>1 DEF NewColumn
    <2>2. InitialSize + OverAlloc \in Nat /\ InitialSize + OverAlloc > 0
        BY ColumnAssumption
    <2>3. stored \in Columns(type)
        <3>1. <<>> \in Seq(Slots(type))
            OBVIOUS
        <3> QED BY <1>1, <2>2, <3>1 DEF Columns, NewColumn
    <2>4. Holds(type, column, stored.slots) /\ Used(type, stored.slots) = 0
        BY <1>1, <2>1, NoneHeld
    <2>5. IsColumn(type, column, stored)
        BY <1>1, <2>1, <2>2, <2>3, <2>4 DEF IsColumn
    <2> QED BY <2>1, <2>2, <2>5 DEF StoredInv
<1>4. PageInv /\ ScanInv
    BY <1>1 DEF PageInv, ScanInv
<1>5. CursorInv
    <2>1. 0 \in 0..(Wrap - 1)
        BY ColumnAssumption
    <2> QED BY <1>1, <2>1 DEF CursorInv
<1> QED BY <1>2, <1>3, <1>4, <1>5 DEF Inv

\* The column that is read is the one that was put.
LEMMA InUse ==
    ASSUME Inv, page = None \/ stored # None
    PROVE  /\ type \in Types /\ column \in Seq(ValuesOf(type)) /\ Len(column) < Wrap
           /\ IsColumn(type, column, stored)
           /\ Len(stored.slots) \in Nat /\ stored.slots \in Seq(Slots(type))
           /\ passed \in 0..(Wrap - 1) /\ late \in BOOLEAN
<1>1. type \in Types /\ column \in Seq(ValuesOf(type)) /\ Len(column) <= MaxRows
    BY DEF Inv, IndexInv
<1>2. Len(column) < Wrap
    <2>1. Wrap > MaxRows + Word /\ Wrap \in Nat /\ MaxRows \in Nat /\ Word \in Nat
        BY IndexedColumnAssumption, ColumnAssumption, IndexAssumption
    <2> QED BY <1>1, <2>1
<1>3. IsColumn(type, column, stored)
    BY DEF Inv, StoredInv
<1>4. stored.slots \in Seq(Slots(type))
    BY <1>3 DEF IsColumn, Columns
<1>5. Len(stored.slots) \in Nat
    BY <1>4
<1>6. passed \in 0..(Wrap - 1) /\ late \in BOOLEAN
    BY DEF Inv, CursorInv
<1> QED BY <1>1, <1>2, <1>3, <1>4, <1>5, <1>6

\* A put keeps it, and is a put of Index.
LEMMA PutKeeps ==
    ASSUME Inv, NEW v \in ValuesOf(type), PutValue(v)
    PROVE  Inv' /\ v \in Values /\ Put(v)
<1>1. /\ pc = "put" /\ Len(column) < MaxRows /\ column' = Append(column, v)
      /\ pc' = pc /\ scanned' = scanned /\ count' = count /\ ColumnPut(v)
      /\ type' = type /\ position' = position /\ passed' = passed
      /\ batch' = batch /\ late' = late /\ page' = page
    BY DEF PutValue, Put, cursorVars
<1>2. page = None /\ position = None /\ batch = None
    BY <1>1 DEF Inv, PageInv, CursorInv
<1>3. /\ type \in Types /\ column \in Seq(ValuesOf(type))
      /\ IsColumn(type, column, stored)
    BY <1>2, InUse
<1>4. IndexInv'
    <2>1. /\ Append(column, v) \in Seq(ValuesOf(type))
          /\ Len(Append(column, v)) = Len(column) + 1 /\ Len(column) \in Nat
        BY <1>3
    <2>2. Len(column) + 1 <= MaxRows
        BY <1>1, <2>1, IndexAssumption
    <2>3. scanned = 0 /\ count = 0
        BY <1>1 DEF Inv, IndexInv
    <2> QED BY <1>1, <1>3, <2>1, <2>2, <2>3 DEF IndexInv
<1>5. StoredInv'
    <2>1. ~stored.mmapped /\ stored.size > 0
        BY <1>2 DEF Inv, StoredInv
    <2>2. /\ IsColumn(type, Append(column, v), stored')
          /\ ~stored'.mmapped /\ stored'.size > 0
        BY <1>1, <1>3, <2>1, ValuePut
    <2> QED BY <1>1, <2>2 DEF StoredInv
<1>6. PageInv' /\ ScanInv'
    BY <1>1, <1>2 DEF PageInv, ScanInv
<1>7. CursorInv'
    <2>1. passed' \in 0..(Wrap - 1) /\ late' \in BOOLEAN
        BY <1>1 DEF Inv, CursorInv
    <2> QED BY <1>1, <1>2, <2>1 DEF CursorInv
<1>8. v \in Values /\ Put(v)
    <2>1. v \in Values
        BY <1>3, TypesAre
    <2> QED BY <2>1 DEF PutValue
<1> QED BY <1>4, <1>5, <1>6, <1>7, <1>8 DEF Inv

\* The same column holds the same.
Rigid == /\ type' = type /\ column' = column /\ stored' = stored /\ page' = page

\* So the buffer, the index and the page stay right.
LEMMA ColumnKept ==
    ASSUME Inv, Rigid, pc' = pc, scanned' \in Nat, count' = count, pc # "put"
    PROVE  IndexInv' /\ StoredInv' /\ PageInv'
<1>1. IndexInv'
    BY DEF Inv, IndexInv, Rigid
<1>2. StoredInv'
    BY DEF Inv, StoredInv, Rigid
<1>3. PageInv'
    BY DEF Inv, PageInv, Rigid
<1> QED BY <1>1, <1>2, <1>3

\* A cursor at the start has counted nothing.
LEMMA AtTheStart ==
    ASSUME Inv, page = None \/ stored # None
    PROVE  Before(type, column, 0) = 0
<1>1. PICK c, L : /\ c = column /\ c \in Seq(ValuesOf(type)) /\ L = Len(stored.slots)
                  /\ L \in Nat /\ type \in Types
    BY InUse
<1>2. 0 * Per(type) = 0
    BY <1>1, TypesAre
<1>3. Len(c) \in Nat
    BY <1>1
<1> QED BY <1>1, <1>2, <1>3, MinOfTwo DEF Before

\* Starting the index keeps it, with the cursor at the start.
LEMMA StartKeeps ==
    ASSUME Inv, StartIndex
    PROVE  Inv' /\ New
<1>1. /\ pc = "put" /\ pc' = "scan" /\ column' = column /\ scanned' = scanned
      /\ count' = count /\ type' = type /\ stored' = stored /\ page' = page
      /\ position' = 0 /\ passed' = 0 /\ batch' = None /\ late' = FALSE
    BY DEF StartIndex, New, CursorRewind
<1>2. page = None /\ scanned = 0 /\ count = 0
    BY <1>1 DEF Inv, PageInv, IndexInv
<1>3. Before(type, column, 0) = 0 /\ Len(stored.slots) \in Nat
    BY <1>2, AtTheStart, InUse
<1>4. IndexInv' /\ StoredInv'
    BY <1>1, <1>2 DEF Inv, IndexInv, StoredInv
<1>5. PageInv'
    BY <1>1, <1>2 DEF PageInv
<1>6. Counted' /\ position' \in 0..Len(stored'.slots)
    BY <1>1, <1>3 DEF Counted
<1>7. CursorInv'
    <2>1. 0 \in 0..(Wrap - 1)
        BY ColumnAssumption
    <2> QED BY <1>1, <1>2, <1>6, <2>1 DEF CursorInv
<1>8. ScanInv'
    BY <1>1, <1>2, <1>3, <1>6 DEF ScanInv
<1> QED BY <1>4, <1>5, <1>7, <1>8 DEF Inv, StartIndex

\* The cursor's next batch is the next batch of Index.
LEMMA BatchKeeps ==
    ASSUME Inv, NextBatchOfCursor
    PROVE  Inv' /\ NextBatch
<1>1. /\ pc = "scan" /\ scanned = count /\ position < Len(stored.slots)
      /\ CursorNextBatch /\ CursorAdvance(SkippedSlots(Word))
      /\ count' = count + batch'.available
      /\ column' = column /\ pc' = pc /\ scanned' = scanned
      /\ min' = min /\ max' = max
      /\ type' = type /\ stored' = stored /\ page' = page
    BY DEF NextBatchOfCursor, CursorValid, CursorNextBatch
<1>2. page = None
    BY <1>1 DEF Inv, PageInv
<1>3. PICK c, L : /\ c = column /\ c \in Seq(ValuesOf(type)) /\ Len(c) < Wrap
                  /\ L \in Nat /\ L = Len(stored.slots)
                  /\ type \in Types /\ IsColumn(type, c, stored)
                  /\ stored.slots \in Seq(Slots(type)) /\ Holds(type, c, stored.slots)
                  /\ passed \in 0..(Wrap - 1) /\ late \in BOOLEAN
    BY <1>2, InUse DEF IsColumn
<1>4. /\ position \in 0..L /\ Counted /\ ~late
      /\ count = Before(type, c, position)
    BY <1>1, <1>3 DEF Inv, ScanInv
<1>5. PICK n \in 0..(L - position) : n = SkippedSlots(Word)
    BY <1>3, <1>4, ColumnAssumption, SkippedIs
<1>6. /\ position' = position + n /\ position' \in 0..L
      /\ Counted' /\ passed' \in 0..(Wrap - 1) /\ late' = late
    BY <1>1, <1>3, <1>4, <1>5, AdvanceCounts
<1>7. PICK from \in Nat, to \in Nat :
          /\ from = position * Per(type) /\ from = position * PerSlot
          /\ to = Before(type, c, position + n)
          /\ to = Min({from + Word, Len(c)})
          /\ batch'.first = position /\ batch'.available = to - from
          /\ BatchHolds(type, c, batch')
          /\ from < Len(c) /\ count = from
    <2>1. /\ batch'.first = position
          /\ batch'.available = Before(type, c, position + n) - position * Per(type)
          /\ Before(type, c, position + n) = Min({position * Per(type) + Word, Len(c)})
          /\ BatchHolds(type, c, batch')
        BY <1>1, <1>3, <1>4, <1>5, BatchIs
    <2>2. /\ position * Per(type) \in Nat /\ Before(type, c, position) = position * Per(type)
          /\ position * Per(type) < Len(c)
        BY <1>1, <1>3, <1>4, BeforeIs
    <2>3. Before(type, c, position + n) \in Nat
        <3>1. PICK q \in 0..L : q = position + n
            BY <1>3, <1>4
        <3>2. Before(type, c, q) \in 0..Len(c)
            BY <1>3, BeforeIs
        <3> QED BY <1>3, <3>1, <3>2
    <2>4. Per(type) = PerSlot
        BY DEF Per, PerSlot
    <2> QED BY <1>4, <2>1, <2>2, <2>3, <2>4
<1>8. to = IF from + Word < Len(c) THEN from + Word ELSE Len(c)
    <2>1. Len(c) \in Nat /\ Word \in Nat
        BY <1>3, ColumnAssumption
    <2> QED BY <1>7, <2>1, MinOfTwo
<1>9. count' = to /\ from <= to /\ to \in Nat
    <2>1. Len(c) \in Nat /\ Word \in Nat
        BY <1>3, ColumnAssumption
    <2>2. count' = from + (to - from)
        BY <1>1, <1>7, Zenon
    <2>3. from <= to
        BY <1>7, <1>8, <2>1
    <2> QED BY <2>2, <2>3
<1>10. NextBatch
    <2>1. BatchSize = Word
        BY IndexedColumnAssumption
    <2> QED BY <1>1, <1>3, <1>7, <1>8, <1>9, <2>1 DEF NextBatch
<1>11. IndexInv' /\ StoredInv' /\ PageInv'
    <2>1. IndexInv'
        BY <1>1, <1>9 DEF Inv, IndexInv
    <2>2. StoredInv'
        BY <1>1 DEF Inv, StoredInv
    <2> QED BY <1>1, <1>2, <2>1, <2>2 DEF PageInv
<1>12. CursorInv'
    BY <1>1, <1>2, <1>3, <1>4, <1>6, <1>7 DEF CursorInv
<1>13. ScanInv'
    <2>1. /\ column' = c /\ type' = type /\ Len(stored'.slots) = L
          /\ position' \in 0..L /\ Counted' /\ ~late'
        BY <1>1, <1>3, <1>4, <1>6
    <2>2. count' = Before(type', column', position')
        BY <1>6, <1>7, <1>9, <2>1
    <2>3. scanned' = from /\ scanned' <= count'
        BY <1>1, <1>7, <1>9
    <2>4. batch'.first = position /\ batch'.first \in Nat
        BY <1>4, <1>7
    <2>5. count' = from + batch'.available
        <3>1. /\ count' = to /\ batch'.available = to - from
              /\ to \in Nat /\ from \in Nat
            BY <1>7, <1>9, Zenon
        <3> QED BY ONLY <3>1
    <2>6. batch'.first * PerSlot = from /\ BatchHolds(type', column', batch')
        BY <1>7, <2>1, <2>4
    <2>7. scanned' < count' => batch'.first < Len(stored'.slots)
        <3>1. position < L
            BY <1>1, <1>3
        <3> QED BY <2>1, <2>4, <3>1
    <2>8. batch'.first * PerSlot <= scanned' /\ count' = batch'.first * PerSlot + batch'.available
        BY <1>7, <2>3, <2>5, <2>6
    <2> QED BY <2>1, <2>2, <2>3, <2>4, <2>6, <2>7, <2>8 DEF ScanInv, PerSlot
<1> QED BY <1>10, <1>11, <1>12, <1>13 DEF Inv

\* Taking a value of the batch is taking the value that was put.
LEMMA UpdateKeeps ==
    ASSUME Inv, UpdateFromBatch
    PROVE  Inv' /\ Update
<1>1. /\ pc = "scan" /\ scanned < count
      /\ Take(BatchValue(scanned - batch.first * PerSlot))
      /\ scanned' = scanned + 1 /\ column' = column /\ pc' = pc /\ count' = count
      /\ type' = type /\ stored' = stored /\ page' = page
      /\ position' = position /\ passed' = passed /\ batch' = batch /\ late' = late
    BY DEF UpdateFromBatch, columnVars, cursorVars
<1>2. /\ type \in Types /\ column \in Seq(ValuesOf(type))
      /\ scanned \in Nat /\ count \in Nat
    BY DEF Inv, IndexInv
<1>3. /\ BatchHolds(type, column, batch) /\ batch.first \in Nat
      /\ batch.first * PerSlot <= scanned
      /\ scanned < batch.first * PerSlot + batch.available
    BY <1>1 DEF Inv, ScanInv
<1>4. BatchValue(scanned - batch.first * PerSlot) = column[scanned + 1]
    BY <1>2, <1>3, ValueRead
<1>5. Update
    BY <1>1, <1>4 DEF Update
<1>6. IndexInv' /\ StoredInv' /\ PageInv'
    <2>1. scanned' \in Nat
        BY <1>1, <1>2
    <2> QED BY <1>1, <2>1, ColumnKept DEF Rigid
<1>7. CursorInv'
    BY <1>1 DEF Inv, CursorInv, Counted
<1>8. ScanInv'
    <2>1. /\ position \in 0..Len(stored.slots) /\ Counted /\ ~late
          /\ count = Before(type, column, position)
          /\ batch.first < Len(stored.slots)
          /\ count = batch.first * PerSlot + batch.available
        BY <1>1 DEF Inv, ScanInv
    <2>2. Counted'
        BY <1>1, <2>1 DEF Counted
    <2>3. scanned + 1 <= count
        BY <1>1, <1>2
    <2>4. PICK from \in Nat : from = batch.first * PerSlot
        BY <1>3, ColumnAssumption DEF PerSlot
    <2>5. from <= scanned + 1
        BY <1>2, <1>3, <2>4
    <2>6. (batch.first * PerSlot)' = from /\ from <= scanned'
        BY <1>1, <2>4, <2>5 DEF PerSlot
    <2> QED BY <1>1, <1>3, <2>1, <2>2, <2>3, <2>4, <2>6 DEF ScanInv
<1> QED BY <1>5, <1>6, <1>7, <1>8 DEF Inv

\* The cursor is at the end when every value has been counted.
LEMMA FinishKeeps ==
    ASSUME Inv, FinishIndex
    PROVE  Inv' /\ Built
<1>1. /\ pc = "scan" /\ scanned = count /\ ~(position < Len(stored.slots))
      /\ pc' = "done" /\ column' = column /\ scanned' = scanned /\ count' = count
      /\ min' = min /\ max' = max
      /\ type' = type /\ stored' = stored /\ page' = page
      /\ position' = None /\ passed' = 0 /\ batch' = None /\ late' = FALSE
    BY DEF FinishIndex, CursorValid, CursorFree
<1>2. page = None
    BY <1>1 DEF Inv, PageInv
<1>3. PICK L \in Nat : /\ L = Len(stored.slots) /\ position \in 0..L
                       /\ count = Before(type, column, position)
    BY <1>1, <1>2, InUse DEF Inv, ScanInv
<1>4. position = L
    BY <1>1, <1>3
<1>5. count = Len(column)
    <2>1. /\ type \in Types /\ column \in Seq(ValuesOf(type))
          /\ stored.slots \in Seq(Slots(type)) /\ Holds(type, column, stored.slots)
        BY <1>2, InUse DEF IsColumn
    <2> QED BY <1>3, <1>4, <2>1, BeforeIs
<1>6. Built
    BY <1>1, <1>5 DEF Built
<1>7. IndexInv' /\ StoredInv' /\ PageInv'
    <2>1. IndexInv'
        BY <1>1, <1>5 DEF Inv, IndexInv
    <2>2. StoredInv'
        BY <1>1 DEF Inv, StoredInv
    <2> QED BY <1>1, <1>2, <2>1, <2>2 DEF PageInv
<1>8. CursorInv' /\ ScanInv'
    <2>1. 0 \in 0..(Wrap - 1)
        BY ColumnAssumption
    <2> QED BY <1>1, <1>2, <2>1 DEF CursorInv, ScanInv
<1> QED BY <1>6, <1>7, <1>8 DEF Inv

\* A flush that fails leaves the column as it was.
LEMMA FlushFailsKeeps ==
    ASSUME Inv, FlushFails
    PROVE  Inv' /\ Discard
<1>1. /\ pc = "done" /\ pc' = "put" /\ scanned' = 0 /\ count' = 0
      /\ column' = column /\ page = None
      /\ type' = type /\ stored' = stored /\ page' = page
      /\ position' = position /\ passed' = passed /\ batch' = batch /\ late' = late
    BY DEF FlushFails, Discard, columnVars, cursorVars
<1>2. IndexInv' /\ StoredInv' /\ PageInv'
    BY <1>1 DEF Inv, IndexInv, StoredInv, PageInv
<1>3. position = None /\ batch = None
    BY <1>1 DEF Inv, CursorInv
<1>4. CursorInv' /\ ScanInv'
    BY <1>1, <1>3 DEF Inv, CursorInv, ScanInv
<1> QED BY <1>2, <1>4 DEF Inv, FlushFails

\* The column that is written is the one that was put.
LEMMA WriteKeeps ==
    ASSUME Inv, NEW compressed \in BOOLEAN, Write(compressed)
    PROVE  Inv' /\ UNCHANGED vars
<1>1. /\ pc = "done" /\ page = None /\ UNCHANGED vars
      /\ page' = [slots |-> stored.slots, compressed |-> compressed,
                  size |-> stored.offset]
      /\ stored' = None /\ type' = type
      /\ position' = position /\ passed' = passed /\ batch' = batch /\ late' = late
    BY DEF Write, indexVars, cursorVars
<1>2. column' = column /\ pc' = pc /\ scanned' = scanned /\ count' = count
    BY <1>1 DEF vars
<1>3. /\ stored.slots \in Seq(Slots(type)) /\ stored.offset \in Nat
      /\ Holds(type, column, stored.slots)
      /\ stored.offset = Used(type, stored.slots) /\ type \in Types
    BY <1>1, InUse DEF IsColumn, Columns
<1>4. page' \in Pages(type)
    BY <1>1, <1>3 DEF Pages
<1>5. page' # None
    BY <1>3, <1>4, IndexedColumnAssumption DEF Pages
<1>6. position = None /\ batch = None
    BY <1>1 DEF Inv, CursorInv
<1>7. IndexInv'
    BY <1>1, <1>2 DEF Inv, IndexInv
<1>8. StoredInv'
    BY <1>1, <1>5 DEF StoredInv
<1>9. PageInv'
    <2>1. page'.slots = stored.slots /\ page'.size = stored.offset
        BY <1>1
    <2> QED BY <1>1, <1>2, <1>3, <1>4, <2>1 DEF PageInv
<1>10. CursorInv'
    BY <1>1, <1>6 DEF Inv, CursorInv
<1>11. ScanInv'
    BY <1>1, <1>2 DEF ScanInv
<1> QED BY <1>1, <1>7, <1>8, <1>9, <1>10, <1>11 DEF Inv

\* A reader leaves the values and the page as they are.
Reading == /\ page # None /\ page' = page /\ type' = type /\ UNCHANGED vars

\* So all but the cursor is as it was.
LEMMA ReadingKeeps ==
    ASSUME Inv, Reading
    PROVE  /\ IndexInv' /\ PageInv' /\ ScanInv'
           /\ column' = column /\ count = Len(column) /\ column \in Seq(ValuesOf(type))
<1>1. /\ column' = column /\ pc' = pc /\ scanned' = scanned /\ count' = count
      /\ page' = page /\ type' = type /\ pc = "done"
    BY DEF Reading, vars, Inv, PageInv
<1>2. IndexInv' /\ PageInv'
    BY <1>1 DEF Inv, IndexInv, PageInv
<1>3. ScanInv'
    BY <1>1 DEF ScanInv
<1> QED BY <1>1, <1>2, <1>3 DEF Inv, IndexInv

\* The column that is opened is the one that was put.
LEMMA LazyInitKeeps ==
    ASSUME Inv, LazyColumnInit
    PROVE  Inv' /\ UNCHANGED vars
<1>1. /\ page # None /\ stored = None
      /\ stored' = IF page.compressed
                   THEN NewCompressed(page.slots, page.size, count)
                   ELSE NewMmapped(page.slots, page.size, count)
      /\ UNCHANGED vars /\ type' = type /\ page' = page
      /\ position' = position /\ passed' = passed /\ batch' = batch /\ late' = late
    BY DEF LazyColumnInit, indexVars, cursorVars
<1>2. /\ IndexInv' /\ PageInv' /\ ScanInv'
      /\ column' = column /\ count = Len(column) /\ column \in Seq(ValuesOf(type))
    BY <1>1, ReadingKeeps DEF Reading
<1>3. /\ page.slots \in Seq(Slots(type)) /\ page.size \in Nat
      /\ Holds(type, column, page.slots) /\ page.size = Used(type, page.slots)
    BY <1>1 DEF Inv, PageInv, Pages
<1>4. IsColumn(type, column, stored')
    <2>1. PICK slots, size, n, m :
              /\ slots = page.slots /\ size = page.size /\ n = count
              /\ slots \in Seq(Slots(type)) /\ size \in Nat /\ n \in Nat
              /\ m \in BOOLEAN /\ m = ~page.compressed
        <3>1. count \in Nat
            BY <1>2
        <3> QED BY <1>3, <3>1
    <2>2. PICK room \in Nat :
              /\ size <= room
              /\ \E mapped \in BOOLEAN :
                    stored' = [slots |-> slots, count |-> n, offset |-> size,
                               size |-> room, mmapped |-> mapped]
        <3>1. CASE page.compressed
            <4>1. stored' = [slots |-> slots, count |-> n, offset |-> size,
                             size |-> size + OverAlloc, mmapped |-> FALSE]
                BY <1>1, <2>1, <3>1 DEF NewCompressed
            <4>2. size + OverAlloc \in Nat /\ size <= size + OverAlloc
                BY <2>1, ColumnAssumption
            <4> QED BY <4>1, <4>2
        <3>2. CASE ~page.compressed
            <4>1. stored' = [slots |-> slots, count |-> n, offset |-> size,
                             size |-> size, mmapped |-> TRUE]
                BY <1>1, <2>1, <3>2 DEF NewMmapped
            <4>2. size \in Nat /\ size <= size
                BY <2>1
            <4> QED BY <4>1, <4>2
        <3> QED BY <3>1, <3>2
    <2>3. stored' \in Columns(type)
        BY <2>1, <2>2 DEF Columns
    <2>4. /\ stored'.slots = slots /\ stored'.count = n /\ stored'.offset = size
          /\ stored'.size = room
        BY <2>2
    <2> QED BY <1>2, <1>3, <2>1, <2>2, <2>3, <2>4 DEF IsColumn
<1>5. StoredInv'
    BY <1>1, <1>2, <1>4 DEF StoredInv
<1>6. CursorInv'
    <2>1. position = None /\ batch = None
        BY <1>1 DEF Inv, CursorInv
    <2> QED BY <1>1, <2>1 DEF Inv, CursorInv
<1> QED BY <1>1, <1>2, <1>5, <1>6 DEF Inv

\* Without a column there is no cursor.
LEMMA FreeKeeps ==
    ASSUME Inv, FreeRowGroup
    PROVE  Inv' /\ UNCHANGED vars
<1>1. /\ page # None /\ stored' = None /\ UNCHANGED vars /\ type' = type /\ page' = page
      /\ position' = None /\ passed' = 0 /\ batch' = None /\ late' = FALSE
    BY DEF FreeRowGroup, indexVars, CursorFree
<1>2. IndexInv' /\ PageInv' /\ ScanInv'
    BY <1>1, ReadingKeeps DEF Reading
<1>3. StoredInv'
    BY <1>1 DEF StoredInv
<1>4. CursorInv'
    <2>1. 0 \in 0..(Wrap - 1)
        BY ColumnAssumption
    <2> QED BY <1>1, <2>1 DEF CursorInv
<1> QED BY <1>1, <1>2, <1>3, <1>4 DEF Inv

\* A new cursor has counted nothing.
LEMMA CursorNewKeeps ==
    ASSUME Inv, CursorNew
    PROVE  Inv' /\ UNCHANGED vars
<1>1. /\ page # None /\ stored # None /\ UNCHANGED vars /\ type' = type /\ page' = page
      /\ stored' = stored
      /\ position' = 0 /\ passed' = 0 /\ batch' = None /\ late' = FALSE
    BY DEF CursorNew, Opened, indexVars, CursorRewind
<1>2. IndexInv' /\ PageInv' /\ ScanInv' /\ column' = column
    BY <1>1, ReadingKeeps DEF Reading
<1>3. StoredInv'
    BY <1>1, <1>2 DEF Inv, StoredInv
<1>4. CursorInv'
    <2>1. 0 \in 0..(Wrap - 1)
        BY ColumnAssumption
    <2>2. Before(type, column, 0) = 0 /\ Len(stored.slots) \in Nat
        BY <1>1, AtTheStart, InUse
    <2>3. Counted' /\ position' \in 0..Len(stored'.slots)
        BY <1>1, <1>2, <2>2 DEF Counted
    <2> QED BY <1>1, <2>1, <2>3 DEF CursorInv
<1> QED BY <1>1, <1>2, <1>3, <1>4 DEF Inv

\* Skipping batches keeps the count, wherever the cursor is.
LEMMA SkipKeeps ==
    ASSUME Inv, NEW batches \in Nat, Skip(batches)
    PROVE  Inv' /\ UNCHANGED vars
<1>1. /\ page # None /\ stored # None /\ position # None
      /\ CursorAdvance(SkippedSlots(batches * Word)) /\ batch' = None
      /\ UNCHANGED vars /\ type' = type /\ page' = page /\ stored' = stored
    BY DEF Skip, Opened, CursorSkip, indexVars
<1>2. IndexInv' /\ PageInv' /\ ScanInv' /\ column' = column
    BY <1>1, ReadingKeeps DEF Reading
<1>3. StoredInv'
    BY <1>1, <1>2 DEF Inv, StoredInv
<1>4. PICK L \in Nat : /\ L = Len(stored.slots) /\ position \in 0..L
                       /\ Counted
    BY <1>1, InUse DEF Inv, CursorInv
<1>5. PICK n \in 0..(L - position) : n = SkippedSlots(batches * Word)
    <2>1. PICK k \in Nat : k = batches * Word
        BY ColumnAssumption
    <2>2. type \in Types
        BY <1>1, InUse
    <2>3. SkippedSlots(k) \in 0..(L - position)
        BY <1>4, <2>2, SkippedIs
    <2> QED BY <2>1, <2>3
<1>6. /\ position' \in 0..L /\ Counted'
      /\ passed' \in 0..(Wrap - 1) /\ late' \in BOOLEAN
    BY <1>1, <1>2, <1>4, <1>5, InUse, AdvanceCounts
<1>7. CursorInv'
    BY <1>1, <1>4, <1>6 DEF CursorInv
<1> QED BY <1>1, <1>2, <1>3, <1>7 DEF Inv

\* So does reading a batch, which holds the values at its place.
LEMMA ReadKeeps ==
    ASSUME Inv, ReadBatch
    PROVE  Inv' /\ UNCHANGED vars
<1>1. /\ page # None /\ stored # None /\ position # None
      /\ CursorNextBatch /\ CursorAdvance(SkippedSlots(Word))
      /\ batch'.first = position
      /\ UNCHANGED vars /\ type' = type /\ page' = page /\ stored' = stored
    BY DEF ReadBatch, Opened, CursorNextBatch, indexVars
<1>2. IndexInv' /\ PageInv' /\ ScanInv' /\ column' = column
    BY <1>1, ReadingKeeps DEF Reading
<1>3. StoredInv'
    BY <1>1, <1>2 DEF Inv, StoredInv
<1>4. PICK L \in Nat : /\ L = Len(stored.slots) /\ position \in 0..L
                       /\ Counted
    BY <1>1, InUse DEF Inv, CursorInv
<1>5. PICK n \in 0..(L - position) : n = SkippedSlots(Word)
    <2>1. type \in Types /\ Word \in Nat
        BY <1>1, InUse, ColumnAssumption
    <2>2. SkippedSlots(Word) \in 0..(L - position)
        BY <1>4, <2>1, SkippedIs
    <2> QED BY <2>2
<1>6. /\ position' \in 0..L /\ Counted'
      /\ passed' \in 0..(Wrap - 1) /\ late' \in BOOLEAN
    BY <1>1, <1>2, <1>4, <1>5, InUse, AdvanceCounts
<1>7. position < L => BatchHolds(type, column, batch')
    <2>1. PICK c : /\ c = column /\ c \in Seq(ValuesOf(type)) /\ Len(c) < Wrap
                   /\ type \in Types /\ IsColumn(type, c, stored)
        BY <1>1, InUse
    <2> QED BY <1>1, <1>4, <2>1, BatchIs
<1>8. CursorInv'
    BY <1>1, <1>2, <1>4, <1>6, <1>7 DEF CursorInv
<1> QED BY <1>1, <1>2, <1>3, <1>8 DEF Inv

------------------------------------------------------------------------------
(* The theorems *)

\* Every step keeps the invariant and is a step of Index, or none.
LEMMA StepKeeps == Inv /\ [IndexedNext]_indexedVars => Inv' /\ [Next]_vars
<1> SUFFICES ASSUME Inv, [IndexedNext]_indexedVars PROVE Inv' /\ [Next]_vars
    OBVIOUS
<1>1. CASE UNCHANGED indexedVars
    <2>1. /\ UNCHANGED vars /\ column' = column /\ pc' = pc /\ scanned' = scanned
          /\ count' = count /\ type' = type /\ stored' = stored /\ page' = page
          /\ position' = position /\ passed' = passed /\ batch' = batch /\ late' = late
        BY <1>1 DEF indexedVars, vars, columnVars, cursorVars
    <2>2. IndexInv' /\ StoredInv' /\ PageInv'
        BY <2>1 DEF Inv, IndexInv, StoredInv, PageInv
    <2>3. CursorInv' /\ ScanInv'
        BY <2>1 DEF Inv, CursorInv, ScanInv, Counted, PerSlot
    <2> QED BY <2>1, <2>2, <2>3 DEF Inv
<1>2. CASE \E v \in ValuesOf(type) : PutValue(v)
    <2>1. PICK v \in ValuesOf(type) : PutValue(v)
        BY <1>2
    <2>2. Inv' /\ v \in Values /\ Put(v)
        BY <2>1, PutKeeps
    <2> QED BY <2>2 DEF Next
<1>3. CASE StartIndex
    BY <1>3, StartKeeps DEF Next
<1>4. CASE NextBatchOfCursor
    BY <1>4, BatchKeeps DEF Next
<1>5. CASE UpdateFromBatch
    BY <1>5, UpdateKeeps DEF Next
<1>6. CASE FinishIndex
    BY <1>6, FinishKeeps DEF Next
<1>7. CASE FlushFails
    BY <1>7, FlushFailsKeeps DEF Next
<1>8. CASE \E compressed \in BOOLEAN : Write(compressed)
    BY <1>8, WriteKeeps
<1>9. CASE LazyColumnInit
    BY <1>9, LazyInitKeeps
<1>10. CASE FreeRowGroup
    BY <1>10, FreeKeeps
<1>11. CASE CursorNew
    BY <1>11, CursorNewKeeps
<1>12. CASE \E batches \in 0..MaxRows : Skip(batches)
    BY <1>12, SkipKeeps
<1>13. CASE ReadBatch
    BY <1>13, ReadKeeps
<1> QED
    BY <1>1, <1>2, <1>3, <1>4, <1>5, <1>6, <1>7, <1>8, <1>9, <1>10, <1>11, <1>12, <1>13
       DEF IndexedNext

\* The invariant holds of every column.
THEOREM ColumnInvariance == IndexedSpec => []Inv
<1>1. IndexedInit => Inv
    BY Initially
<1>2. Inv /\ [IndexedNext]_indexedVars => Inv'
    BY StepKeeps
<1> QED BY <1>1, <1>2, PTL DEF IndexedSpec

\* Building the index over the cursor, batch by batch, of a column of any type is
\* building it over the values put, so that what is proved of Index above holds
\* of cx_index_new as it goes through the column.
THEOREM ColumnImplementsIndex == IndexedSpec => ImplementsIndex
<1>1. IndexedInit => Init
    BY DEF IndexedInit
<1>2. Inv /\ [IndexedNext]_indexedVars => [Next]_vars
    BY StepKeeps
<1> QED BY <1>1, <1>2, ColumnInvariance, PTL DEF IndexedSpec, ImplementsIndex, Spec

\* Every variable of the column keeps its type, and the cursor never goes past
\* the end, which column.c:297 asserts.
THEOREM ColumnTypeCorrect == IndexedSpec => []ColumnTypeOK
<1>1. Inv => ColumnTypeOK
    <2> SUFFICES ASSUME Inv PROVE ColumnTypeOK
        OBVIOUS
    <2>1. type \in Types /\ passed \in 0..(Wrap - 1) /\ late \in BOOLEAN
        BY DEF Inv, IndexInv, CursorInv
    <2>2. ASSUME stored # None
          PROVE  /\ stored.count \in Nat /\ stored.offset \in Nat
                 /\ stored.size \in Nat /\ stored.mmapped \in BOOLEAN
                 /\ position # None => position \in 0..Len(stored.slots)
        <3>1. stored \in Columns(type)
            BY <2>2, InUse DEF IsColumn
        <3>2. position # None => position \in 0..Len(stored.slots)
            BY DEF Inv, CursorInv
        <3>3. stored.count \in Nat /\ stored.offset \in Nat /\ stored.size \in Nat
            BY <3>1 DEF Columns
        <3>4. stored.mmapped \in BOOLEAN
            BY <3>1, Zenon DEF Columns
        <3> QED BY <3>2, <3>3, <3>4
    <2> QED BY <2>1, <2>2 DEF ColumnTypeOK
<1> QED BY <1>1, ColumnInvariance, PTL

\* The buffer has room for what is in it: however often a column is resized, filled
\* and refilled after a flush that failed, cx_column_put never writes past its end.
THEOREM BufferHoldsItsValues == IndexedSpec => []ValuesLieInTheBuffer
<1>1. Inv => ValuesLieInTheBuffer
    <2> SUFFICES ASSUME Inv, stored # None
                 PROVE  /\ stored.offset <= stored.size
                        /\ stored.offset = Total([i \in DOMAIN stored.slots |->
                                                     SlotSize(stored.slots[i])])
        BY DEF ValuesLieInTheBuffer
    <2>1. stored.offset <= stored.size /\ stored.offset = Used(type, stored.slots)
        BY InUse DEF IsColumn
    <2>2. Sizes(type, stored.slots) =
              [i \in DOMAIN stored.slots |-> SlotSize(stored.slots[i])]
        BY DEF Sizes, SlotSize
    <2> QED BY <2>1, <2>2 DEF Used
<1> QED BY <1>1, ColumnInvariance, PTL

\* A batch holds the values that were put at its place, in order, whoever reads the
\* column and whatever was skipped before; the last word of bits has none beyond.
THEOREM BatchesAreWhatWasPut == IndexedSpec => []BatchIsWhatWasPut
<1>1. Inv => BatchIsWhatWasPut
    <2> SUFFICES ASSUME Inv, batch # None, batch.first < Len(stored.slots)
                 PROVE  BatchIsWhatWasPut
        BY DEF BatchIsWhatWasPut
    <2>1. BatchHolds(type, column, batch)
        BY DEF Inv, CursorInv
    <2>2. Per(type) = PerSlot
        BY DEF Per, PerSlot
    <2> QED BY <2>1, <2>2 DEF BatchHolds, BatchIsWhatWasPut
<1> QED BY <1>1, ColumnInvariance, PTL

\* What skips and batches answer adds up to where the cursor is, but for a cursor
\* of bits that was asked for more at its end: size_t never wraps round before.
THEOREM CursorCounts == IndexedSpec => []CursorCountsWhatItPasses
<1>1. Inv => CursorCountsWhatItPasses
    <2> SUFFICES ASSUME Inv, position # None
                 PROVE  \/ passed = Min({position * PerSlot, Len(column)})
                        \/ late /\ type = "bit" /\ Len(column) % Word # 0
        BY DEF CursorCountsWhatItPasses
    <2>1. Counted
        BY DEF Inv, CursorInv
    <2> QED BY <2>1 DEF Counted, Before, Per, PerSlot
<1> QED BY <1>1, ColumnInvariance, PTL

\* The verdicts from the index that cx_index_new has built over the stored column
\* never rule out a row group that has a row that matches, and are all sound of
\* numbers without NaN, of bits and of the lengths of strings.
THEOREM StoredVerdicts ==
    IndexedSpec => /\ [](TypeOK /\ SkippedGroupsHaveNoMatch)
                   /\ [](NumericVerdictsAreSound /\ BitVerdictsAreSound)
                   /\ []LengthVerdictsAreSound
BY ColumnImplementsIndex, TypeCorrect, SkippingIsSound, NumericVerdicts, BitVerdicts,
   LengthVerdicts, PTL DEF ImplementsIndex
===============================================================================
