------------------------- MODULE RowGroupWriterProofs -------------------------
(***************************************************************************)
(* Proofs about RowGroupWriter, for any row groups, columns, calls and     *)
(* failures.  The file is looked at as a size and a block at each offset,  *)
(* so that a write is one block more; what has to be shown is that no      *)
(* write, of a call that succeeds or fails, comes below the end of what    *)
(* was accepted before the call.                                           *)
(***************************************************************************)
EXTENDS RowGroupWriter, TLAPS, SequenceTheorems, SequenceLemmas

------------------------------------------------------------------------------
(* The file of StdioFile, for blocks of any kind. *)

\* Aligning goes up by one at most.
LEMMA AlignIs ==
    ASSUME NEW n \in Nat
    PROVE  /\ Align(n) \in Nat /\ Align(n) % 2 = 0
           /\ n <= Align(n) /\ Align(n) <= n + 1
           /\ n % 2 = 0 => Align(n) = n
BY DEF Align

\* Even offsets have slots of their own.
LEMMA SlotIs ==
    ASSUME NEW m \in Nat, NEW n \in Nat, m % 2 = 0, n % 2 = 0
    PROVE  /\ Slot(m) \in Nat \ {0}
           /\ Slot(m) = Slot(n) <=> m = n
           /\ Slot(m) < Slot(n) <=> m < n
           /\ Slot(m) <= n \div 2 <=> m < n
BY DEF Slot

\* The slots and the ends of a sequence of writes have a last one.
LEMMA Extents ==
    ASSUME NEW B, NEW f \in File(B), NEW writes \in Seq(Writes(B))
    PROVE  LET slots == {Len(f.at)} \cup {Slot(w.offset) : w \in Range(writes)}
               ends  == {f.size} \cup {w.offset + w.size : w \in Range(writes)}
           IN /\ Max(slots) \in slots /\ \A i \in slots : i <= Max(slots)
              /\ Max(ends) \in ends /\ \A i \in ends : i <= Max(ends)
              /\ slots \in SUBSET Nat /\ ends \in SUBSET Nat
<1> DEFINE slots == {Len(f.at)} \cup {Slot(w.offset) : w \in Range(writes)}
           ends  == {f.size} \cup {w.offset + w.size : w \in Range(writes)}
           n == Len(writes)
           g == [k \in 1..n |-> Slot(writes[k].offset)]
           h == [k \in 1..n |-> writes[k].offset + writes[k].size]
<1>1. /\ n \in Nat /\ Len(f.at) \in Nat /\ f.size \in Nat
      /\ \A k \in 1..n : writes[k] \in Writes(B)
      /\ Range(writes) = {writes[k] : k \in 1..n}
    BY DEF File, Range
<1>2. \A k \in 1..n : /\ Slot(writes[k].offset) \in Nat
                      /\ writes[k].offset + writes[k].size \in Nat
    <2>1. ASSUME NEW k \in 1..n
          PROVE  /\ Slot(writes[k].offset) \in Nat
                 /\ writes[k].offset + writes[k].size \in Nat
        <3>1. PICK w \in Writes(B) : w = writes[k]
            BY <1>1
        <3>2. w.offset \in Nat /\ w.size \in Nat /\ w.offset % 2 = 0
            BY ONLY <3>1 DEF Writes
        <3>3. Slot(w.offset) \in Nat /\ w.offset + w.size \in Nat
            BY ONLY <3>2, SlotIs
        <3> QED BY <3>1, <3>3
    <2> QED BY <2>1
<1>3. g \in [1..n -> Nat] /\ h \in [1..n -> Nat]
    BY <1>2
<1>4. PICK b \in Nat : \A k \in 1..n : g[k] <= b
    <2> HIDE DEF g
    <2> QED BY <1>1, <1>3, NumbersBounded
<1>5. PICK c \in Nat : \A k \in 1..n : h[k] <= c
    <2> HIDE DEF h
    <2> QED BY <1>1, <1>3, NumbersBounded
<1>6. /\ slots \in SUBSET Nat /\ slots # {} /\ \A i \in slots : i <= b + Len(f.at)
      /\ b + Len(f.at) \in Nat
    BY <1>1, <1>2, <1>4
<1>7. /\ ends \in SUBSET Nat /\ ends # {} /\ \A i \in ends : i <= c + f.size
      /\ c + f.size \in Nat
    <2>1. c + f.size \in Nat /\ f.size <= c + f.size
        BY <1>1
    <2>2. ASSUME NEW i \in ends PROVE i \in Nat /\ i <= c + f.size
        <3>1. CASE i = f.size
            BY <1>1, <2>1, <3>1
        <3>2. CASE i # f.size
            <4>1. PICK k \in 1..n : i = h[k]
                BY <1>1, <3>2, Zenon
            <4>2. h[k] \in Nat /\ h[k] <= c
                BY <1>3, <1>5
            <4> HIDE DEF h
            <4> QED BY <1>1, <4>1, <4>2
        <3> QED BY <3>1, <3>2
    <2>3. f.size \in ends
        OBVIOUS
    <2> QED BY ONLY <2>1, <2>2, <2>3
<1> HIDE DEF slots, ends
<1>8. /\ Max(slots) \in slots /\ \A i \in slots : i <= Max(slots)
      /\ Max(ends) \in ends /\ \A i \in ends : i <= Max(ends)
    BY <1>6, <1>7, MaxExists
<1> QED BY <1>6, <1>7, <1>8 DEF slots, ends

\* The writes that go to a slot.
To(writes, i) == {k \in DOMAIN writes : Slot(writes[k].offset) = i}

\* Of several writes to a slot one is the last.
LEMMA LastTo ==
    ASSUME NEW B, NEW writes \in Seq(Writes(B)), NEW i, To(writes, i) # {}
    PROVE  /\ Max(To(writes, i)) \in To(writes, i)
           /\ \A k \in To(writes, i) : k <= Max(To(writes, i))
           /\ To(writes, i) \in SUBSET (1..Len(writes))
<1>1. /\ To(writes, i) \in SUBSET Nat /\ \A k \in To(writes, i) : k <= Len(writes)
      /\ Len(writes) \in Nat /\ To(writes, i) \in SUBSET (1..Len(writes))
    BY DEF To
<1> QED BY <1>1, MaxExists

\* What a file is after a sequence of writes.
LEMMA ApplyIs ==
    ASSUME NEW B, Hole \in B, NEW f \in File(B), NEW writes \in Seq(Writes(B))
    PROVE  /\ ApplyAll(f, writes) \in File(B)
           /\ ApplyAll(f, writes).size =
                  Max({f.size} \cup {w.offset + w.size : w \in Range(writes)})
           /\ Len(ApplyAll(f, writes).at) =
                  Max({Len(f.at)} \cup {Slot(w.offset) : w \in Range(writes)})
           /\ \A o \in Nat : o % 2 = 0 =>
                  BlockAt(ApplyAll(f, writes), o) =
                      IF To(writes, Slot(o)) # {}
                      THEN writes[Max(To(writes, Slot(o)))].block
                      ELSE BlockAt(f, o)
<1> DEFINE slots == {Len(f.at)} \cup {Slot(w.offset) : w \in Range(writes)}
           ends  == {f.size} \cup {w.offset + w.size : w \in Range(writes)}
           block(i) == IF To(writes, i) # {} THEN writes[Max(To(writes, i))].block
                       ELSE IF i <= Len(f.at) THEN f.at[i] ELSE Hole
           at == [i \in 1..Max(slots) |-> block(i)]
           g == ApplyAll(f, writes)
<1>1. g = [size |-> Max(ends), at |-> at]
    BY DEF ApplyAll, To
<1>2. /\ Max(slots) \in Nat /\ Max(ends) \in Nat
      /\ \A i \in slots : i <= Max(slots) /\ i \in Nat
    BY Extents
<1>3. f.at \in Seq(B) /\ f.size \in Nat /\ Len(f.at) \in Nat
    BY DEF File
<1>4. ASSUME NEW i, To(writes, i) # {}
      PROVE  /\ Max(To(writes, i)) \in DOMAIN writes
             /\ writes[Max(To(writes, i))] \in Writes(B)
             /\ i \in slots
    <2>1. Max(To(writes, i)) \in To(writes, i)
        BY <1>4, LastTo
    <2> QED BY <2>1 DEF To, Range
<1>5. ASSUME NEW i \in 1..Max(slots) PROVE block(i) \in B
    <2>1. CASE To(writes, i) # {}
        BY <1>4, <2>1 DEF Writes
    <2>2. CASE To(writes, i) = {} /\ i <= Len(f.at)
        <3>1. i \in 1..Len(f.at)
            BY <1>2, <1>3, <2>2
        <3> QED BY <1>3, <2>2, <3>1
    <2>3. CASE To(writes, i) = {} /\ ~(i <= Len(f.at))
        BY <2>3
    <2> QED BY <2>1, <2>2, <2>3
<1>6. at \in [1..Max(slots) -> B]
    BY <1>5
<1>7. at \in Seq(B) /\ Len(at) = Max(slots) /\ DOMAIN at = 1..Max(slots)
    <2> HIDE DEF at, slots
    <2> QED BY <1>2, <1>6
<1>8. g \in File(B) /\ g.size = Max(ends) /\ g.at = at
    <2> HIDE DEF at, ends, g
    <2> QED BY <1>1, <1>2, <1>7 DEF File
<1>9. ASSUME NEW o \in Nat, o % 2 = 0
      PROVE  BlockAt(g, o) = IF To(writes, Slot(o)) # {}
                             THEN writes[Max(To(writes, Slot(o)))].block
                             ELSE BlockAt(f, o)
    <2>1. Slot(o) \in Nat \ {0}
        BY <1>9, SlotIs
    <2>2. CASE To(writes, Slot(o)) # {}
        <3>1. Slot(o) \in slots
            BY <1>4, <2>2
        <3>2. Slot(o) \in 1..Max(slots)
            BY <1>2, <2>1, <3>1
        <3> QED BY <1>7, <1>8, <1>9, <2>2, <3>2 DEF BlockAt
    <2>3. CASE To(writes, Slot(o)) = {}
        <3>1. BlockAt(f, o) = IF Slot(o) <= Len(f.at) THEN f.at[Slot(o)] ELSE Hole
            BY <1>3, <1>9, <2>1 DEF BlockAt
        <3>2. Len(f.at) <= Max(slots)
            BY <1>2
        <3>3. CASE Slot(o) \in 1..Max(slots)
            BY <1>7, <1>8, <1>9, <2>3, <3>1, <3>3 DEF BlockAt
        <3>4. CASE Slot(o) \notin 1..Max(slots)
            <4>1. ~(Slot(o) <= Len(f.at))
                BY <1>2, <1>3, <2>1, <3>2, <3>4
            <4> QED BY <1>7, <1>8, <1>9, <2>3, <3>1, <3>4, <4>1 DEF BlockAt
        <3> QED BY <3>3, <3>4
    <2> QED BY <2>2, <2>3
<1> HIDE DEF at, g, block
<1> QED BY <1>7, <1>8, <1>9 DEF g

\* Files are equal when they show the same.
LEMMA FilesEqual ==
    ASSUME NEW B, NEW f \in File(B), NEW g \in File(B),
           f.size = g.size, Len(f.at) = Len(g.at),
           \A o \in Nat : o % 2 = 0 => BlockAt(f, o) = BlockAt(g, o)
    PROVE  f = g
<1>1. /\ f = [size |-> f.size, at |-> f.at] /\ g = [size |-> g.size, at |-> g.at]
      /\ f.at \in Seq(B) /\ g.at \in Seq(B) /\ Len(f.at) \in Nat
    BY DEF File
<1>2. ASSUME NEW i \in 1..Len(f.at) PROVE f.at[i] = g.at[i]
    <2>1. PICK j \in Nat : i = j + 1
        <3>1. i - 1 \in Nat /\ i = (i - 1) + 1
            BY <1>1
        <3> QED BY <3>1
    <2> DEFINE o == 2 * j
    <2>2. o \in Nat /\ o % 2 = 0 /\ Slot(o) = i
        BY <2>1 DEF Slot
    <2>3. i \in DOMAIN f.at /\ i \in DOMAIN g.at
        BY <1>1
    <2>4. BlockAt(f, o) = f.at[i] /\ BlockAt(g, o) = g.at[i]
        BY <2>2, <2>3 DEF BlockAt
    <2> HIDE DEF o
    <2> QED BY <2>2, <2>4
<1>3. f.at = g.at
    BY <1>1, <1>2, SeqEqual
<1> QED BY <1>1, <1>3

HasBound(S) == \E b \in Nat : \A y \in S : y <= b

\* A maximum of maxima.
LEMMA MaxOfMax ==
    ASSUME NEW x \in Nat, NEW S \in SUBSET Nat, NEW T \in SUBSET Nat,
           HasBound(S \cup T)
    PROVE  Max({Max({x} \cup S)} \cup T) = Max({x} \cup S \cup T)
<1> DEFINE m == Max({x} \cup S)
           n == Max({m} \cup T)
<1>0. PICK b \in Nat : \A y \in S \cup T : y <= b
    BY DEF HasBound
<1>1. m \in {x} \cup S /\ \A y \in {x} \cup S : y <= m
    <2>1. /\ \A y \in {x} \cup S : y <= b + x
          /\ b + x \in Nat /\ {x} \cup S \in SUBSET Nat /\ {x} \cup S # {}
        BY <1>0
    <2> QED BY <2>1, MaxExists
<1>2. m \in Nat
    BY <1>1
<1> HIDE DEF m
<1>3. n \in {m} \cup T /\ \A y \in {m} \cup T : y <= n
    <2>1. /\ \A y \in {m} \cup T : y <= b + m
          /\ b + m \in Nat /\ {m} \cup T \in SUBSET Nat /\ {m} \cup T # {}
        BY <1>0, <1>2
    <2> QED BY <1>2, <2>1, MaxExists
<1> HIDE DEF n
<1>4. n \in Nat /\ n \in {x} \cup S \cup T
    BY <1>1, <1>2, <1>3
<1>5. ASSUME NEW y \in {x} \cup S \cup T PROVE y <= n
    <2>1. CASE y \in T
        BY <1>3, <2>1
    <2>2. CASE y \in {x} \cup S
        <3>1. y <= m /\ m <= n /\ y \in Nat
            BY <1>1, <1>3, <2>2
        <3> QED BY <1>2, <1>4, <3>1
    <2> QED BY <2>1, <2>2
<1>6. Max({x} \cup S \cup T) = n
    BY <1>4, <1>5, MaxIs
<1> QED BY <1>6 DEF m, n

\* Writes that reach the file in two parts reach it as if in one.
LEMMA Composition ==
    ASSUME NEW B, Hole \in B, NEW f \in File(B),
           NEW s \in Seq(Writes(B)), NEW t \in Seq(Writes(B))
    PROVE  ApplyAll(ApplyAll(f, s), t) = ApplyAll(f, s \o t)
<1> DEFINE g == ApplyAll(f, s)
           h == ApplyAll(g, t)
           u == s \o t
           k == ApplyAll(f, u)
           n == Len(s)
           m == Len(t)
<1>1. /\ n \in Nat /\ m \in Nat /\ u \in Seq(Writes(B)) /\ Len(u) = n + m
      /\ \A i \in 1..n : u[i] = s[i]
      /\ \A i \in 1..m : u[n + i] = t[i]
    BY ConcatProperties
<1>2. Range(u) = Range(s) \cup Range(t)
    <2>1. ASSUME NEW i \in 1..(n + m) PROVE u[i] \in Range(s) \cup Range(t)
        <3>1. CASE i <= n
            <4>1. i \in 1..n
                BY <1>1, <3>1
            <4>2. u[i] = s[i] /\ i \in DOMAIN s
                BY <1>1, <4>1
            <4> QED BY <4>2 DEF Range
        <3>2. CASE ~(i <= n)
            <4>1. PICK j \in 1..m : i = n + j
                <5>1. i - n \in 1..m /\ i = n + (i - n)
                    BY <1>1, <3>2
                <5> QED BY <5>1
            <4>2. u[i] = t[j] /\ j \in DOMAIN t
                BY <1>1, <4>1
            <4> QED BY <4>2 DEF Range
        <3> QED BY <3>1, <3>2
    <2>2. DOMAIN u = 1..(n + m) /\ DOMAIN s = 1..n /\ DOMAIN t = 1..m
        BY <1>1
    <2>3. \A i \in 1..n : i \in 1..(n + m)
        BY <1>1
    <2>4. \A i \in 1..m : n + i \in 1..(n + m)
        BY <1>1
    <2>5. ASSUME NEW i \in 1..n PROVE s[i] \in Range(u)
        BY <1>1, <2>2, <2>3 DEF Range
    <2>6. ASSUME NEW i \in 1..m PROVE t[i] \in Range(u)
        BY <1>1, <2>2, <2>4 DEF Range
    <2> HIDE DEF u, n, m
    <2>7. Range(u) \subseteq Range(s) \cup Range(t)
        BY ONLY <2>1, <2>2 DEF Range
    <2>8. Range(s) \subseteq Range(u) /\ Range(t) \subseteq Range(u)
        BY ONLY <2>2, <2>5, <2>6 DEF Range
    <2> QED BY <2>7, <2>8
<1> DEFINE S1 == {Slot(w.offset) : w \in Range(s)}
           T1 == {Slot(w.offset) : w \in Range(t)}
           S2 == {w.offset + w.size : w \in Range(s)}
           T2 == {w.offset + w.size : w \in Range(t)}
<1>3. /\ {Slot(w.offset) : w \in Range(u)} = S1 \cup T1
      /\ {w.offset + w.size : w \in Range(u)} = S2 \cup T2
    BY <1>2
<1>4. /\ g \in File(B) /\ g.size = Max({f.size} \cup S2)
      /\ Len(g.at) = Max({Len(f.at)} \cup S1)
    BY ApplyIs
<1> HIDE DEF g
<1>5. /\ h \in File(B) /\ h.size = Max({g.size} \cup T2)
      /\ Len(h.at) = Max({Len(g.at)} \cup T1)
    <2>1. h = ApplyAll(g, t) /\ g \in File(B)
        BY <1>4
    <2> HIDE DEF S1, S2, u, k, n, m, h
    <2>2. /\ h \in File(B) /\ h.size = Max({g.size} \cup {w.offset + w.size : w \in Range(t)})
          /\ Len(h.at) = Max({Len(g.at)} \cup {Slot(w.offset) : w \in Range(t)})
        BY <2>1, ApplyIs
    <2> QED BY <2>2
<1>6. /\ k \in File(B) /\ k.size = Max({f.size} \cup S2 \cup T2)
      /\ Len(k.at) = Max({Len(f.at)} \cup S1 \cup T1)
    <2> HIDE DEF u, S1, T1, S2, T2
    <2>1. /\ k \in File(B)
          /\ k.size = Max({f.size} \cup {w.offset + w.size : w \in Range(u)})
          /\ Len(k.at) = Max({Len(f.at)} \cup {Slot(w.offset) : w \in Range(u)})
        <3>1. u \in Seq(Writes(B)) /\ k = ApplyAll(f, u)
            BY <1>1
        <3> HIDE DEF k
        <3> QED BY <3>1, ApplyIs
    <2>2. /\ {f.size} \cup (S2 \cup T2) = {f.size} \cup S2 \cup T2
          /\ {Len(f.at)} \cup (S1 \cup T1) = {Len(f.at)} \cup S1 \cup T1
        OBVIOUS
    <2> QED BY <1>3, <2>1, <2>2
<1>7. h.size = k.size /\ Len(h.at) = Len(k.at)
    <2>1. f.size \in Nat /\ Len(f.at) \in Nat
        BY DEF File
    <2>2. /\ S1 \in SUBSET Nat /\ S2 \in SUBSET Nat
          /\ T1 \in SUBSET Nat /\ T2 \in SUBSET Nat
          /\ HasBound(S1 \cup T1) /\ HasBound(S2 \cup T2)
        <3> HIDE DEF u
        <3>1. LET slots == {Len(f.at)} \cup (S1 \cup T1)
                  ends == {f.size} \cup (S2 \cup T2)
              IN /\ Max(slots) \in slots /\ \A i \in slots : i <= Max(slots)
                 /\ Max(ends) \in ends /\ \A i \in ends : i <= Max(ends)
                 /\ slots \in SUBSET Nat /\ ends \in SUBSET Nat
            BY <1>1, <1>3, Extents
        <3> HIDE DEF S1, T1, S2, T2
        <3> QED BY <3>1 DEF HasBound
    <2> HIDE DEF S1, T1, S2, T2
    <2>5. Max({Max({Len(f.at)} \cup S1)} \cup T1) = Max({Len(f.at)} \cup S1 \cup T1)
        BY <2>1, <2>2, MaxOfMax
    <2>6. Max({Max({f.size} \cup S2)} \cup T2) = Max({f.size} \cup S2 \cup T2)
        <3>1. ASSUME NEW x \in Nat
              PROVE  Max({Max({x} \cup S2)} \cup T2) = Max({x} \cup S2 \cup T2)
            BY <2>2, MaxOfMax
        <3> QED BY <2>1, <3>1
    <2> QED BY <1>4, <1>5, <1>6, <2>5, <2>6
<1>8. ASSUME NEW o \in Nat, o % 2 = 0 PROVE BlockAt(h, o) = BlockAt(k, o)
    <2> DEFINE i == Slot(o)
    <2>1. /\ BlockAt(g, o) = IF To(s, i) # {} THEN s[Max(To(s, i))].block
                             ELSE BlockAt(f, o)
          /\ BlockAt(h, o) = IF To(t, i) # {} THEN t[Max(To(t, i))].block
                             ELSE BlockAt(g, o)
        BY <1>4, <1>8, ApplyIs DEF g
    <2>2. BlockAt(k, o) = IF To(u, i) # {} THEN u[Max(To(u, i))].block
                          ELSE BlockAt(f, o)
        <3> HIDE DEF u
        <3> QED BY <1>1, <1>8, ApplyIs
    <2>3. /\ DOMAIN u = 1..(n + m) /\ DOMAIN s = 1..n /\ DOMAIN t = 1..m
        BY <1>1
    <2> HIDE DEF u, i, n, m, h, k
    <2>4. CASE To(t, i) # {}
        <3>1. PICK j : j = Max(To(t, i))
            OBVIOUS
        <3>2. j \in To(t, i) /\ (\A x \in To(t, i) : x <= j) /\ j \in 1..m
            BY <2>3, <2>4, <3>1, LastTo DEF m
        <3>3. n + j \in To(u, i)
            BY <1>1, <2>3, <3>2 DEF To
        <3>4. ASSUME NEW x \in To(u, i) PROVE x <= n + j
            <4>1. x \in 1..(n + m) /\ Slot(u[x].offset) = i
                BY <2>3 DEF To
            <4>2. CASE x <= n
                BY <1>1, <3>2, <4>1, <4>2
            <4>3. CASE ~(x <= n)
                <5>1. PICK y \in 1..m : x = n + y
                    BY <1>1, <4>1, <4>3
                <5>2. y \in To(t, i)
                    BY <1>1, <2>3, <4>1, <5>1 DEF To
                <5> QED BY <1>1, <3>2, <5>1, <5>2
            <4> QED BY <4>2, <4>3
        <3>5. To(u, i) \in SUBSET Nat
            BY <1>1, <2>3 DEF To
        <3>6. Max(To(u, i)) = n + j
            BY <3>3, <3>4, <3>5, MaxIs
        <3> QED BY <1>1, <2>1, <2>2, <2>4, <3>1, <3>2, <3>3, <3>6
    <2>5. CASE To(t, i) = {}
        <3>1. To(u, i) = To(s, i)
            <4>1. ASSUME NEW x \in To(u, i) PROVE x \in To(s, i)
                <5>1. x \in 1..(n + m) /\ Slot(u[x].offset) = i
                    BY <2>3 DEF To
                <5>2. CASE x <= n
                    <6>1. x \in 1..n
                        BY <1>1, <5>1, <5>2
                    <6> QED BY <1>1, <2>3, <5>1, <6>1 DEF To
                <5>3. CASE ~(x <= n)
                    <6>1. PICK y \in 1..m : x = n + y
                        BY <1>1, <5>1, <5>3
                    <6> QED BY <1>1, <2>3, <2>5, <5>1, <6>1 DEF To
                <5> QED BY <5>2, <5>3
            <4>2. ASSUME NEW x \in To(s, i) PROVE x \in To(u, i)
                <5>1. x \in 1..n /\ Slot(s[x].offset) = i
                    BY <2>3 DEF To
                <5>2. x \in 1..(n + m)
                    BY <1>1, <5>1
                <5> QED BY <1>1, <2>3, <5>1, <5>2 DEF To
            <4> QED BY <4>1, <4>2
        <3>2. CASE To(s, i) = {}
            BY <2>1, <2>2, <2>5, <3>1, <3>2
        <3>3. CASE To(s, i) # {}
            <4>1. Max(To(s, i)) \in 1..n
                BY <2>3, <3>3, LastTo DEF n
            <4> QED BY <1>1, <2>1, <2>2, <2>5, <3>1, <3>3, <4>1
        <3> QED BY <3>2, <3>3
    <2> QED BY <2>4, <2>5
<1> HIDE DEF h, k
<1>9. h = k
    BY <1>5, <1>6, <1>7, <1>8, FilesEqual
<1> QED BY <1>9 DEF h, k, u, g

\* No writes change nothing.
LEMMA ApplyNothing ==
    ASSUME NEW B, Hole \in B, NEW f \in File(B)
    PROVE  ApplyAll(f, <<>>) = f
<1> DEFINE g == ApplyAll(f, <<>>)
<1>1. /\ <<>> \in Seq(Writes(B)) /\ Range(<<>>) = {}
      /\ \A i : To(<<>>, i) = {}
    BY DEF Range, To
<1>2. f.size \in Nat /\ Len(f.at) \in Nat
    BY DEF File
<1>3. Max({f.size}) = f.size /\ Max({Len(f.at)}) = Len(f.at)
    BY <1>2, MaxIs
<1>4. /\ g \in File(B) /\ g.size = f.size /\ Len(g.at) = Len(f.at)
      /\ \A o \in Nat : o % 2 = 0 => BlockAt(g, o) = BlockAt(f, o)
    <2>1. /\ {f.size} \cup {w.offset + w.size : w \in {}} = {f.size}
          /\ {Len(f.at)} \cup {Slot(w.offset) : w \in {}} = {Len(f.at)}
        OBVIOUS
    <2>2. PICK w : w = <<>>
        OBVIOUS
    <2>3. /\ w \in Seq(Writes(B)) /\ Range(w) = {} /\ \A i : To(w, i) = {}
        BY <1>1, <2>2
    <2>4. /\ ApplyAll(f, w) \in File(B)
          /\ ApplyAll(f, w).size
                 = Max({f.size} \cup {x.offset + x.size : x \in Range(w)})
          /\ Len(ApplyAll(f, w).at)
                 = Max({Len(f.at)} \cup {Slot(x.offset) : x \in Range(w)})
        BY <2>3, ApplyIs
    <2>5. ASSUME NEW o \in Nat, o % 2 = 0
          PROVE  BlockAt(ApplyAll(f, w), o) = BlockAt(f, o)
        <3>1. To(w, Slot(o)) = {}
            BY <2>3
        <3> QED BY <2>3, <2>5, <3>1, ApplyIs
    <2> QED BY <1>3, <2>1, <2>2, <2>3, <2>4, <2>5
<1> HIDE DEF g
<1>5. g = f
    BY <1>4, FilesEqual
<1> QED BY <1>5 DEF g

\* There are no blocks at odd offsets.
LEMMA OddIsHole == ASSUME NEW f, NEW o \in Nat, o % 2 # 0 PROVE BlockAt(f, o) = Hole
BY DEF BlockAt

\* Writes p are the n pieces of a block.
ArePieces(p, n, start, size, block) ==
    /\ n = (size + 1) \div 2 /\ Len(p) = n
    /\ \A i \in 1..n : /\ p[i].offset = start + 2 * (i - 1)
                      /\ p[i].offset + p[i].size <= start + size
                      /\ p[i].block = IF i = 1 THEN block ELSE Rest
    /\ p[n].offset + p[n].size = start + size

\* The pieces of a block are writes one after the other, up to its end.
LEMMA PiecesAre ==
    ASSUME NEW B, Rest \in B, NEW start \in Nat, start % 2 = 0,
           NEW size \in Nat \ {0}, NEW block \in B
    PROVE  \E n \in Nat \ {0}, p \in Seq(Writes(B)) :
               p = Pieces(start, size, block) /\ ArePieces(p, n, start, size, block)
<1> DEFINE n == (size + 1) \div 2
           piece(i) == [offset |-> start + 2 * (i - 1),
                        size   |-> IF 2 * i <= size THEN 2 ELSE 1,
                        block  |-> IF i = 1 THEN block ELSE Rest]
           p == [i \in 1..n |-> piece(i)]
<1>1. n \in Nat \ {0} /\ 2 * n >= size /\ 2 * n <= size + 1
    OBVIOUS
<1>2. ASSUME NEW i \in 1..n
      PROVE  /\ start + 2 * (i - 1) \in Nat /\ (start + 2 * (i - 1)) % 2 = 0
             /\ start + 2 * (i - 1) + (IF 2 * i <= size THEN 2 ELSE 1) <= start + size
    <2>1. i \in Nat /\ i >= 1 /\ i <= n
        BY <1>1
    <2>2. 2 * i <= size + 1
        BY <1>1, <2>1
    <2>3. PICK j \in Nat : i = j + 1
        <3>1. i - 1 \in Nat /\ i = (i - 1) + 1
            BY <2>1
        <3> QED BY <3>1
    <2> HIDE DEF n
    <2> QED BY <2>1, <2>2, <2>3
<1> HIDE DEF n
<1>3. ASSUME NEW i \in 1..n PROVE piece(i) \in Writes(B)
    <2>1. (IF 2 * i <= size THEN 2 ELSE 1) \in Nat \ {0}
        OBVIOUS
    <2>2. (IF i = 1 THEN block ELSE Rest) \in B
        OBVIOUS
    <2> QED BY <1>2, <2>1, <2>2 DEF Writes
<1>4. p \in Seq(Writes(B)) /\ Len(p) = n
    <2>1. p \in [1..n -> Writes(B)]
        BY <1>3
    <2> HIDE DEF p
    <2> QED BY <1>1, <2>1
<1>5. Pieces(start, size, block) = p
    BY DEF Pieces, n
<1>6. ASSUME NEW i \in 1..n
      PROVE  /\ p[i].offset = start + 2 * (i - 1)
             /\ p[i].size = IF 2 * i <= size THEN 2 ELSE 1
             /\ p[i].block = IF i = 1 THEN block ELSE Rest
    OBVIOUS
<1>7. start + 2 * (n - 1) + (IF 2 * n <= size THEN 2 ELSE 1) = start + size
    <2>1. 2 * n = size \/ 2 * n = size + 1
        BY <1>1
    <2> QED BY <1>1, <2>1
<1>8. n \in 1..n
    BY <1>1
<1> HIDE DEF p
<1>9. p[n].offset + p[n].size = start + size
    BY <1>6, <1>7, <1>8
<1>10. \A i \in 1..n : p[i].offset + p[i].size <= start + size
    BY <1>2, <1>6
<1>11. n = (size + 1) \div 2
    BY DEF n
<1> HIDE DEF n
<1>12. \A i \in 1..n : /\ p[i].offset = start + 2 * (i - 1)
                      /\ p[i].offset + p[i].size <= start + size
                      /\ p[i].block = IF i = 1 THEN block ELSE Rest
    BY <1>6, <1>10
<1>13. ArePieces(p, n, start, size, block)
    BY <1>4, <1>9, <1>11, <1>12 DEF ArePieces
<1> QED BY <1>1, <1>4, <1>5, <1>13

\* The blocks below limit are kept.
Kept(f, g, limit) == \A o \in Nat : o < limit => BlockAt(g, o) = BlockAt(f, o)

\* A block's pieces add the block and keep what is below it.
LEMMA PiecesApplied ==
    ASSUME NEW B, Hole \in B, Rest \in B, NEW f \in File(B),
           NEW start \in Nat, start % 2 = 0, NEW size \in Nat \ {0}, NEW block \in B,
           NEW g, g = ApplyAll(f, Pieces(start, size, block))
    PROVE  /\ start + size <= g.size
           /\ Kept(f, g, start)
           /\ BlockAt(g, start) = block
           /\ HasPieces(g, start, size, block)
<1>0. PICK n \in Nat \ {0}, p \in Seq(Writes(B)) :
          p = Pieces(start, size, block) /\ ArePieces(p, n, start, size, block)
    BY PiecesAre
<1>1. /\ p = Pieces(start, size, block) /\ n = (size + 1) \div 2 /\ Len(p) = n
      /\ \A i \in 1..n : /\ p[i].offset = start + 2 * (i - 1)
                        /\ p[i].block = IF i = 1 THEN block ELSE Rest
      /\ p[n].offset + p[n].size = start + size
    BY <1>0 DEF ArePieces
<1>2. g = ApplyAll(f, p)
    BY <1>1
<1>3. /\ g.size = Max({f.size} \cup {w.offset + w.size : w \in Range(p)})
      /\ \A o \in Nat : o % 2 = 0 =>
             BlockAt(g, o) = IF To(p, Slot(o)) # {} THEN p[Max(To(p, Slot(o)))].block
                             ELSE BlockAt(f, o)
    <2>1. PICK h : h = ApplyAll(f, p)
        OBVIOUS
    <2>2. /\ h.size = Max({f.size} \cup {w.offset + w.size : w \in Range(p)})
          /\ \A o \in Nat : o % 2 = 0 =>
                 BlockAt(h, o) = IF To(p, Slot(o)) # {} THEN p[Max(To(p, Slot(o)))].block
                                 ELSE BlockAt(f, o)
        BY <2>1, ApplyIs
    <2> QED BY <1>2, <2>1, <2>2
<1>4. start + size <= g.size
    <2> DEFINE ends == {f.size} \cup {w.offset + w.size : w \in Range(p)}
    <2>1. \A i \in ends : i <= Max(ends)
        BY Extents
    <2>2. n \in DOMAIN p
        BY <1>1
    <2>3. p[n] \in Range(p)
        BY <2>2 DEF Range
    <2>4. start + size \in ends
        BY <1>1, <2>3
    <2> HIDE DEF ends
    <2>5. start + size <= Max(ends)
        BY <2>1, <2>4
    <2> QED BY <1>3, <2>5 DEF ends
<1>5. ASSUME NEW i \in 1..n
      PROVE  BlockAt(g, start + 2 * (i - 1)) = IF i = 1 THEN block ELSE Rest
    <2>1. PICK o : o = start + 2 * (i - 1)
        OBVIOUS
    <2>2. o \in Nat /\ o % 2 = 0
        <3>1. PICK j \in Nat : i = j + 1
            <4>1. i - 1 \in Nat /\ i = (i - 1) + 1
                OBVIOUS
            <4> QED BY <4>1
        <3> QED BY <2>1, <3>1
    <2>3. ASSUME NEW k \in 1..n PROVE Slot(p[k].offset) = Slot(o) <=> k = i
        <3>1. p[k] \in Writes(B)
            BY <1>1
        <3>2. p[k].offset \in Nat /\ p[k].offset % 2 = 0
            BY <3>1 DEF Writes
        <3>3. Slot(p[k].offset) = Slot(o) <=> p[k].offset = o
            BY <2>2, <3>2, SlotIs
        <3>4. p[k].offset = start + 2 * (k - 1)
            BY <1>1
        <3>5. start + 2 * (k - 1) = start + 2 * (i - 1) <=> k = i
            OBVIOUS
        <3> QED BY <2>1, <3>3, <3>4, <3>5
    <2>4. To(p, Slot(o)) = {i}
        <3>1. DOMAIN p = 1..n
            BY <1>1
        <3> QED BY <2>3, <3>1 DEF To
    <2>5. Max({i}) = i
        <3>1. i \in Nat
            OBVIOUS
        <3>2. Max({i}) \in {i}
            BY <3>1, MaxIs
        <3> QED BY <3>2
    <2>6. BlockAt(g, o) = p[i].block
        BY <1>3, <2>2, <2>4, <2>5
    <2> QED BY <1>1, <2>1, <2>6
<1>6. ASSUME NEW o \in Nat, o < start PROVE BlockAt(g, o) = BlockAt(f, o)
    <2>1. CASE o % 2 # 0
        BY <2>1, OddIsHole
    <2>2. CASE o % 2 = 0
        <3>1. ASSUME NEW k \in 1..n PROVE Slot(p[k].offset) # Slot(o)
            <4>1. p[k] \in Writes(B)
                BY <1>1
            <4>2. p[k].offset \in Nat /\ p[k].offset % 2 = 0
                BY <4>1 DEF Writes
            <4>3. Slot(p[k].offset) = Slot(o) <=> p[k].offset = o
                BY <2>2, <4>2, SlotIs
            <4>4. p[k].offset = start + 2 * (k - 1) /\ k - 1 >= 0
                BY <1>1
            <4>5. 2 * (k - 1) \in Nat
                BY <4>4
            <4> QED BY <1>6, <4>3, <4>4, <4>5
        <3>2. To(p, Slot(o)) = {}
            BY <1>1, <3>1 DEF To
        <3> QED BY <1>3, <2>2, <3>2
    <2> QED BY <2>1, <2>2
<1>7. BlockAt(g, start) = block
    <2>1. 1 \in 1..n /\ start + 2 * (1 - 1) = start
        BY <1>1
    <2> QED BY <1>5, <2>1
<1>8. HasPieces(g, start, size, block)
    BY <1>1, <1>5 DEF HasPieces
<1>9. Kept(f, g, start)
    BY <1>6 DEF Kept
<1> QED BY <1>1, <1>2, <1>4, <1>7, <1>8, <1>9

\* stdio hands over the first of its writes: what the file will be is the same.
LEMMA Handing ==
    ASSUME NEW B, Hole \in B, NEW f \in File(B), NEW writes \in Seq(Writes(B)),
           NEW n \in 0..Len(writes), NEW g, NEW rest, Handed(f, g, writes, rest, n)
    PROVE  /\ g \in File(B) /\ rest \in Seq(Writes(B))
           /\ ApplyAll(g, rest) = ApplyAll(f, writes)
           /\ Len(rest) = Len(writes) - n
           /\ \A k \in 1..Len(rest) : rest[k] = writes[n + k]
           /\ \A o \in Nat : \/ BlockAt(g, o) = BlockAt(f, o)
                             \/ \E k \in 1..n : /\ BlockAt(g, o) = writes[k].block
                                                /\ o = writes[k].offset
<1> DEFINE first == SubSeq(writes, 1, n)
<1>1. Len(writes) \in Nat /\ n \in Nat /\ n <= Len(writes)
    OBVIOUS
<1>2. g = ApplyAll(f, first) /\ rest = SubSeq(writes, n + 1, Len(writes))
    BY DEF Handed
<1>3. /\ first \in Seq(Writes(B)) /\ rest \in Seq(Writes(B))
      /\ Len(first) = n /\ Len(rest) = Len(writes) - n
      /\ \A k \in 1..n : first[k] = writes[k]
      /\ \A k \in 1..Len(rest) : rest[k] = writes[n + k]
    <2>1. SubSeq(writes, 1, n) \in Seq(Writes(B)) /\ Len(first) = n
        BY <1>1
    <2>2. rest \in Seq(Writes(B)) /\ Len(rest) = Len(writes) - n
        BY <1>1, <1>2
    <2>3. \A k \in 1..n : first[k] = writes[k]
        BY <1>1
    <2>4. ASSUME NEW k \in 1..Len(rest) PROVE rest[k] = writes[n + k]
        BY <1>1, <1>2, <2>2
    <2> QED BY <2>1, <2>2, <2>3, <2>4
<1>4. first \o rest = writes
    <2> DEFINE both == first \o rest
    <2>1. /\ both \in Seq(Writes(B)) /\ Len(both) = Len(writes)
          /\ \A k \in 1..n : both[k] = writes[k]
          /\ \A k \in 1..Len(rest) : both[n + k] = writes[n + k]
        <3> HIDE DEF first
        <3> QED BY <1>1, <1>3, ConcatProperties
    <2>2. ASSUME NEW k \in 1..Len(writes) PROVE both[k] = writes[k]
        <3>1. CASE k <= n
            BY <1>1, <2>1, <3>1
        <3>2. CASE ~(k <= n)
            <4>1. k - n \in 1..Len(rest) /\ k = n + (k - n)
                BY <1>1, <1>3, <3>2
            <4> HIDE DEF both
            <4> QED BY <2>1, <4>1
        <3> QED BY <3>1, <3>2
    <2> HIDE DEF both
    <2>3. both = writes
        BY <2>1, <2>2, SeqEqual
    <2> QED BY <2>3 DEF both
<1> HIDE DEF first
<1>5. g \in File(B) /\ ApplyAll(g, rest) = ApplyAll(f, writes)
    <2>1. g \in File(B)
        BY <1>2, <1>3, ApplyIs
    <2>2. ApplyAll(ApplyAll(f, first), rest) = ApplyAll(f, first \o rest)
        BY <1>3, Composition
    <2> QED BY <1>2, <1>4, <2>1, <2>2
<1>6. ASSUME NEW o \in Nat
      PROVE  \/ BlockAt(g, o) = BlockAt(f, o)
             \/ \E k \in 1..n : /\ BlockAt(g, o) = writes[k].block
                                /\ o = writes[k].offset
    <2>1. CASE o % 2 # 0
        BY <2>1, OddIsHole
    <2>2. CASE o % 2 = 0
        <3>1. BlockAt(g, o) = IF To(first, Slot(o)) # {}
                              THEN first[Max(To(first, Slot(o)))].block
                              ELSE BlockAt(f, o)
            BY <1>2, <1>3, <2>2, ApplyIs
        <3>2. CASE To(first, Slot(o)) = {}
            BY <3>1, <3>2
        <3>3. CASE To(first, Slot(o)) # {}
            <4>1. PICK k : k = Max(To(first, Slot(o)))
                OBVIOUS
            <4>2. k \in 1..n /\ k \in To(first, Slot(o))
                BY <1>3, <3>3, <4>1, LastTo
            <4>3. Slot(writes[k].offset) = Slot(o) /\ first[k] = writes[k]
                BY <1>3, <4>2 DEF To
            <4>4. writes[k] \in Writes(B)
                BY <1>1, <4>2
            <4>5. writes[k].offset \in Nat /\ writes[k].offset % 2 = 0
                BY <4>4 DEF Writes
            <4>6. writes[k].offset = o
                BY <2>2, <4>3, <4>5, SlotIs
            <4> QED BY <3>1, <3>3, <4>1, <4>2, <4>3, <4>6
        <3> QED BY <3>2, <3>3
    <2> QED BY <2>1, <2>2
<1> QED BY <1>3, <1>5, <1>6

\* A file that is cut or extended keeps its blocks up to its new end.
LEMMA TruncateIs ==
    ASSUME NEW B, Hole \in B, NEW f \in File(B), NEW size \in Nat, size % 2 = 0
    PROVE  /\ Truncate(f, size) \in File(B)
           /\ Truncate(f, size).size = size
           /\ \A o \in Nat : BlockAt(Truncate(f, size), o) =
                  IF o < size THEN BlockAt(f, o) ELSE Hole
<1> DEFINE n == size \div 2
           at == [i \in 1..n |-> IF i <= Len(f.at) THEN f.at[i] ELSE Hole]
           g == Truncate(f, size)
<1>1. n \in Nat /\ f.at \in Seq(B) /\ Len(f.at) \in Nat /\ g = [size |-> size, at |-> at]
    BY DEF File, Truncate
<1>2. at \in [1..n -> B]
    <2>1. \A i \in 1..n : i <= Len(f.at) => f.at[i] \in B
        BY <1>1
    <2> HIDE DEF n
    <2> QED BY <1>1, <2>1
<1>3. at \in Seq(B) /\ Len(at) = n /\ DOMAIN at = 1..n
    <2> HIDE DEF at, n
    <2> QED BY <1>1, <1>2
<1>4. g \in File(B) /\ g.size = size /\ g.at = at
    <2> HIDE DEF at, g
    <2> QED BY <1>1, <1>3 DEF File
<1>5. ASSUME NEW o \in Nat
      PROVE  BlockAt(g, o) = IF o < size THEN BlockAt(f, o) ELSE Hole
    <2>1. CASE o % 2 # 0
        BY <2>1, OddIsHole
    <2>2. CASE o % 2 = 0
        <3>1. Slot(o) \in Nat \ {0} /\ (Slot(o) <= n <=> o < size)
            BY <2>2, SlotIs
        <3>2. BlockAt(g, o) = IF Slot(o) <= n THEN at[Slot(o)] ELSE Hole
            BY <1>1, <1>3, <1>4, <2>2, <3>1 DEF BlockAt
        <3>3. BlockAt(f, o) = IF Slot(o) <= Len(f.at) THEN f.at[Slot(o)] ELSE Hole
            BY <1>1, <2>2, <3>1 DEF BlockAt
        <3>4. Slot(o) <= n =>
                  at[Slot(o)] = IF Slot(o) <= Len(f.at) THEN f.at[Slot(o)] ELSE Hole
            BY <1>1, <3>1
        <3> HIDE DEF g, at, n
        <3> QED BY <3>1, <3>2, <3>3, <3>4
    <2> QED BY <2>1, <2>2
<1> HIDE DEF g
<1> QED BY <1>4, <1>5 DEF g

\* When it is cut at the end of the last of the writes in the buffer, so is what
\* the file will be.
LEMMA TruncatedStream ==
    ASSUME NEW B, Hole \in B, NEW f \in File(B), NEW writes \in Seq(Writes(B)),
           NEW size \in Nat, size % 2 = 0,
           \A k \in 1..Len(writes) : writes[k].offset + writes[k].size <= size
    PROVE  LET g == ApplyAll(Truncate(f, size), writes) IN
           /\ g \in File(B) /\ g.size = size
           /\ \A o \in Nat : o < size => BlockAt(g, o) = BlockAt(ApplyAll(f, writes), o)
<1> DEFINE h == Truncate(f, size)
           g == ApplyAll(h, writes)
           ends == {w.offset + w.size : w \in Range(writes)}
<1>1. /\ h \in File(B) /\ h.size = size
      /\ \A o \in Nat : o < size => BlockAt(h, o) = BlockAt(f, o)
    BY TruncateIs
<1> HIDE DEF h
<1>2. g \in File(B) /\ g.size = Max({size} \cup ends)
    BY <1>1, ApplyIs
<1>3. \A x \in ends : x \in Nat /\ x <= size
    <2>1. ASSUME NEW k \in 1..Len(writes)
          PROVE  writes[k].offset + writes[k].size \in Nat
        <3>1. writes[k] \in Writes(B)
            OBVIOUS
        <3> QED BY <3>1 DEF Writes
    <2>2. Range(writes) = {writes[k] : k \in 1..Len(writes)}
        BY DEF Range
    <2> QED BY <2>1, <2>2
<1>4. Max({size} \cup ends) = size
    <2>1. /\ {size} \cup ends \in SUBSET Nat /\ size \in {size} \cup ends
          /\ \A x \in {size} \cup ends : x <= size
        BY <1>3
    <2> HIDE DEF ends
    <2> QED BY <2>1, MaxIs
<1>5. ASSUME NEW o \in Nat, o < size
      PROVE  BlockAt(g, o) = BlockAt(ApplyAll(f, writes), o)
    <2>1. CASE o % 2 # 0
        BY <2>1, OddIsHole
    <2>2. CASE o % 2 = 0
        <3>1. BlockAt(g, o) = IF To(writes, Slot(o)) # {}
                              THEN writes[Max(To(writes, Slot(o)))].block
                              ELSE BlockAt(h, o)
            BY <1>1, <2>2, ApplyIs
        <3>2. BlockAt(ApplyAll(f, writes), o)
                  = IF To(writes, Slot(o)) # {}
                    THEN writes[Max(To(writes, Slot(o)))].block
                    ELSE BlockAt(f, o)
            BY <2>2, ApplyIs
        <3> QED BY <1>1, <1>5, <3>1, <3>2
    <2> QED BY <2>1, <2>2
<1> HIDE DEF g, ends
<1> QED BY <1>2, <1>4, <1>5 DEF g, h

------------------------------------------------------------------------------
(* The inductive invariant *)

\* The types, and what stdio holds: writes up to ftello, which is not past the
\* end of what the file will be.
FileInv ==
    /\ os \in File(Block) /\ buffer \in Seq(Writes(Block)) /\ position \in Nat
    /\ Within(buffer, position)
    /\ position <= Stream.size

InCall == pc \notin {"idle", "closed"}

\* Where the next call writes, or the one in progress may seek back to.
Start == IF InCall THEN base ELSE position

CallInv ==
    /\ base <= position
    /\ ~InCall => group = None /\ base = 0 /\ offsets = <<>>
    /\ InCall => ~footer_written
    /\ pc \in {"put:header", "finish:header"} => ~header_written /\ offsets = <<>>
    /\ pc \in {"put:header", "put:part"} => group \in Groups /\ columns > 0
    /\ pc \notin {"idle", "closed", "error", "put:header", "finish:header"} =>
           header_written
    /\ ~header_written => headers = <<>> /\ accepted = <<>>
    /\ promised # None => footer_written
    /\ "seek" \notin failed => Start % 2 = 0

\* The parts of row group g are in the file, below limit, where the column
\* headers in list say.
PartsLaid(file, list, g, limit) ==
    \A k \in DOMAIN list :
        /\ list[k].size = PartSize(g, k)
        /\ list[k].size # 0 =>
               /\ list[k].offset % 2 = 0
               /\ list[k].offset + list[k].size <= limit
               /\ BlockAt(file, list[k].offset) = Part(g, k)

\* Row group g, of n columns, is in the file, below limit, where its header says.
Laid(file, header, g, limit, n) ==
    LET at == header.offset + header.size IN
    /\ at % 2 = 0 /\ at + 2 <= limit
    /\ \E list \in Seq(Extent) :
           /\ Len(list) = 2 * n
           /\ BlockAt(file, at) = ColumnHeaders(list)
           /\ PartsLaid(file, list, g, limit)

\* What was accepted is below where the writer may write again, under one of the
\* headers it has counted, or the one in its place if all it counted were
\* accepted.
AcceptedInv ==
    /\ \A i \in DOMAIN accepted : \E j \in i..Len(headers) :
           Laid(Stream, headers[j], accepted[i], Start, columns)
    /\ "columnHeaders" \notin failed =>
           /\ Len(headers) = Len(accepted)
           /\ \A i \in DOMAIN accepted :
                  Laid(Stream, headers[i], accepted[i], Start, columns)

\* The parts of the row group being put are below ftello.
PuttingInv == pc = "put:part" =>
    Len(offsets) <= 2 * columns /\ PartsLaid(Stream, offsets, group, position)

GroupsInv == AcceptedInv /\ row_count = RowsOf(accepted) /\ PuttingInv

\* The names of columns are where their descriptors say.
NamesInv == \A c \in named : names[c] < Len(strings) /\ strings[names[c] + 1] = c

StringsLaid(file) == StringsSize # 0 =>
    /\ BlockAt(file, Align(base)) = StringsBlock
    /\ HasPieces(file, Align(base), StringsSize, StringsBlock)
    /\ Align(base) + StringsSize <= position

HeadersLaid(file, at) == headers # <<>> =>
    /\ at >= 0 /\ at % 2 = 0
    /\ BlockAt(file, at) = GroupHeaders

DescriptorsLaid(file, at) == columns # 0 =>
    /\ at >= 0 /\ at % 2 = 0
    /\ BlockAt(file, at) = Descriptors

FooterLaid(file) ==
    /\ StringsLaid(file)
    /\ base + StringsSize <= position
    /\ position % 2 = 0 /\ position >= FooterSize + DescriptorsSize(columns)
    /\ HeadersLaid(file, position - 4 - DescriptorsSize(columns))
    /\ DescriptorsLaid(file, position - 4)
    /\ BlockAt(file, position - 2) = FooterBlock

MetadataIsLast == metadata # None =>
    strings # <<>> /\ strings[Len(strings)] = metadata

\* What finish has written, section by section.
FinishInv ==
    /\ pc \in {"finish:metadata", "finish:strings"} => position = base
    /\ pc \in {"finish:strings", "finish:groups", "finish:descriptors",
              "finish:footer", "finish:truncate", "finish:sync"} => MetadataIsLast
    /\ pc \in {"finish:groups", "finish:descriptors", "finish:footer"} =>
           StringsLaid(Stream) /\ base + StringsSize <= position
    /\ pc = "finish:descriptors" => HeadersLaid(Stream, position - 2)
    /\ pc = "finish:footer" =>
           /\ HeadersLaid(Stream, position - 2 - DescriptorsSize(columns))
           /\ DescriptorsLaid(Stream, position - 2)
           /\ position >= DescriptorsSize(columns)
    /\ pc \in {"finish:truncate", "finish:sync"} => FooterLaid(Stream)
    /\ pc = "finish:sync" => Stream.size = position

Appended == [i \in DOMAIN accepted |-> Whole(accepted[i])]

\* What the file keeps showing when finish has returned true.
PromiseInv == footer_written =>
    /\ "columnHeaders" \notin failed => Read(Stream).groups = Appended
    /\ ~ContentAtRisk => Shows(Stream, promised.content)

\* The last section is being finished, or finish has returned true.
Footing == pc \in {"finish:truncate", "finish:sync"} \/ footer_written

\* No footer among the writes that have reached a file or are still to.
NoFooter(file, writes) ==
    /\ \A k \in 1..Len(writes) : writes[k].block.kind # "footer"
    /\ \A o \in Nat : BlockAt(file, o).kind # "footer"

\* A footer is the last write that reaches a file, and ends at end.
LastIsFooter(file, writes, end) ==
    /\ \A k \in 1..Len(writes) : writes[k].block.kind = "footer" =>
           k = Len(writes) /\ writes[k].offset + 2 = end
    /\ \A o \in Nat : BlockAt(file, o).kind = "footer" =>
           Len(writes) = 0 /\ o + 2 = end

\* The footer is the last write that reaches the operating system, at the end.
FooterInv == ~SealAtRisk =>
    IF Footing THEN LastIsFooter(os, buffer, position) ELSE NoFooter(os, buffer)

Inv == TypeOK /\ FileInv /\ CallInv /\ GroupsInv /\ NamesInv /\ FinishInv
       /\ PromiseInv /\ FooterInv

------------------------------------------------------------------------------
(* What a write, a failed write and a seek do to the file *)

\* The hole is a block.
LEMMA HoleIsABlock ==
    /\ Hole \in Block /\ Torn \in Block /\ Rest \in Block
    /\ HeaderBlock \in Block
BY DEF Block

\* File g has one more block than f.
OneMoreBlock(f, g, start, size, block) ==
    /\ start + size <= g.size
    /\ Kept(f, g, start)
    /\ BlockAt(g, start) = block
    /\ HasPieces(g, start, size, block)

\* The pieces of a block of this file.
LEMMA BlockApplied ==
    ASSUME NEW f \in File(Block), NEW start \in Nat, start % 2 = 0,
           NEW size \in Nat \ {0}, NEW block \in Block
    PROVE  OneMoreBlock(f, ApplyAll(f, Pieces(start, size, block)), start, size, block)
<1>1. Hole \in Block /\ Rest \in Block
    BY HoleIsABlock
<1>2. PICK g : g = ApplyAll(f, Pieces(start, size, block))
    OBVIOUS
<1>3. /\ start + size <= g.size
      /\ Kept(f, g, start)
      /\ BlockAt(g, start) = block
      /\ HasPieces(g, start, size, block)
    BY <1>1, <1>2, PiecesApplied
<1> QED BY <1>2, <1>3 DEF OneMoreBlock

\* stdio's buffer is a sequence of writes within the stream.
LEMMA StreamIsAFile ==
    ASSUME FileInv
    PROVE  Stream \in File(Block) /\ Stream.size \in Nat /\ os.size \in Nat
<1>1. Stream \in File(Block)
    BY HoleIsABlock, ApplyIs DEF FileInv, Stream
<1> QED BY <1>1 DEF File, FileInv

\* Handing over some of the writes: what is left are the last of them.
LEMMA HandedWithin ==
    ASSUME NEW all \in Seq(Writes(Block)), NEW end \in Nat, Within(all, end),
           os \in File(Block),
           NEW n \in 0..Len(all), Handed(os, os', all, buffer', n)
    PROVE  /\ os' \in File(Block) /\ buffer' \in Seq(Writes(Block))
           /\ Stream' = ApplyAll(os, all) /\ Within(buffer', end)
<1>1. /\ os' \in File(Block) /\ buffer' \in Seq(Writes(Block))
      /\ ApplyAll(os', buffer') = ApplyAll(os, all)
      /\ Len(buffer') = Len(all) - n
      /\ \A k \in 1..Len(buffer') : buffer'[k] = all[n + k]
    <2>1. PICK g, rest : g = os' /\ rest = buffer'
        OBVIOUS
    <2>2. Handed(os, g, all, rest, n)
        BY <2>1
    <2>3. /\ g \in File(Block) /\ rest \in Seq(Writes(Block))
          /\ ApplyAll(g, rest) = ApplyAll(os, all)
          /\ Len(rest) = Len(all) - n
          /\ \A k \in 1..Len(rest) : rest[k] = all[n + k]
        BY <2>2, HoleIsABlock, Handing
    <2> QED BY <2>1, <2>3
<1>2. ASSUME NEW k \in 1..Len(buffer')
      PROVE  buffer'[k].offset + buffer'[k].size <= end
    <2>1. n + k \in 1..Len(all) /\ buffer'[k] = all[n + k]
        BY <1>1
    <2> QED BY <2>1 DEF Within
<1> QED BY <1>1, <1>2 DEF Stream, Within

\* One more block at the end of the stream.
LEMMA WriteAppended ==
    ASSUME FileInv, NEW block \in Block, NEW size \in Nat \ {0},
           NEW all, all = buffer \o Pieces(Align(position), size, block)
    PROVE  /\ all \in Seq(Writes(Block))
           /\ Within(all, Align(position) + size)
           /\ Align(position) + size <= ApplyAll(os, all).size
           /\ Kept(Stream, ApplyAll(os, all), Align(position))
           /\ BlockAt(ApplyAll(os, all), Align(position)) = block
           /\ HasPieces(ApplyAll(os, all), Align(position), size, block)
<1>1. PICK at \in Nat : at = Align(position) /\ at % 2 = 0 /\ position <= at
                        /\ position \in Nat
    BY AlignIs DEF FileInv
<1>2. PICK n \in Nat \ {0}, p \in Seq(Writes(Block)) :
          p = Pieces(at, size, block) /\ ArePieces(p, n, at, size, block)
    BY <1>1, HoleIsABlock, PiecesAre
<1>9. /\ p = Pieces(at, size, block) /\ Len(p) = n
      /\ \A i \in 1..n : p[i].offset + p[i].size <= at + size
    BY <1>2 DEF ArePieces
<1>3. buffer \in Seq(Writes(Block)) /\ Within(buffer, position) /\ os \in File(Block)
    BY DEF FileInv
<1>4. PICK m \in Nat : m = Len(buffer)
    BY <1>3
<1>5. /\ all \in Seq(Writes(Block)) /\ Len(all) = m + n
      /\ \A i \in 1..m : all[i] = buffer[i]
      /\ \A i \in 1..n : all[m + i] = p[i]
    <2>1. all = buffer \o p
        BY <1>1, <1>9
    <2>2. PICK b \in Seq(Writes(Block)) : b = buffer
        BY <1>3
    <2>3. /\ b \o p \in Seq(Writes(Block)) /\ Len(b \o p) = Len(b) + Len(p)
          /\ \A i \in 1..Len(b) : (b \o p)[i] = b[i]
          /\ \A i \in 1..Len(p) : (b \o p)[Len(b) + i] = p[i]
        OBVIOUS
    <2> QED BY <1>4, <1>9, <2>1, <2>2, <2>3
<1>6. Within(all, at + size)
    <2> SUFFICES ASSUME NEW k \in 1..Len(all)
                 PROVE  all[k].offset + all[k].size <= at + size
        BY DEF Within
    <2>1. CASE k <= m
        <3>1. all[k] = buffer[k] /\ k \in 1..Len(buffer)
            BY <1>4, <1>5, <2>1
        <3>2. buffer[k].offset + buffer[k].size <= position /\ buffer[k] \in Writes(Block)
            BY <1>3, <3>1 DEF Within
        <3>3. buffer[k].offset \in Nat /\ buffer[k].size \in Nat
            BY <3>2 DEF Writes
        <3> QED BY <1>1, <3>1, <3>2, <3>3
    <2>2. CASE ~(k <= m)
        <3>1. k - m \in 1..n /\ k = m + (k - m)
            BY <1>5, <2>2
        <3> QED BY <1>9, <1>5, <3>1
    <2> QED BY <2>1, <2>2
<1>7. ApplyAll(os, all) = ApplyAll(Stream, p)
    BY <1>1, <1>9, <1>3, HoleIsABlock, Composition DEF Stream
<1>8. /\ at + size <= ApplyAll(Stream, p).size
      /\ Kept(Stream, ApplyAll(Stream, p), at)
      /\ BlockAt(ApplyAll(Stream, p), at) = block
      /\ HasPieces(ApplyAll(Stream, p), at, size, block)
    <2>1. PICK f \in File(Block) : f = Stream
        BY StreamIsAFile
    <2>2. OneMoreBlock(f, ApplyAll(f, Pieces(at, size, block)), at, size, block)
        BY <1>1, BlockApplied
    <2> QED BY <1>9, <2>1, <2>2 DEF OneMoreBlock
<1> QED BY <1>1, <1>5, <1>6, <1>7, <1>8

\* A write goes to the aligned position, and nothing below it changes.
LEMMA WriteEffect ==
    ASSUME FileInv, NEW block \in Block, NEW size \in Nat, Write(block, size)
    PROVE  /\ FileInv'
           /\ position' = IF size = 0 THEN position ELSE Align(position) + size
           /\ Kept(Stream, Stream', position)
           /\ size # 0 => /\ BlockAt(Stream', Align(position)) = block
                          /\ HasPieces(Stream', Align(position), size, block)
<1>1. CASE size = 0
    <2>1. UNCHANGED <<os, buffer, position>>
        BY <1>1 DEF Write
    <2>2. Stream' = Stream
        BY <2>1 DEF Stream
    <2> QED BY <1>1, <2>1, <2>2 DEF FileInv, Kept
<1>2. CASE size # 0
    <2>1. PICK all : all = buffer \o Pieces(Align(position), size, block)
        OBVIOUS
    <2>2. PICK n \in 0..Len(all) : Handed(os, os', all, buffer', n)
        BY <1>2, <2>1 DEF Write
    <2>3. position' = Align(position) + size
        BY <1>2 DEF Write
    <2>4. /\ all \in Seq(Writes(Block))
          /\ Within(all, Align(position) + size)
          /\ Align(position) + size <= ApplyAll(os, all).size
          /\ Kept(Stream, ApplyAll(os, all), Align(position))
          /\ BlockAt(ApplyAll(os, all), Align(position)) = block
          /\ HasPieces(ApplyAll(os, all), Align(position), size, block)
        BY <1>2, <2>1, WriteAppended
    <2>5. /\ Align(position) \in Nat /\ position <= Align(position) /\ position \in Nat
          /\ Align(position) + size \in Nat
        <3>1. position \in Nat
            BY DEF FileInv
        <3>2. Align(position) \in Nat /\ position <= Align(position)
            BY <3>1, AlignIs
        <3> QED BY <3>1, <3>2
    <2>6. os \in File(Block)
        BY DEF FileInv
    <2>7. /\ os' \in File(Block) /\ buffer' \in Seq(Writes(Block))
          /\ Stream' = ApplyAll(os, all) /\ Within(buffer', Align(position) + size)
        BY <2>2, <2>4, <2>5, <2>6, HandedWithin
    <2>8. FileInv'
        BY <2>3, <2>4, <2>5, <2>7 DEF FileInv
    <2>9. Kept(Stream, Stream', position)
        BY <2>4, <2>5, <2>7 DEF Kept
    <2> QED BY <1>2, <2>3, <2>4, <2>7, <2>8, <2>9
<1> QED BY <1>1, <1>2

\* A write that fails may leave part of a block from the aligned position on.
LEMMA FailEffect ==
    ASSUME FileInv, NEW block, NEW size \in Nat, WriteFails(block, size)
    PROVE  /\ FileInv' /\ position <= position' /\ Kept(Stream, Stream', position)
<1>0. position \in Nat /\ buffer \in Seq(Writes(Block)) /\ os \in File(Block)
      /\ Within(buffer, position) /\ position <= Stream.size
    BY DEF FileInv
<1>1. CASE /\ position' = position
           /\ \E n \in 0..Len(buffer) : Handed(os, os', buffer, buffer', n)
    <2>1. PICK n \in 0..Len(buffer) : Handed(os, os', buffer, buffer', n)
        BY <1>1
    <2>2. /\ os' \in File(Block) /\ buffer' \in Seq(Writes(Block))
          /\ Stream' = ApplyAll(os, buffer) /\ Within(buffer', position)
        BY <1>0, <2>1, HandedWithin
    <2>3. Stream' = Stream
        BY <2>2 DEF Stream
    <2>4. FileInv'
        BY <1>0, <1>1, <2>2, <2>3 DEF FileInv
    <2> QED BY <1>0, <1>1, <2>3, <2>4 DEF Kept
<1>2. ASSUME NEW part \in 1..size, Write(Torn, part)
      PROVE  FileInv' /\ position <= position' /\ Kept(Stream, Stream', position)
    <2>1. part \in Nat /\ part # 0
        OBVIOUS
    <2>2. /\ FileInv' /\ position' = Align(position) + part
          /\ Kept(Stream, Stream', position)
        BY <1>2, <2>1, HoleIsABlock, WriteEffect
    <2>3. Align(position) \in Nat /\ position <= Align(position)
        BY <1>0, AlignIs
    <2> QED BY <1>0, <2>1, <2>2, <2>3
<1> QED BY <1>1, <1>2 DEF WriteFails

\* A seek, and a close, leave the stream as it is.
LEMMA SeekEffect ==
    ASSUME FileInv, NEW offset \in Nat, offset <= position, SeekBack(offset)
    PROVE  FileInv' /\ Stream' = Stream /\ position' \in {offset, position}
<1>0. position \in Nat /\ buffer \in Seq(Writes(Block)) /\ os \in File(Block)
      /\ Within(buffer, position) /\ position <= Stream.size
      /\ Stream \in File(Block) /\ Stream.size \in Nat
    BY StreamIsAFile DEF FileInv
<1>1. CASE os' = ApplyAll(os, buffer) /\ buffer' = <<>> /\ position' = offset
    <2>1. Stream' = Stream
        <3>1. ApplyAll(Stream, <<>>) = Stream
            BY <1>0, HoleIsABlock, ApplyNothing
        <3> QED BY <1>1, <3>1 DEF Stream
    <2>2. os' \in File(Block) /\ buffer' \in Seq(Writes(Block)) /\ Within(buffer', position')
        BY <1>0, <1>1 DEF Stream, Within
    <2>3. position' \in Nat /\ position' <= Stream'.size
        BY <1>0, <1>1, <2>1
    <2> QED BY <1>1, <2>1, <2>2, <2>3 DEF FileInv
<1>2. ASSUME NEW n \in 0..Len(buffer), Handed(os, os', buffer, buffer', n),
             position' = position
      PROVE  FileInv' /\ Stream' = Stream
    <2>1. /\ os' \in File(Block) /\ buffer' \in Seq(Writes(Block))
          /\ Stream' = ApplyAll(os, buffer) /\ Within(buffer', position)
        BY <1>0, <1>2, HandedWithin
    <2>2. Stream' = Stream
        BY <2>1 DEF Stream
    <2> QED BY <1>0, <1>2, <2>1, <2>2 DEF FileInv
<1> QED BY <1>1, <1>2 DEF SeekBack

\* fclose, whether it fails or not.
LEMMA FreeEffect ==
    ASSUME FileInv, Free
    PROVE  FileInv' /\ Stream' = Stream /\ position' = position
<1>0. position \in Nat /\ buffer \in Seq(Writes(Block)) /\ os \in File(Block)
      /\ Within(buffer, position) /\ position <= Stream.size
      /\ Stream \in File(Block) /\ Stream.size \in Nat /\ position' = position
    BY StreamIsAFile DEF FileInv, Free
<1>1. CASE os' = ApplyAll(os, buffer) /\ buffer' = <<>>
    <2>1. Stream' = Stream
        <3>1. ApplyAll(Stream, <<>>) = Stream
            BY <1>0, HoleIsABlock, ApplyNothing
        <3> QED BY <1>1, <3>1 DEF Stream
    <2>2. os' \in File(Block) /\ buffer' \in Seq(Writes(Block)) /\ Within(buffer', position')
        BY <1>0, <1>1 DEF Stream, Within
    <2> QED BY <1>0, <2>1, <2>2 DEF FileInv
<1>2. ASSUME NEW n \in 0..Len(buffer), Handed(os, os', buffer, buffer', n)
      PROVE  FileInv' /\ Stream' = Stream
    <2>1. /\ os' \in File(Block) /\ buffer' \in Seq(Writes(Block))
          /\ Stream' = ApplyAll(os, buffer) /\ Within(buffer', position)
        BY <1>0, <1>2, HandedWithin
    <2>2. Stream' = Stream
        BY <2>1 DEF Stream
    <2> QED BY <1>0, <2>1, <2>2 DEF FileInv
<1> QED BY <1>0, <1>1, <1>2 DEF Free

\* ftruncate to an even position cuts the stream there.
LEMMA SetSizeEffect ==
    ASSUME FileInv, SetSize, position % 2 = 0
    PROVE  FileInv' /\ Stream'.size = position /\ Kept(Stream, Stream', position)
<1>1. position \in Nat /\ buffer \in Seq(Writes(Block)) /\ os \in File(Block)
      /\ Within(buffer, position)
    BY DEF FileInv
<1>2. os' = Truncate(os, position) /\ UNCHANGED <<buffer, position>>
    BY DEF SetSize
<1>3. os' \in File(Block)
    BY <1>1, <1>2, HoleIsABlock, TruncateIs
<1>4. PICK g : g = ApplyAll(Truncate(os, position), buffer)
    OBVIOUS
<1>5. /\ g.size = position
      /\ \A o \in Nat : o < position => BlockAt(g, o) = BlockAt(ApplyAll(os, buffer), o)
    <2>1. position \in Nat /\ position % 2 = 0
        BY <1>1
    <2>2. \A k \in 1..Len(buffer) : buffer[k].offset + buffer[k].size <= position
        BY <1>1 DEF Within
    <2>3. PICK f, writes, n : f = os /\ writes = buffer /\ n = position
        OBVIOUS
    <2>4. /\ ApplyAll(Truncate(f, n), writes).size = n
          /\ \A o \in Nat : o < n => BlockAt(ApplyAll(Truncate(f, n), writes), o)
                                      = BlockAt(ApplyAll(f, writes), o)
        BY <1>1, <2>1, <2>2, <2>3, HoleIsABlock, TruncatedStream
    <2> QED BY <1>4, <2>3, <2>4
<1>6. Stream' = g
    BY <1>2, <1>4 DEF Stream
<1> QED BY <1>1, <1>2, <1>3, <1>5, <1>6 DEF FileInv, Kept, Stream

------------------------------------------------------------------------------
(* What is written are blocks *)

\* A part of the row group being put.
LEMMA PartIsABlock ==
    ASSUME TypeOK, CallInv, pc = "put:part"
    PROVE  /\ group \in Groups /\ NextPart \in Nat
           /\ Part(group, NextPart) \in Block
           /\ PartSize(group, NextPart) \in Nat
           /\ [offset |-> Align(position), size |-> PartSize(group, NextPart)] \in Extent
<1>1. group \in Groups /\ Len(offsets) \in Nat /\ NextPart \in Nat
    BY DEF CallInv, TypeOK, NextPart
<1>2. Part(group, NextPart) \in Block
    BY <1>1 DEF Part, Block
<1>3. PartSize(group, NextPart) \in Nat
    <2>1. ASSUME NEW i \in Nat PROVE 2 - (i % 2) \in Nat
        OBVIOUS
    <2> QED BY <1>1, <2>1 DEF PartSize
<1>4. Align(position) \in Nat
    <2>1. position \in Nat
        BY DEF TypeOK, FilesOK
    <2> QED BY <2>1, AlignIs
<1> QED BY <1>1, <1>2, <1>3, <1>4 DEF Extent

\* The column headers of the row group being put.
LEMMA HeadersAreABlock ==
    ASSUME TypeOK, CallInv
    PROVE  /\ ColumnHeaders(offsets) \in Block
           /\ Align(position) - base \in Nat
           /\ [offset |-> base, size |-> Align(position) - base] \in Extent
<1>1. offsets \in Seq(Extent) /\ base \in Nat /\ position \in Nat /\ base <= position
    BY DEF TypeOK, FilesOK, CallInv
<1>2. Align(position) \in Nat /\ position <= Align(position)
    BY <1>1, AlignIs
<1>3. ColumnHeaders(offsets) \in Block
    BY <1>1 DEF ColumnHeaders, Block
<1> QED BY <1>1, <1>2, <1>3 DEF Extent

\* The sections of finish.
LEMMA SectionsAreBlocks ==
    ASSUME TypeOK
    PROVE  /\ StringsBlock \in Block /\ StringsSize \in Nat
           /\ GroupHeaders \in Block /\ GroupHeadersSize(Len(headers)) \in {0, 2}
           /\ Descriptors \in Block /\ DescriptorsSize(columns) \in {0, 2}
           /\ FooterBlock \in Block
           /\ columns \in Nat /\ Len(headers) \in Nat
<1>1. /\ columns \in Nat /\ metadata \in Metadata \cup {None} /\ headers \in Seq(Extent)
      /\ Len(headers) \in Nat /\ row_count \in Nat /\ base \in Nat
      /\ strings \in Seq(Metadata \cup Nat) /\ names \in Seq(Nat)
    <2>1. columns \in Nat
        BY RowGroupWriterAssumption DEF TypeOK
    <2>2. headers \in Seq(Extent) /\ Len(headers) \in Nat
        BY DEF TypeOK
    <2> QED BY <2>1, <2>2 DEF TypeOK
<1>2. StringsSize \in Nat
    BY <1>1 DEF StringsSize
<1>3. StringsBlock \in Block
    BY <1>1 DEF StringsBlock, Block
<1>4. GroupHeaders \in Block
    BY <1>1 DEF GroupHeaders, Block
<1>5. Descriptors \in Block
    BY <1>1 DEF Descriptors, Block
<1>6. FooterBlock \in Block
    <2>1. MetadataId \in Int
        BY <1>1 DEF MetadataId
    <2> QED BY <1>1, <1>2, <2>1 DEF FooterBlock, Block
<1>7. GroupHeadersSize(Len(headers)) \in {0, 2} /\ DescriptorsSize(columns) \in {0, 2}
    BY DEF GroupHeadersSize, DescriptorsSize
<1> QED BY <1>1, <1>2, <1>3, <1>4, <1>5, <1>6, <1>7

\* A section is written at its label.
Section(label, block, size, next) ==
    /\ pc = label /\ Write(block, size) /\ pc' = next
    /\ UNCHANGED <<group, base, offsets, sync, formatVars, disk, ghostVars>>

\* The four of them.
LEMMA SectionCases ==
    ASSUME WriteSection
    PROVE  \/ Section("finish:strings", StringsBlock, StringsSize, "finish:groups")
           \/ Section("finish:groups", GroupHeaders, GroupHeadersSize(Len(headers)),
                      "finish:descriptors")
           \/ Section("finish:descriptors", Descriptors, DescriptorsSize(columns),
                      "finish:footer")
           \/ Section("finish:footer", FooterBlock, FooterSize, "finish:truncate")
<1>1. PICK s \in Sections :
          /\ pc = s[1] /\ Write(s[2], s[3]) /\ pc' = s[4]
          /\ UNCHANGED <<group, base, offsets, sync, formatVars, disk, ghostVars>>
    BY DEF WriteSection, Goto
<1>2. CASE s = <<"finish:strings", StringsBlock, StringsSize, "finish:groups">>
    BY <1>1, <1>2 DEF Section
<1>3. CASE s = <<"finish:groups", GroupHeaders, GroupHeadersSize(Len(headers)),
                 "finish:descriptors">>
    BY <1>1, <1>3 DEF Section
<1>4. CASE s = <<"finish:descriptors", Descriptors, DescriptorsSize(columns),
                 "finish:footer">>
    BY <1>1, <1>4 DEF Section
<1>5. CASE s = <<"finish:footer", FooterBlock, FooterSize, "finish:truncate">>
    BY <1>1, <1>5 DEF Section
<1> QED BY <1>2, <1>3, <1>4, <1>5 DEF Sections

\* A section that fails is one of them too, and not a header.
LEMMA SectionFailsIs ==
    ASSUME SectionFails
    PROVE  /\ pc \in {"finish:strings", "finish:groups", "finish:descriptors",
                      "finish:footer"}
           /\ pc' = "error"
           /\ UNCHANGED <<group, base, offsets, sync, formatVars, disk, named,
                          accepted, promised, puts, failed>>
           /\ faults' = faults + 1 /\ faults < MaxFaults
<1>1. PICK s \in Sections :
          /\ pc = s[1] /\ WriteFails(s[2], s[3]) /\ pc' = "error"
          /\ UNCHANGED <<group, base, offsets, sync, formatVars, disk, named,
                         accepted, promised, puts>>
    BY DEF SectionFails, Goto
<1>2. /\ s[1] \in {"finish:strings", "finish:groups", "finish:descriptors",
                   "finish:footer"}
      /\ s[2].kind \in {"strings", "groupHeaders", "descriptors", "footer"}
    BY DEF Sections, StringsBlock, GroupHeaders, Descriptors, FooterBlock
<1>3. /\ failed' = failed \cup ({s[2].kind} \cap Grave)
      /\ faults' = faults + 1 /\ faults < MaxFaults
    BY <1>1 DEF WriteFails, MayFail
<1>4. failed' = failed
    BY <1>2, <1>3 DEF Grave
<1> QED BY <1>1, <1>2, <1>3, <1>4

\* And its write is one that fails.
LEMMA SectionFailsWrites ==
    ASSUME TypeOK, SectionFails
    PROVE  \E block : \E size \in Nat : WriteFails(block, size)
<1>1. PICK s \in Sections : WriteFails(s[2], s[3])
    BY DEF SectionFails
<1>2. s[3] \in Nat
    <2>1. FooterSize \in Nat
        BY DEF FooterSize
    <2> QED BY <2>1, SectionsAreBlocks DEF Sections
<1> QED BY <1>1, <1>2

------------------------------------------------------------------------------
(* Every step keeps the file *)

\* Actions that leave the file alone.
Quiet ==
    \/ AddColumn \/ \E m \in Metadata : SetMetadata(m)
    \/ \E g \in Groups, n \in 0..MaxColumns : Put(g, n)
    \/ \E s \in BOOLEAN : Finish(s)
    \/ AddMetadata \/ MetadataFails \/ SyncAndReturn \/ SystemCallFails \/ Closed

\* They leave it alone.
LEMMA QuietKeeps ==
    ASSUME Quiet PROVE UNCHANGED <<os, buffer, position>> /\ Stream' = Stream
<1>1. UNCHANGED <<os, buffer, position>>
    BY DEF Quiet, AddColumn, SetMetadata, Put, Finish, AddMetadata, MetadataFails,
           SyncAndReturn, SystemCallFails, Closed, fileVars, vars
<1> QED BY <1>1 DEF Stream

\* The cases of Next.
LEMMA NextCases ==
    ASSUME Next
    PROVE  \/ Quiet \/ WriteHeader \/ HeaderFails \/ PutPart \/ PartFails
           \/ PutHeaders \/ HeadersFail \/ FailCall \/ WriteSection \/ SectionFails
           \/ SetSize \/ Free
BY DEF Next, Quiet

\* FileInv, and what is below where the next call writes, are kept; before the
\* header is written there is nothing to keep.
LEMMA FileStep ==
    ASSUME TypeOK, FileInv, CallInv, FinishInv, Next
    PROVE  /\ FileInv'
           /\ header_written => Kept(Stream, Stream', Start) /\ Start <= Start'
<1>0. /\ position \in Nat /\ base \in Nat /\ base <= position /\ Start \in Nat
      /\ Start <= position
      /\ InCall => Start = base
    BY DEF TypeOK, FilesOK, CallInv, Start
<1>1. CASE Quiet
    <2>1. UNCHANGED <<os, buffer, position>> /\ Stream' = Stream
        BY <1>1, QuietKeeps
    <2>2. FileInv'
        BY <2>1 DEF FileInv
    <2>3. Start' = position \/ (Start' = base /\ InCall)
        <3>1. CASE UNCHANGED <<pc, base>>
            BY <2>1, <3>1 DEF Start, InCall
        <3>2. CASE base' = position
            BY <2>1, <3>2 DEF Start
        <3>3. CASE pc' = "idle"
            BY <2>1, <3>3 DEF Start, InCall
        <3>4. CASE pc' = "error" /\ base' = base /\ InCall
            BY <3>4 DEF Start, InCall
        <3>5. CASE InCall /\ base' = base /\ pc' = "finish:strings"
            BY <3>5 DEF Start, InCall
        <3> QED BY <1>1, <3>1, <3>2, <3>3, <3>4, <3>5
                DEF Quiet, AddColumn, SetMetadata, Put, Finish, AddMetadata,
                    MetadataFails, SyncAndReturn, SystemCallFails, Closed, vars,
                    callVars, Return, Goto, InCall
    <2>4. Start <= Start'
        BY <1>0, <2>3
    <2> QED BY <2>1, <2>2, <2>4 DEF Kept
<1>2. CASE WriteHeader
    <2>1. Write(HeaderBlock, 2) /\ ~header_written
        BY <1>2 DEF WriteHeader, CallInv
    <2> QED BY <2>1, WriteEffect, HoleIsABlock
<1>3. CASE HeaderFails
    <2>1. WriteFails(HeaderBlock, 2) /\ ~header_written /\ 2 \in Nat
        BY <1>3 DEF HeaderFails, CallInv
    <2> QED BY <2>1, FailEffect
<1>4. ASSUME FileInv', position <= position', Kept(Stream, Stream', position),
             InCall, pc' = "idle" \/ base' = base
      PROVE  /\ FileInv' /\ Kept(Stream, Stream', Start) /\ Start <= Start'
    <2>1. Start' \in {base, position'}
        BY <1>4 DEF Start, InCall
    <2>2. position' \in Nat
        BY <1>4 DEF FileInv
    <2> QED BY <1>0, <1>4, <2>1, <2>2 DEF Kept
<1>5. ASSUME NEW block \in Block, NEW size \in Nat, Write(block, size)
      PROVE  FileInv' /\ position <= position' /\ Kept(Stream, Stream', position)
    <2>1. /\ FileInv' /\ Kept(Stream, Stream', position)
          /\ position' = IF size = 0 THEN position ELSE Align(position) + size
        BY <1>5, WriteEffect
    <2>2. Align(position) \in Nat /\ position <= Align(position)
        BY <1>0, AlignIs
    <2> QED BY <1>0, <2>1, <2>2
<1>6. CASE PutPart
    <2>1. /\ Write(Part(group, NextPart), PartSize(group, NextPart)) /\ pc = "put:part"
          /\ base' = base
        BY <1>6 DEF PutPart
    <2>2. FileInv' /\ position <= position' /\ Kept(Stream, Stream', position)
        BY <1>5, <2>1, PartIsABlock
    <2> QED BY <1>4, <2>1, <2>2 DEF InCall
<1>7. CASE PartFails
    <2>1. /\ WriteFails(Part(group, NextPart), PartSize(group, NextPart))
          /\ pc = "put:part" /\ base' = base
        BY <1>7 DEF PartFails
    <2>2. PartSize(group, NextPart) \in Nat
        BY <2>1, PartIsABlock
    <2> QED BY <1>4, <2>1, <2>2, FailEffect DEF InCall
<1>8. CASE PutHeaders
    <2>1. Write(ColumnHeaders(offsets), 2) /\ pc = "put:part" /\ pc' = "idle"
        BY <1>8 DEF PutHeaders, Return
    <2>2. FileInv' /\ position <= position' /\ Kept(Stream, Stream', position)
        BY <1>5, <2>1, HeadersAreABlock
    <2> QED BY <1>4, <2>1, <2>2 DEF InCall
<1>9. CASE HeadersFail
    <2>1. /\ WriteFails(ColumnHeaders(offsets), 2) /\ pc = "put:part" /\ base' = base
          /\ 2 \in Nat
        BY <1>9 DEF HeadersFail
    <2> QED BY <1>4, <2>1, FailEffect DEF InCall
<1>10. CASE FailCall
    <2>1. SeekBack(base) /\ pc = "error" /\ pc' = "idle"
        BY <1>10 DEF FailCall, Return
    <2>2. FileInv' /\ Stream' = Stream /\ position' \in {base, position}
        BY <1>0, <2>1, SeekEffect
    <2>3. Start = base /\ Start' = position'
        BY <2>1 DEF Start, InCall
    <2> QED BY <1>0, <2>2, <2>3 DEF Kept
<1>11. CASE WriteSection
    <2>1. PICK label, block, size, next : Section(label, block, size, next)
                /\ block \in Block /\ size \in Nat /\ label \notin {"idle", "closed"}
        <3>1. FooterSize \in Nat
            BY DEF FooterSize
        <3> QED BY <1>11, <3>1, SectionCases, SectionsAreBlocks
    <2>2. FileInv' /\ position <= position' /\ Kept(Stream, Stream', position)
        BY <1>5, <2>1 DEF Section
    <2> QED BY <1>4, <2>1, <2>2 DEF InCall, Section
<1>12. CASE SectionFails
    <2>1. PICK block : \E size \in Nat : WriteFails(block, size)
        BY <1>12, SectionFailsWrites
    <2>2. base' = base /\ InCall
        BY <1>12, SectionFailsIs DEF InCall
    <2> QED BY <1>4, <2>1, <2>2, FailEffect
<1>13. CASE SetSize
    <2>1. position % 2 = 0 /\ pc = "finish:truncate" /\ UNCHANGED <<base, position>>
        BY <1>13 DEF FinishInv, FooterLaid, SetSize
    <2>2. FileInv' /\ Kept(Stream, Stream', position)
        BY <1>13, <2>1, SetSizeEffect
    <2> QED BY <1>0, <1>4, <2>1, <2>2 DEF InCall
<1>14. CASE Free
    <2>1. FileInv' /\ Stream' = Stream /\ position' = position
        BY <1>14, FreeEffect
    <2>2. Start = position /\ Start' = position'
        BY <1>14 DEF Free, Goto, Start, InCall
    <2> QED BY <1>0, <2>1, <2>2 DEF Kept
<1> QED BY <1>1, <1>2, <1>3, <1>6, <1>7, <1>8, <1>9, <1>10, <1>11, <1>12, <1>13,
           <1>14, NextCases

------------------------------------------------------------------------------
(* Types, and what is known between the steps of a call *)

\* A failure is counted and remembered.
LEMMA MayFailType ==
    ASSUME TypeOK, NEW what, MayFail(what) \/ UNCHANGED faultVars
    PROVE  failed' \subseteq Faults \cap Grave /\ faults' \in 0..MaxFaults
BY RowGroupWriterAssumption DEF TypeOK, MayFail, faultVars

\* So is a write that fails.
LEMMA WriteFailsType ==
    ASSUME TypeOK, NEW block, NEW size, WriteFails(block, size)
    PROVE  failed' \subseteq Faults \cap Grave /\ faults' \in 0..MaxFaults
<1>1. MayFail(block.kind)
    BY DEF WriteFails
<1> QED BY <1>1, MayFailType

\* The rows of row groups are a number.
LEMMA RowsOfType == ASSUME NEW list \in Seq(Groups) PROVE RowsOf(list) \in Nat
<1> DEFINE n == [i \in DOMAIN list |-> RowsIn[list[i]]]
<1>1. \A i \in DOMAIN list : RowsIn[list[i]] \in Nat
    BY RowGroupWriterAssumption
<1>2. n \in Seq(Nat)
    BY <1>1
<1> HIDE DEF n
<1>3. Total(n) \in Nat
    BY <1>2, TotalType
<1> QED BY <1>3 DEF RowsOf, n

\* What finish promises.
LEMMA ContentType ==
    ASSUME TypeOK, NEW s \in BOOLEAN
    PROVE  [content |-> Content, synced |-> s] \in Promise
<1>1. /\ columns \in 0..MaxColumns /\ metadata \in Metadata \cup {None}
      /\ named \subseteq 1..columns /\ accepted \in Seq(Groups) /\ MaxColumns \in Nat
      /\ columns \in Nat
    BY RowGroupWriterAssumption DEF TypeOK
<1>2. RowsOf(accepted) \in Nat /\ named \in SUBSET (1..MaxColumns)
    BY <1>1, RowsOfType
<1>3. ASSUME NEW g \in Groups PROVE Whole(g) \in Seq(Block)
    <2>1. ASSUME NEW i \in 1..(2 * columns)
          PROVE  (IF PartSize(g, i) = 0 THEN Hole ELSE Part(g, i)) \in Block
        BY <1>1, HoleIsABlock DEF Part, Block
    <2>2. Whole(g) \in [1..(2 * columns) -> Block]
        BY <2>1 DEF Whole, Parts
    <2>3. 2 * columns \in Nat
        BY <1>1
    <2> QED BY <2>2, <2>3
<1>4. [i \in DOMAIN accepted |-> Whole(accepted[i])] \in Seq(Seq(Block))
    <2>1. \A i \in 1..Len(accepted) : accepted[i] \in Groups
        BY <1>1
    <2>2. [i \in 1..Len(accepted) |-> Whole(accepted[i])]
              \in [1..Len(accepted) -> Seq(Block)]
        BY <1>3, <2>1
    <2>3. DOMAIN accepted = 1..Len(accepted) /\ Len(accepted) \in Nat
        BY <1>1
    <2> QED BY <2>2, <2>3
<1>5. Content \in [columns : 0..MaxColumns, rows : Nat, named : SUBSET (1..MaxColumns),
                   metadata : Metadata \cup {None}, groups : Seq(Seq(Block))]
    BY <1>1, <1>2, <1>4 DEF Content
<1> QED BY <1>5 DEF Promise

\* TypeOK is kept by every step.
LEMMA TypeStep ==
    ASSUME TypeOK, FileInv, CallInv, FinishInv, Next
    PROVE  TypeOK'
<1>0. /\ FileInv' /\ disk' \in File(Block) => FilesOK'
      /\ disk \in File(Block) /\ os \in File(Block)
    BY FileStep DEF FileInv, FilesOK, TypeOK
<1> USE DEF formatVars, fileVars, ghostVars, faultVars, callVars, vars
<1>30. FileInv' /\ (disk' = disk => FilesOK')
    BY <1>0, FileStep
<1>21. Return => /\ pc' \in Labels /\ group' \in Groups \cup {None} /\ base' \in Nat
                /\ offsets' \in Seq(Extent) /\ sync' \in BOOLEAN
    <2>1. <<>> \in Seq(Extent)
        OBVIOUS
    <2> SUFFICES ASSUME Return
                 PROVE  /\ pc' \in Labels /\ group' \in Groups \cup {None} /\ base' \in Nat
                        /\ offsets' \in Seq(Extent)
                        /\ sync' \in BOOLEAN
        OBVIOUS
    <2>2. sync' \in BOOLEAN
        BY Zenon DEF Return
    <2>4. pc' = "idle" /\ group' = None /\ base' = 0
        BY DEF Return
    <2>5. offsets' \in Seq(Extent)
        BY <2>1, Zenon DEF Return
    <2>3. "idle" \in Labels
        BY DEF Labels
    <2>6. 0 \in Nat
        OBVIOUS
    <2> QED BY <2>2, <2>3, <2>4, <2>5, <2>6, Zenon
<1>22. FileInv' => position' \in Nat
    BY DEF FileInv
<1>1. ASSUME AddColumn PROVE TypeOK'
    <2>1. failed' \subseteq Faults \cap Grave /\ faults' \in 0..MaxFaults
        BY <1>1, MayFailType DEF AddColumn
    <2>2. columns' \in 0..MaxColumns /\ columns' = columns + 1 /\ columns \in Nat
        BY <1>1, RowGroupWriterAssumption DEF AddColumn, TypeOK
    <2>3. /\ strings \in Seq(Metadata \cup Nat) /\ names \in Seq(Nat)
          /\ Len(names) = columns /\ Len(strings) \in Nat /\ named \subseteq 1..columns
        BY DEF TypeOK
    <2>4. /\ strings' \in Seq(Metadata \cup Nat)
          /\ names' \in Seq(Nat) /\ Len(names') = columns + 1
          /\ named' \subseteq 1..(columns + 1)
        <3>1. CASE /\ strings' = Append(strings, columns + 1)
                   /\ names' = Append(names, Len(strings))
                   /\ named' = named \cup {columns + 1}
            <4>1. columns + 1 \in Metadata \cup Nat
                BY <2>2
            <4>2. strings' \in Seq(Metadata \cup Nat)
                BY <2>3, <3>1, <4>1
            <4>3. names' \in Seq(Nat) /\ Len(names') = columns + 1
                BY <2>3, <3>1
            <4>4. named' \subseteq 1..(columns + 1)
                BY <2>2, <2>3, <3>1
            <4> QED BY <4>2, <4>3, <4>4
        <3>2. CASE names' = Append(names, 0) /\ UNCHANGED <<strings, named>>
            <4>1. names' \in Seq(Nat) /\ Len(names') = columns + 1
                BY <2>3, <3>2
            <4>2. named' \subseteq 1..(columns + 1)
                BY <2>2, <2>3, <3>2
            <4> QED BY <2>3, <3>2, <4>1, <4>2
        <3> QED BY <1>1, <3>1, <3>2 DEF AddColumn
    <2> QED BY <1>1, <1>30, <2>1, <2>2, <2>4 DEF AddColumn, TypeOK
<1>2. ASSUME NEW m \in Metadata, SetMetadata(m) PROVE TypeOK'
    BY <1>2, <1>30 DEF SetMetadata, TypeOK
<1>3. CASE WriteHeader
    <2>1. pc' \in Labels
        BY <1>3 DEF WriteHeader, Goto, Labels
    <2> QED BY <1>3, <1>22, <1>30, <2>1 DEF WriteHeader, TypeOK
<1>4. CASE HeaderFails
    <2>1. failed' \subseteq Faults \cap Grave /\ faults' \in 0..MaxFaults
        BY <1>4, WriteFailsType DEF HeaderFails
    <2> QED BY <1>4, <1>30, <2>1 DEF HeaderFails, Goto, TypeOK, Labels
<1>5. ASSUME NEW g \in Groups, NEW n \in 0..MaxColumns, Put(g, n) PROVE TypeOK'
    <2>1. puts' \in 0..MaxPuts /\ position \in Nat
        BY <1>5, RowGroupWriterAssumption DEF Put, TypeOK, FileInv
    <2>2. CASE UNCHANGED callVars
        BY <1>5, <1>30, <2>1, <2>2 DEF Put, TypeOK
    <2>3. CASE ~(footer_written \/ n # columns \/ n = 0)
        BY <1>5, <1>30, <2>1, <2>3 DEF Put, TypeOK, Goto, Labels
    <2> QED BY <1>5, <2>2, <2>3 DEF Put
<1>6. CASE PutPart
    <2>1. offsets' \in Seq(Extent)
        BY <1>6, PartIsABlock DEF PutPart, TypeOK
    <2> QED BY <1>6, <1>30, <2>1 DEF PutPart, TypeOK
<1>7. CASE PartFails
    <2>1. failed' \subseteq Faults \cap Grave /\ faults' \in 0..MaxFaults
        BY <1>7, WriteFailsType DEF PartFails
    <2> QED BY <1>7, <1>30, <2>1 DEF PartFails, Goto, TypeOK, Labels
<1>8. ASSUME CountGroup PROVE headers' \in Seq(Extent)
    BY <1>8, HeadersAreABlock DEF CountGroup, TypeOK
<1>9. CASE PutHeaders
    <2>1. group \in Groups
        BY <1>9, PartIsABlock DEF PutHeaders
    <2>2. accepted' \in Seq(Groups) /\ row_count' \in Nat
        BY <1>9, <2>1, RowGroupWriterAssumption DEF PutHeaders, TypeOK
    <2>3. headers' \in Seq(Extent)
        BY <1>8, <1>9 DEF PutHeaders
    <2> QED BY <1>9, <1>21, <1>30, <2>2, <2>3 DEF PutHeaders, TypeOK
<1>10. CASE HeadersFail
    <2>1. failed' \subseteq Faults \cap Grave /\ faults' \in 0..MaxFaults
        BY <1>10, WriteFailsType DEF HeadersFail
    <2>2. headers' \in Seq(Extent)
        BY <1>8, <1>10 DEF HeadersFail
    <2> QED BY <1>10, <1>30, <2>1, <2>2 DEF HeadersFail, Goto, TypeOK, Labels
<1>11. CASE FailCall
    <2>1. failed' \subseteq Faults \cap Grave /\ faults' \in 0..MaxFaults
        BY <1>11, MayFailType DEF FailCall, SeekBack
    <2> QED BY <1>11, <1>21, <1>30, <2>1 DEF FailCall, TypeOK
<1>12. ASSUME NEW s \in BOOLEAN, Finish(s) PROVE TypeOK'
    <2>1. pc' \in Labels /\ position \in Nat
        BY <1>12 DEF Finish, Goto, Labels, FileInv
    <2> QED BY <1>12, <1>30, <2>1 DEF Finish, TypeOK
<1>13. CASE MetadataFails
    <2>1. failed' \subseteq Faults \cap Grave /\ faults' \in 0..MaxFaults
        BY <1>13, MayFailType DEF MetadataFails
    <2> QED BY <1>13, <1>21, <1>30, <2>1 DEF MetadataFails, TypeOK
<1>23. CASE AddMetadata
    <2>1. strings' \in Seq(Metadata \cup Nat)
        <3>1. strings \in Seq(Metadata \cup Nat) /\ metadata \in Metadata \cup {None}
            BY DEF TypeOK
        <3> QED BY <1>23, <3>1 DEF AddMetadata
    <2>2. pc' \in Labels
        BY <1>23 DEF AddMetadata, Goto, Labels
    <2> QED BY <1>23, <1>30, <2>1, <2>2 DEF AddMetadata, TypeOK
<1>14. CASE WriteSection
    <2>1. PICK label, block, size, next :
                  Section(label, block, size, next) /\ next \in Labels
        <3>1. {"finish:groups", "finish:descriptors", "finish:footer",
               "finish:truncate"} \subseteq Labels
            BY DEF Labels
        <3> QED BY <1>14, <3>1, SectionCases
    <2> QED BY <1>30, <2>1 DEF Section, TypeOK
<1>15. CASE SectionFails
    <2>1. faults' \in 0..MaxFaults
        BY <1>15, SectionFailsIs, RowGroupWriterAssumption DEF TypeOK
    <2>2. /\ pc' = "error"
          /\ UNCHANGED <<group, base, offsets, sync, formatVars, disk, named,
                         accepted, promised, puts, failed>>
        BY <1>15, SectionFailsIs
    <2> QED BY <1>30, <2>1, <2>2 DEF TypeOK, Labels
<1>16. CASE SetSize
    BY <1>16, <1>30 DEF SetSize, Goto, TypeOK, Labels
<1>17. CASE SyncAndReturn
    <2>1. promised' \in Promise \cup {None}
        <3>1. sync \in BOOLEAN
            BY DEF TypeOK
        <3> QED BY <1>17, <3>1, ContentType DEF SyncAndReturn
    <2>2. FilesOK'
        BY <1>0, <1>17, FileStep DEF SyncAndReturn
    <2> QED BY <1>17, <1>21, <2>1, <2>2 DEF SyncAndReturn, TypeOK
<1>18. CASE SystemCallFails
    <2>1. failed' \subseteq Faults \cap Grave /\ faults' \in 0..MaxFaults
        BY <1>18, MayFailType DEF SystemCallFails
    <2> QED BY <1>18, <1>30, <2>1 DEF SystemCallFails, Goto, TypeOK, Labels
<1>19. CASE Free
    <2>1. failed' \subseteq Faults \cap Grave /\ faults' \in 0..MaxFaults
        BY <1>19, MayFailType DEF Free
    <2> QED BY <1>19, <1>30, <2>1 DEF Free, Goto, TypeOK, Labels
<1>20. CASE Closed
    BY <1>20, <1>30 DEF Closed, TypeOK
<1> QED BY <1>1, <1>2, <1>3, <1>4, <1>5, <1>6, <1>7, <1>9, <1>10, <1>11, <1>12,
           <1>13, <1>14, <1>15, <1>16, <1>17, <1>18, <1>19, <1>20, <1>23 DEF Next

\* What a failure adds to failed, and that it forgets nothing.
LEMMA FailedGrows ==
    ASSUME Next
    PROVE  /\ failed \subseteq failed'
           /\ "seek" \in failed' /\ "seek" \notin failed =>
                  FailCall /\ UNCHANGED position
           /\ "columnHeaders" \in failed' => "columnHeaders" \in failed \/ HeadersFail
<1> USE DEF formatVars, fileVars, ghostVars, faultVars, callVars, vars
<1>1. CASE \/ AddColumn \/ PartFails \/ HeadersFail \/ HeaderFails \/ MetadataFails
           \/ SystemCallFails \/ Free
    <2>1. PICK what \in {"name", "column", "columnHeaders", "header", "metadata",
                         "truncate", "sync", "close"} :
              /\ failed' = failed \cup ({what} \cap Grave) \/ failed' = failed
              /\ what = "columnHeaders" => HeadersFail
        BY <1>1 DEF AddColumn, PartFails, HeadersFail, HeaderFails, MetadataFails,
                    SystemCallFails, Free, WriteFails, MayFail, Part, ColumnHeaders,
                    HeaderBlock
    <2> QED BY <2>1
<1>2. CASE FailCall
    <2>1. \/ UNCHANGED failed
          \/ failed' = failed \cup {"seek"} /\ UNCHANGED position
        BY <1>2 DEF FailCall, SeekBack, MayFail, Grave
    <2> QED BY <1>2, <2>1
<1>3. CASE SectionFails
    BY <1>3, SectionFailsIs
<1>4. CASE WriteSection
    BY <1>4 DEF WriteSection
<1>5. CASE \/ (\E m \in Metadata : SetMetadata(m)) \/ WriteHeader
           \/ (\E g \in Groups, n \in 0..MaxColumns : Put(g, n))
           \/ PutPart \/ PutHeaders \/ (\E s \in BOOLEAN : Finish(s))
           \/ AddMetadata \/ SetSize \/ SyncAndReturn \/ Closed
    BY <1>5 DEF SetMetadata, WriteHeader, Put, PutPart, PutHeaders, Finish, AddMetadata,
                SetSize, SyncAndReturn, Closed
<1> QED BY <1>1, <1>2, <1>3, <1>4, <1>5 DEF Next

\* Where the next call writes is even as long as no seek has failed.
LEMMA EvenStart ==
    ASSUME TypeOK, FileInv, CallInv, FinishInv, Next, "seek" \notin failed'
    PROVE  Start' % 2 = 0
<1>0. /\ position \in Nat /\ Start % 2 = 0 /\ (InCall => Start = base)
      /\ (~InCall => Start = position)
    BY FailedGrows DEF TypeOK, FilesOK, CallInv, Start
<1> USE DEF callVars, vars, fileVars
<1>1. CASE Start' = Start
    BY <1>0, <1>1
<1>2. CASE WriteHeader
    <2>1. position' = Align(position) + 2
        <3>1. Write(HeaderBlock, 2) /\ 2 \in Nat
            BY <1>2 DEF WriteHeader
        <3> QED BY <3>1, HoleIsABlock, WriteEffect
    <2>2. Start' = position'
        BY <1>2 DEF WriteHeader, Goto, Start, InCall
    <2>3. Align(position) \in Nat /\ Align(position) % 2 = 0
        BY <1>0, AlignIs
    <2> QED BY <2>1, <2>2, <2>3
<1>3. CASE HeaderFails
    BY <1>3 DEF HeaderFails, Goto, Start, InCall
<1>4. CASE PutHeaders
    <2>1. position' = Align(position) + 2
        BY <1>4, HeadersAreABlock, WriteEffect DEF PutHeaders
    <2>2. Start' = position'
        BY <1>4 DEF PutHeaders, Return, Start, InCall
    <2>3. Align(position) \in Nat /\ Align(position) % 2 = 0
        BY <1>0, AlignIs
    <2> QED BY <2>1, <2>2, <2>3
<1>5. CASE FailCall
    <2>1. position' = base
        BY <1>5, FailedGrows DEF FailCall, SeekBack, MayFail, Grave
    <2>2. Start' = position' /\ Start = base
        BY <1>5 DEF FailCall, Return, Start, InCall
    <2> QED BY <1>0, <2>1, <2>2
<1>6. CASE MetadataFails
    <2>1. position = base /\ position' = position /\ InCall
        BY <1>6 DEF FinishInv, MetadataFails, InCall
    <2>2. Start' = position'
        BY <1>6 DEF MetadataFails, Return, Start, InCall
    <2> QED BY <1>0, <2>1, <2>2
<1>7. CASE SyncAndReturn
    <2>1. position % 2 = 0 /\ position' = position
        BY <1>7 DEF FinishInv, FooterLaid, SyncAndReturn
    <2>2. Start' = position'
        BY <1>7 DEF SyncAndReturn, Return, Start, InCall
    <2> QED BY <2>1, <2>2
<1>8. ASSUME InCall, pc' \notin {"idle", "closed"}, base' = base PROVE Start' = Start
    BY <1>8 DEF Start, InCall
<1>9. CASE PutPart \/ PartFails \/ HeadersFail \/ AddMetadata \/ SetSize
           \/ SystemCallFails
    BY <1>1, <1>8, <1>9 DEF PutPart, PartFails, HeadersFail, AddMetadata, SetSize,
                            SystemCallFails, Goto, InCall
<1>10. CASE WriteSection
    <2>1. InCall /\ pc' \notin {"idle", "closed"} /\ base' = base
        BY <1>10, SectionCases DEF Section, InCall
    <2> QED BY <1>1, <1>8, <2>1
<1>11. CASE SectionFails
    <2>1. InCall /\ pc' \notin {"idle", "closed"} /\ base' = base
        BY <1>11, SectionFailsIs DEF InCall
    <2> QED BY <1>1, <1>8, <2>1
<1>12. CASE AddColumn \/ (\E m \in Metadata : SetMetadata(m)) \/ Closed
    <2>1. UNCHANGED <<pc, base, position>>
        BY <1>12 DEF AddColumn, SetMetadata, Closed
    <2> QED BY <1>1, <2>1 DEF Start, InCall
<1>13. ASSUME NEW g \in Groups, NEW n \in 0..MaxColumns, Put(g, n)
       PROVE  Start' % 2 = 0
    <2>1. CASE UNCHANGED callVars
        BY <1>1, <1>13, <2>1 DEF Put, Start, InCall
    <2>2. CASE base' = position
        BY <1>0, <1>13, <2>2 DEF Put, Start, InCall
    <2> QED BY <1>13, <2>1, <2>2 DEF Put
<1>14. ASSUME NEW s \in BOOLEAN, Finish(s) PROVE Start' % 2 = 0
    BY <1>0, <1>14 DEF Finish, Start, InCall
<1>15. CASE Free
    BY <1>0, <1>15 DEF Free, Goto, Start, InCall
<1> QED BY <1>2, <1>3, <1>4, <1>5, <1>6, <1>7, <1>9, <1>10, <1>11, <1>12, <1>13,
           <1>14, <1>15 DEF Next

\* CallInv is kept by every step.
LEMMA CallStep ==
    ASSUME TypeOK, FileInv, CallInv, FinishInv, Next
    PROVE  CallInv'
<1>0. /\ position' \in Nat /\ position \in Nat /\ base <= position
      /\ "seek" \notin failed' => Start' % 2 = 0
    BY FileStep, EvenStart DEF FileInv, CallInv
<1> USE DEF formatVars, fileVars, ghostVars, faultVars, callVars, vars
<1>1. ASSUME AddColumn PROVE CallInv'
    <2>1. columns \in Nat
        BY DEF TypeOK
    <2> QED BY <1>0, <1>1, <2>1 DEF AddColumn, CallInv, InCall
<1>2. ASSUME NEW m \in Metadata, SetMetadata(m) PROVE CallInv'
    BY <1>0, <1>2 DEF SetMetadata, CallInv, InCall
<1>3. CASE WriteHeader
    BY <1>0, <1>3 DEF WriteHeader, Goto, CallInv, InCall
<1>4. CASE HeaderFails
    BY <1>0, <1>4 DEF HeaderFails, Goto, CallInv, InCall
<1>5. ASSUME NEW g \in Groups, NEW n \in 0..MaxColumns, Put(g, n) PROVE CallInv'
    <2>1. CASE UNCHANGED callVars
        BY <1>0, <1>5, <2>1 DEF Put, CallInv, InCall
    <2>2. CASE ~(footer_written \/ n # columns \/ n = 0)
        <3>1. columns > 0
            BY <2>2 DEF TypeOK
        <3> QED BY <1>0, <1>5, <2>2, <3>1 DEF Put, Goto, CallInv, InCall
    <2> QED BY <1>5, <2>1, <2>2 DEF Put
<1>6. ASSUME NEW block \in Block, NEW size \in Nat, Write(block, size)
      PROVE  base <= position'
    <2>1. Align(position) \in Nat /\ position <= Align(position)
        BY <1>0, AlignIs
    <2>2. position' = IF size = 0 THEN position ELSE Align(position) + size
        BY <1>6, WriteEffect
    <2> QED BY <1>0, <2>1, <2>2 DEF TypeOK
<1>7. ASSUME NEW block, NEW size \in Nat, WriteFails(block, size)
      PROVE  base <= position'
    <2>1. position <= position'
        BY <1>7, FailEffect
    <2> QED BY <1>0, <2>1 DEF TypeOK
<1>8. CASE PutPart
    <2>1. base <= position'
        BY <1>6, <1>8, PartIsABlock DEF PutPart
    <2> QED BY <1>0, <1>8, <2>1 DEF PutPart, CallInv, InCall
<1>9. CASE PartFails
    <2>1. base <= position'
        <3>1. PartSize(group, NextPart) \in Nat
            BY <1>9, PartIsABlock DEF PartFails
        <3> QED BY <1>7, <1>9, <3>1 DEF PartFails
    <2> QED BY <1>0, <1>9, <2>1 DEF PartFails, Goto, CallInv, InCall
<1>10. CASE PutHeaders
    BY <1>0, <1>10 DEF PutHeaders, Return, CallInv, InCall
<1>11. CASE HeadersFail
    <2>1. base <= position'
        BY <1>7, <1>11 DEF HeadersFail
    <2> QED BY <1>0, <1>11, <2>1 DEF HeadersFail, Goto, CallInv, InCall
<1>12. CASE FailCall
    BY <1>0, <1>12 DEF FailCall, Return, CallInv, InCall
<1>13. ASSUME NEW s \in BOOLEAN, Finish(s) PROVE CallInv'
    BY <1>0, <1>13 DEF Finish, Goto, CallInv, InCall
<1>14. CASE MetadataFails
    BY <1>0, <1>14 DEF MetadataFails, Return, CallInv, InCall
<1>22. CASE AddMetadata
    BY <1>0, <1>22 DEF AddMetadata, Goto, CallInv, InCall
<1>15. CASE WriteSection
    <2>1. PICK label, block, size, next : Section(label, block, size, next)
                /\ block \in Block /\ size \in Nat
                /\ {label, next} \subseteq {"finish:strings", "finish:groups",
                       "finish:descriptors", "finish:footer", "finish:truncate"}
        <3>1. FooterSize \in Nat
            BY DEF FooterSize
        <3> QED BY <1>15, <3>1, SectionCases, SectionsAreBlocks
    <2>2. base <= position'
        BY <1>6, <2>1 DEF Section
    <2> QED BY <1>0, <2>1, <2>2 DEF Section, CallInv, InCall
<1>16. CASE SectionFails
    <2>1. base <= position'
        BY <1>7, <1>16, SectionFailsWrites
    <2> QED BY <1>0, <1>16, <2>1, SectionFailsIs DEF CallInv, InCall
<1>17. CASE SetSize
    BY <1>0, <1>17 DEF SetSize, Goto, CallInv, InCall
<1>18. CASE SyncAndReturn
    BY <1>0, <1>18 DEF SyncAndReturn, Return, CallInv, InCall
<1>19. CASE SystemCallFails
    BY <1>0, <1>19 DEF SystemCallFails, Goto, CallInv, InCall
<1>20. CASE Free
    BY <1>0, <1>20 DEF Free, Goto, CallInv, InCall
<1>21. CASE Closed
    BY <1>0, <1>21 DEF Closed, CallInv, InCall
<1> QED BY <1>1, <1>2, <1>3, <1>4, <1>5, <1>8, <1>9, <1>10, <1>11, <1>12, <1>13,
           <1>14, <1>15, <1>16, <1>17, <1>18, <1>19, <1>20, <1>21, <1>22 DEF Next

------------------------------------------------------------------------------
(* Row groups stay where they are *)

\* Parts below limit stay when the blocks below limit do.
LEMMA PartsLaidStay ==
    ASSUME NEW f, NEW h, NEW limit \in Nat, NEW limit2 \in Nat, limit <= limit2,
           NEW list \in Seq(Extent), NEW g,
           Kept(f, h, limit), PartsLaid(f, list, g, limit)
    PROVE  PartsLaid(h, list, g, limit2)
<1> SUFFICES ASSUME NEW k \in DOMAIN list
             PROVE  /\ list[k].size = PartSize(g, k)
                    /\ list[k].size # 0 =>
                           /\ list[k].offset % 2 = 0
                           /\ list[k].offset + list[k].size <= limit2
                           /\ BlockAt(h, list[k].offset) = Part(g, k)
    BY DEF PartsLaid
<1>1. list[k].offset \in Nat /\ list[k].size \in Nat
    <2>1. list[k] \in Extent
        OBVIOUS
    <2> QED BY <2>1 DEF Extent
<1>2. /\ list[k].size = PartSize(g, k)
      /\ list[k].size # 0 =>
             /\ list[k].offset % 2 = 0
             /\ list[k].offset + list[k].size <= limit
             /\ BlockAt(f, list[k].offset) = Part(g, k)
    BY DEF PartsLaid
<1>3. list[k].size # 0 => list[k].offset < limit /\ list[k].offset + list[k].size <= limit2
    BY <1>1, <1>2
<1> QED BY <1>1, <1>2, <1>3 DEF Kept

\* So do row groups.
LEMMA LaidStays ==
    ASSUME NEW f, NEW h, NEW limit \in Nat, NEW limit2 \in Nat, limit <= limit2,
           NEW header \in Extent, NEW g, NEW n,
           Kept(f, h, limit), Laid(f, header, g, limit, n)
    PROVE  Laid(h, header, g, limit2, n)
<1>1. PICK at \in Nat : at = header.offset + header.size
    BY DEF Extent
<1>2. /\ at % 2 = 0 /\ at + 2 <= limit
      /\ \E list \in Seq(Extent) :
             /\ Len(list) = 2 * n
             /\ BlockAt(f, at) = ColumnHeaders(list)
             /\ PartsLaid(f, list, g, limit)
    BY <1>1 DEF Laid
<1>3. PICK list \in Seq(Extent) :
             /\ Len(list) = 2 * n
             /\ BlockAt(f, at) = ColumnHeaders(list)
             /\ PartsLaid(f, list, g, limit)
    BY <1>2
<1>4. BlockAt(h, at) = BlockAt(f, at) /\ at + 2 <= limit2
    BY <1>2 DEF Kept
<1>5. PartsLaid(h, list, g, limit2)
    BY <1>3, PartsLaidStay
<1> QED BY <1>1, <1>2, <1>3, <1>4, <1>5 DEF Laid

\* What a reader makes of a row group that is there.
LEMMA ReadsLaid ==
    ASSUME NEW f, f.size \in Nat, NEW header \in Extent, NEW g \in Groups,
           NEW limit \in Nat, limit <= f.size, columns \in Nat,
           Laid(f, header, g, limit, columns)
    PROVE  ReadGroup(f, header) = Whole(g)
<1>1. PICK list \in Seq(Extent) :
             /\ Len(list) = 2 * columns
             /\ BlockAt(f, header.offset + header.size) = ColumnHeaders(list)
             /\ PartsLaid(f, list, g, limit)
    BY DEF Laid
<1>2. DOMAIN list = Parts
    BY <1>1 DEF Parts
<1>3. ASSUME NEW i \in Parts
      PROVE  ReadPart(f, list[i]) = IF PartSize(g, i) = 0 THEN Hole ELSE Part(g, i)
    <2>1. /\ list[i].size = PartSize(g, i)
          /\ list[i].size # 0 =>
                 /\ list[i].offset + list[i].size <= limit
                 /\ BlockAt(f, list[i].offset) = Part(g, i)
        BY <1>1, <1>2 DEF PartsLaid
    <2>2. list[i].offset \in Nat /\ list[i].size \in Nat
        <3>1. list[i] \in Extent
            BY <1>2
        <3> QED BY <3>1 DEF Extent
    <2>3. list[i].size # 0 => ~(list[i].offset + list[i].size > f.size)
        BY <2>1, <2>2
    <2> QED BY <2>1, <2>3 DEF ReadPart
<1>4. ReadGroup(f, header) = [i \in DOMAIN list |-> ReadPart(f, list[i])]
    BY <1>1 DEF ReadGroup, ColumnHeaders
<1> QED BY <1>2, <1>3, <1>4 DEF Whole

\* One more row group has its rows more.
LEMMA RowsOfAppend ==
    ASSUME NEW list \in Seq(Groups), NEW g \in Groups
    PROVE  /\ RowsOf(Append(list, g)) = RowsOf(list) + RowsIn[g]
           /\ RowsOf(list) \in Nat
<1> DEFINE n == [i \in DOMAIN list |-> RowsIn[list[i]]]
           m == [i \in DOMAIN Append(list, g) |-> RowsIn[Append(list, g)[i]]]
<1>1. RowsIn[g] \in Nat /\ \A i \in DOMAIN list : RowsIn[list[i]] \in Nat
    BY RowGroupWriterAssumption
<1>2. n \in Seq(Nat) /\ Len(n) = Len(list)
    BY <1>1
<1>3. m = Append(n, RowsIn[g])
    <2>1. PICK l \in Nat : l = Len(list)
        OBVIOUS
    <2>2. /\ m \in Seq(Nat) /\ Len(m) = l + 1
          /\ \A i \in 1..l : m[i] = RowsIn[list[i]]
          /\ m[l + 1] = RowsIn[g]
        BY <1>1, <2>1
    <2>3. /\ Append(n, RowsIn[g]) \in Seq(Nat) /\ Len(Append(n, RowsIn[g])) = l + 1
          /\ \A i \in 1..l : Append(n, RowsIn[g])[i] = RowsIn[list[i]]
          /\ Append(n, RowsIn[g])[l + 1] = RowsIn[g]
        BY <1>1, <1>2, <2>1
    <2>4. PICK p \in Seq(Nat), q \in Seq(Nat) : p = m /\ q = Append(n, RowsIn[g])
        BY <2>2, <2>3
    <2> HIDE DEF m, n
    <2>5. \A i \in 1..(l + 1) : p[i] = q[i]
        BY <2>2, <2>3, <2>4
    <2>6. p = q
        BY <2>2, <2>3, <2>4, <2>5, SeqEqual
    <2> QED BY <2>4, <2>6
<1> HIDE DEF m, n
<1>4. Total(Append(n, RowsIn[g])) = Total(n) + RowsIn[g] /\ Total(n) \in Nat
    BY <1>1, <1>2, TotalAppend, TotalType
<1> QED BY <1>3, <1>4 DEF RowsOf, m, n

------------------------------------------------------------------------------
(* GroupsInv is kept by every step *)

\* The row groups accepted before a step, when the step keeps the headers there
\* were.
LEMMA AcceptedStay ==
    ASSUME TypeOK, AcceptedInv, NEW limit \in Nat, Start \in Nat, Start <= limit,
           Kept(Stream, Stream', Start), NEW list \in Seq(Extent),
           Len(headers) <= Len(list), \A j \in 1..Len(headers) : list[j] = headers[j]
    PROVE  /\ \A i \in DOMAIN accepted : \E j \in i..Len(list) :
                  Laid(Stream', list[j], accepted[i], limit, columns)
           /\ "columnHeaders" \notin failed => \A i \in DOMAIN accepted :
                  Laid(Stream', list[i], accepted[i], limit, columns)
<1>1. /\ headers \in Seq(Extent) /\ Len(headers) \in Nat /\ accepted \in Seq(Groups)
      /\ Len(list) \in Nat
    BY DEF TypeOK, Extent
<1>2. ASSUME NEW i \in DOMAIN accepted
      PROVE  \E j \in i..Len(list) : Laid(Stream', list[j], accepted[i], limit, columns)
    <2>1. PICK j \in i..Len(headers) :
              Laid(Stream, headers[j], accepted[i], Start, columns)
        BY DEF AcceptedInv
    <2>2. j \in 1..Len(headers) /\ j \in i..Len(list)
        BY <1>1, <2>1
    <2>3. headers[j] \in Extent
        BY <1>1, <2>2
    <2>4. Laid(Stream', headers[j], accepted[i], limit, columns)
        BY <2>1, <2>3, LaidStays
    <2> QED BY <2>2, <2>4
<1>3. ASSUME NEW i \in DOMAIN accepted, "columnHeaders" \notin failed
      PROVE  Laid(Stream', list[i], accepted[i], limit, columns)
    <2>1. /\ Laid(Stream, headers[i], accepted[i], Start, columns)
          /\ i \in 1..Len(headers)
        BY <1>1, <1>3 DEF AcceptedInv
    <2>2. headers[i] \in Extent
        BY <1>1, <2>1
    <2>3. Laid(Stream', headers[i], accepted[i], limit, columns)
        BY <2>1, <2>2, LaidStays
    <2> QED BY <2>1, <2>3
<1> QED BY <1>2, <1>3

\* The place of the header of the row group that is complete.
LEMMA HeaderLaid ==
    ASSUME TypeOK, FileInv, CallInv, PuttingInv,
           pc = "put:part", NextPart \notin Parts, Write(ColumnHeaders(offsets), 2)
    PROVE  Laid(Stream', [offset |-> base, size |-> Align(position) - base], group,
                position', columns)
<1> DEFINE header == [offset |-> base, size |-> Align(position) - base]
<1>0. position \in Nat /\ base \in Nat /\ columns \in Nat /\ offsets \in Seq(Extent)
    BY SectionsAreBlocks DEF TypeOK, FilesOK
<1>1. /\ position' = Align(position) + 2
      /\ Kept(Stream, Stream', position)
      /\ BlockAt(Stream', Align(position)) = ColumnHeaders(offsets)
    BY HeadersAreABlock, WriteEffect
<1>2. /\ Align(position) \in Nat /\ Align(position) % 2 = 0
      /\ position <= Align(position)
    BY <1>0, AlignIs
<1>3. header.offset + header.size = Align(position)
    BY <1>0, <1>2
<1>4. Len(offsets) = 2 * columns
    <2>1. Len(offsets) <= 2 * columns /\ Len(offsets) \in Nat
        BY <1>0 DEF PuttingInv
    <2>2. ~(Len(offsets) + 1 <= 2 * columns)
        BY <1>0, <2>1 DEF NextPart, Parts
    <2> QED BY <1>0, <2>1, <2>2
<1>5. PartsLaid(Stream', offsets, group, position')
    <2>1. PICK limit \in Nat : limit = position'
        BY <1>1, <1>2
    <2>2. position <= limit
        BY <1>0, <1>1, <1>2, <2>1
    <2>3. PartsLaid(Stream, offsets, group, position)
        BY DEF PuttingInv
    <2>4. PartsLaid(Stream', offsets, group, limit)
        BY <1>0, <1>1, <2>2, <2>3, PartsLaidStay
    <2> QED BY <2>1, <2>4
<1>6. Align(position) + 2 <= position'
    BY <1>1, <1>2
<1> HIDE DEF header
<1>7. Laid(Stream', header, group, position', columns)
    BY <1>0, <1>1, <1>2, <1>3, <1>4, <1>5, <1>6 DEF Laid
<1> QED BY <1>7 DEF header

\* The accepted row groups and the headers.
LEMMA AcceptedStep ==
    ASSUME TypeOK, FileInv, CallInv, GroupsInv, FinishInv, Next
    PROVE  AcceptedInv'
<1>0. /\ headers \in Seq(Extent) /\ headers' \in Seq(Extent) /\ Len(headers) \in Nat
      /\ Start \in Nat /\ Start' \in Nat /\ AcceptedInv
      /\ failed \subseteq failed'
    <2>1. TypeOK' /\ failed \subseteq failed' /\ AcceptedInv
        BY TypeStep, FailedGrows DEF GroupsInv
    <2>2. headers \in Seq(Extent) /\ headers' \in Seq(Extent) /\ Len(headers) \in Nat
        BY <2>1 DEF TypeOK, Extent
    <2>3. Start \in Nat
        BY DEF TypeOK, FilesOK, Start
    <2>4. Start' \in Nat
        BY <2>1 DEF TypeOK, FilesOK, Start
    <2> QED BY <2>1, <2>2, <2>3, <2>4
<1> USE DEF formatVars, fileVars, ghostVars, faultVars, callVars, vars
<1>1. CASE accepted = <<>> /\ accepted' = <<>> /\ headers' = headers
    BY <1>0, <1>1 DEF AcceptedInv
<1>2. CASE AddColumn \/ WriteHeader \/ HeaderFails
    BY <1>1, <1>2 DEF AddColumn, WriteHeader, HeaderFails, CallInv
<1>3. ASSUME UNCHANGED <<accepted, headers, columns>> PROVE AcceptedInv'
    <2>1. CASE accepted = <<>>
        BY <1>1, <1>3, <2>1
    <2>2. CASE accepted # <<>>
        <3>1. Kept(Stream, Stream', Start) /\ Start <= Start'
            BY <2>2, FileStep DEF CallInv
        <3>2. PICK list \in Seq(Extent), limit \in Nat : list = headers /\ limit = Start'
            BY <1>0
        <3>3. /\ \A i \in DOMAIN accepted : \E j \in i..Len(list) :
                     Laid(Stream', list[j], accepted[i], limit, columns)
              /\ "columnHeaders" \notin failed => \A i \in DOMAIN accepted :
                     Laid(Stream', list[i], accepted[i], limit, columns)
            BY <1>0, <3>1, <3>2, AcceptedStay
        <3>4. "columnHeaders" \notin failed' => Len(list) = Len(accepted)
            BY <1>0, <3>2 DEF AcceptedInv
        <3> QED BY <1>0, <1>3, <3>2, <3>3, <3>4 DEF AcceptedInv
    <2> QED BY <2>1, <2>2
<1>4. CASE PutHeaders \/ HeadersFail
    <2>1. PICK header : header = [offset |-> base, size |-> Align(position) - base]
        OBVIOUS
    <2>2. header \in Extent /\ headers' = Append(headers, header) /\ header_written
          /\ pc = "put:part" /\ NextPart \notin Parts /\ UNCHANGED columns
          /\ group \in Groups
        BY <1>4, <2>1, HeadersAreABlock
           DEF PutHeaders, HeadersFail, CountGroup, CallInv
    <2>3. PICK n \in Nat, m \in Nat : n = Len(headers) /\ m = Len(accepted)
        BY <1>0 DEF TypeOK
    <2>4. /\ Len(headers') = n + 1 /\ headers'[n + 1] = header
          /\ \A j \in 1..n : headers'[j] = headers[j]
        BY <1>0, <2>2, <2>3
    <2>5. Kept(Stream, Stream', Start) /\ Start <= Start'
        BY <2>2, FileStep
    <2>6. PICK list \in Seq(Extent), limit \in Nat : list = headers' /\ limit = Start'
        BY <1>0
    <2>7. /\ \A i \in DOMAIN accepted : \E j \in i..Len(list) :
                 Laid(Stream', list[j], accepted[i], limit, columns)
          /\ "columnHeaders" \notin failed => \A i \in DOMAIN accepted :
                 Laid(Stream', list[i], accepted[i], limit, columns)
        <3>1. Len(headers) <= Len(list) /\ \A j \in 1..Len(headers) : list[j] = headers[j]
            BY <2>3, <2>4, <2>6
        <3> QED BY <1>0, <2>5, <2>6, <3>1, AcceptedStay
    <2>8. CASE HeadersFail
        <3>1. "columnHeaders" \in failed' /\ UNCHANGED accepted
            BY <2>8 DEF HeadersFail, WriteFails, MayFail, ColumnHeaders, Grave
        <3> QED BY <2>2, <2>6, <2>7, <3>1 DEF AcceptedInv
    <2>9. CASE PutHeaders
        <3>1. Write(ColumnHeaders(offsets), 2) /\ accepted' = Append(accepted, group)
              /\ UNCHANGED failed /\ Start' = position'
            BY <2>9 DEF PutHeaders, Return, Start, InCall
        <3>2. Laid(Stream', header, group, limit, columns)
            BY <2>1, <2>2, <2>6, <3>1, HeaderLaid DEF GroupsInv
        <3>3. /\ Len(accepted') = m + 1 /\ accepted'[m + 1] = group
              /\ \A i \in 1..m : accepted'[i] = accepted[i]
              /\ DOMAIN accepted' = 1..(m + 1) /\ DOMAIN accepted = 1..m
            BY <2>2, <2>3, <3>1 DEF TypeOK
        <3>4. m <= n /\ ("columnHeaders" \notin failed => n = m)
            <4>1. m = 0 \/ m \in 1..m
                BY <2>3
            <4>2. CASE m \in 1..m
                <5>1. PICK j \in m..Len(headers) :
                         Laid(Stream, headers[j], accepted[m], Start, columns)
                    BY <1>0, <3>3, <4>2 DEF AcceptedInv
                <5> QED BY <1>0, <2>3, <5>1 DEF AcceptedInv
            <4> QED BY <1>0, <2>3, <4>1, <4>2 DEF AcceptedInv
        <3>5. ASSUME NEW i \in 1..(m + 1)
              PROVE  \E j \in i..(n + 1) :
                         Laid(Stream', list[j], accepted'[i], limit, columns)
            <4>1. CASE i = m + 1
                <5>1. n + 1 \in i..(n + 1) /\ list[n + 1] = header
                    BY <2>4, <2>6, <3>4, <4>1
                <5> QED BY <3>2, <3>3, <4>1, <5>1
            <4>2. CASE i # m + 1
                <5>1. i \in 1..m /\ i \in DOMAIN accepted
                    BY <3>3, <4>2
                <5>2. Len(list) = n + 1
                    BY <2>4, <2>6
                <5> QED BY <2>7, <3>3, <5>1, <5>2
            <4> QED BY <4>1, <4>2
        <3>6. ASSUME NEW i \in 1..(m + 1), "columnHeaders" \notin failed
              PROVE  Laid(Stream', list[i], accepted'[i], limit, columns)
            <4>1. CASE i = m + 1
                BY <2>4, <2>6, <3>2, <3>3, <3>4, <3>6, <4>1
            <4>2. CASE i # m + 1
                <5>1. i \in 1..m /\ i \in DOMAIN accepted
                    BY <3>3, <4>2
                <5> QED BY <2>7, <3>3, <3>6, <5>1
            <4> QED BY <4>1, <4>2
        <3> QED BY <2>2, <2>4, <2>6, <3>1, <3>3, <3>4, <3>5, <3>6 DEF AcceptedInv
    <2> QED BY <1>4, <2>8, <2>9
<1>5. CASE WriteSection
    BY <1>3, <1>5 DEF WriteSection
<1>6. CASE SectionFails
    BY <1>3, <1>6 DEF SectionFails
<1>7. CASE \/ (\E m \in Metadata : SetMetadata(m))
           \/ (\E g \in Groups, n \in 0..MaxColumns : Put(g, n))
           \/ PutPart \/ PartFails \/ FailCall \/ (\E s \in BOOLEAN : Finish(s))
           \/ AddMetadata \/ MetadataFails \/ SetSize \/ SyncAndReturn
           \/ SystemCallFails \/ Free \/ Closed
    BY <1>3, <1>7 DEF SetMetadata, Put, PutPart, PartFails, FailCall, Finish,
           AddMetadata, MetadataFails, SetSize, SyncAndReturn, SystemCallFails, Free,
           Closed
<1> QED BY <1>2, <1>4, <1>5, <1>6, <1>7 DEF Next

\* A number twice is no less than 0.
LEMMA TwiceIsNat == ASSUME NEW n \in Nat PROVE 0 <= 2 * n
OBVIOUS

\* The parts of the row group being put.
LEMMA PuttingStep ==
    ASSUME TypeOK, FileInv, CallInv, GroupsInv, FinishInv, Next
    PROVE  PuttingInv'
<1> USE DEF formatVars, fileVars, ghostVars, faultVars, callVars, vars
<1>1. CASE pc' # "put:part"
    BY <1>1 DEF PuttingInv
<1>2. CASE pc' = "put:part" /\ offsets' = <<>>
    <2>1. columns' \in Nat
        <3>1. columns' \in 0..MaxColumns
            BY TypeStep DEF TypeOK
        <3> QED BY <3>1, RowGroupWriterAssumption
    <2>2. Len(<<>>) = 0 /\ DOMAIN <<>> = {}
        OBVIOUS
    <2>3. \A f, g, limit : PartsLaid(f, <<>>, g, limit)
        BY <2>2 DEF PartsLaid
    <2>4. Len(offsets') <= 2 * columns'
        <3>1. Len(offsets') = 0
            BY <1>2, <2>2, Zenon
        <3>2. 0 <= 2 * columns'
            BY ONLY <2>1, TwiceIsNat
        <3> QED BY <3>1, <3>2, Zenon
    <2>5. PartsLaid(Stream', offsets', group', position')
        BY <1>2, <2>3
    <2> QED BY <2>4, <2>5 DEF PuttingInv
<1>3. CASE PutPart
    <2>1. /\ pc = "put:part" /\ NextPart \in Parts /\ UNCHANGED <<group, columns>>
          /\ Write(Part(group, NextPart), PartSize(group, NextPart))
          /\ offsets' = Append(offsets, [offset |-> Align(position),
                                         size |-> PartSize(group, NextPart)])
        BY <1>3 DEF PutPart
    <2>2. PICK size \in Nat, n \in Nat, at \in Nat :
              size = PartSize(group, NextPart) /\ n = Len(offsets) /\ at = Align(position)
        <3>1. position \in Nat /\ Len(offsets) \in Nat
            BY DEF TypeOK, FilesOK
        <3>2. Align(position) \in Nat
            BY <3>1, AlignIs
        <3>3. PartSize(group, NextPart) \in Nat
            BY <2>1, PartIsABlock
        <3> QED BY <3>1, <3>2, <3>3
    <2>3. /\ position' = IF size = 0 THEN position ELSE at + size
          /\ Kept(Stream, Stream', position)
          /\ size # 0 => BlockAt(Stream', at) = Part(group, n + 1)
        BY <2>1, <2>2, PartIsABlock, WriteEffect DEF NextPart
    <2>4. position \in Nat /\ position <= at /\ at % 2 = 0
        <3>1. position \in Nat
            BY DEF TypeOK, FilesOK
        <3> QED BY <2>2, <3>1, AlignIs
    <2>5. PICK limit \in Nat : limit = position' /\ position <= limit
        BY <2>2, <2>3, <2>4
    <2>6. offsets \in Seq(Extent) /\ [offset |-> at, size |-> size] \in Extent
        BY <2>2 DEF TypeOK, Extent
    <2>7. PartsLaid(Stream', offsets, group, limit)
        <3>1. PartsLaid(Stream, offsets, group, position)
            BY <2>1 DEF GroupsInv, PuttingInv
        <3> QED BY <2>3, <2>4, <2>5, <2>6, <3>1, PartsLaidStay
    <2>8. PICK list \in Seq(Extent) : list = offsets'
        BY <2>1, <2>2, <2>6
    <2>9. /\ DOMAIN list = 1..(n + 1) /\ DOMAIN offsets = 1..n /\ Len(list) = n + 1
          /\ \A k \in 1..n : list[k] = offsets[k]
          /\ list[n + 1] = [offset |-> at, size |-> size]
        BY <2>1, <2>2, <2>6, <2>8
    <2>10. ASSUME NEW k \in 1..(n + 1)
           PROVE  /\ list[k].size = PartSize(group, k)
                  /\ list[k].size # 0 =>
                         /\ list[k].offset % 2 = 0
                         /\ list[k].offset + list[k].size <= limit
                         /\ BlockAt(Stream', list[k].offset) = Part(group, k)
        <3>1. CASE k = n + 1
            <4>1. list[k].size = size /\ list[k].offset = at
                BY <2>9, <3>1
            <4>2. size = PartSize(group, k)
                BY <2>2, <3>1 DEF NextPart
            <4> QED BY <2>3, <2>4, <2>5, <3>1, <4>1, <4>2
        <3>2. CASE k # n + 1
            <4>1. k \in DOMAIN offsets /\ list[k] = offsets[k]
                BY <2>9, <3>2
            <4> QED BY <2>7, <4>1 DEF PartsLaid
        <3> QED BY <3>1, <3>2
    <2>11. PartsLaid(Stream', list, group, limit)
        BY <2>9, <2>10 DEF PartsLaid
    <2>12. n + 1 <= 2 * columns
        BY <2>1, <2>2 DEF NextPart, Parts
    <2> QED BY <2>1, <2>5, <2>8, <2>9, <2>11, <2>12 DEF PuttingInv
<1>4. CASE WriteSection
    BY <1>1, <1>4, SectionCases DEF Section
<1>5. CASE SectionFails
    BY <1>1, <1>5, SectionFailsIs
<1>6. CASE AddColumn
    BY <1>1, <1>6 DEF AddColumn
<1>7. CASE \E m \in Metadata : SetMetadata(m)
    BY <1>1, <1>7 DEF SetMetadata
<1>8. CASE WriteHeader
    BY <1>1, <1>2, <1>8 DEF WriteHeader, CallInv
<1>9. ASSUME NEW g \in Groups, NEW n \in 0..MaxColumns, Put(g, n) PROVE PuttingInv'
    BY <1>1, <1>2, <1>9 DEF Put, CallInv, InCall
<1>10. CASE HeaderFails \/ PartFails \/ PutHeaders \/ HeadersFail \/ FailCall
            \/ AddMetadata \/ MetadataFails \/ SetSize \/ SyncAndReturn
            \/ SystemCallFails \/ Free
    BY <1>1, <1>10 DEF HeaderFails, PartFails, PutHeaders, HeadersFail, FailCall,
            AddMetadata, MetadataFails, SetSize, SyncAndReturn, SystemCallFails, Free,
            Goto, Return
<1>11. CASE \E s \in BOOLEAN : Finish(s)
    BY <1>1, <1>11 DEF Finish, Goto
<1>12. CASE Closed
    <2>1. UNCHANGED <<pc, offsets, group, position, columns, os, buffer>>
        BY <1>12 DEF Closed
    <2> QED BY <2>1 DEF GroupsInv, PuttingInv, Stream
<1> QED BY <1>3, <1>4, <1>5, <1>6, <1>7, <1>8, <1>9, <1>10, <1>11, <1>12 DEF Next

\* The rows counted are those of the accepted row groups.
LEMMA RowsStep ==
    ASSUME TypeOK, CallInv, GroupsInv, Next
    PROVE  row_count' = RowsOf(accepted')
<1> USE DEF formatVars, fileVars, ghostVars, faultVars, callVars, vars
<1>1. CASE UNCHANGED <<row_count, accepted>>
    BY <1>1 DEF GroupsInv
<1>2. CASE PutHeaders
    <2>1. /\ row_count' = row_count + RowsIn[group]
          /\ accepted' = Append(accepted, group)
          /\ group \in Groups /\ accepted \in Seq(Groups)
        BY <1>2 DEF PutHeaders, CallInv, TypeOK
    <2> QED BY <2>1, RowsOfAppend DEF GroupsInv
<1>3. CASE WriteSection \/ SectionFails
    BY <1>1, <1>3 DEF WriteSection, SectionFails
<1>4. CASE \/ AddColumn \/ (\E m \in Metadata : SetMetadata(m))
           \/ WriteHeader \/ HeaderFails \/ HeadersFail
           \/ (\E g \in Groups, n \in 0..MaxColumns : Put(g, n))
           \/ PutPart \/ PartFails \/ FailCall \/ (\E s \in BOOLEAN : Finish(s))
           \/ AddMetadata \/ MetadataFails \/ SetSize \/ SyncAndReturn
           \/ SystemCallFails \/ Free \/ Closed
    BY <1>1, <1>4 DEF AddColumn, SetMetadata, WriteHeader, HeaderFails, HeadersFail,
           Put, PutPart, PartFails, FailCall, Finish, AddMetadata, MetadataFails,
           SetSize, SyncAndReturn, SystemCallFails, Free, Closed
<1> QED BY <1>2, <1>3, <1>4 DEF Next

\* GroupsInv is kept by every step.
LEMMA GroupsStep ==
    ASSUME TypeOK, FileInv, CallInv, GroupsInv, FinishInv, Next
    PROVE  GroupsInv'
BY AcceptedStep, PuttingStep, RowsStep DEF GroupsInv

------------------------------------------------------------------------------
(* The names of columns *)

\* A list that has become longer has what it had.
LEMMA AppendKeeps ==
    ASSUME NEW S, NEW list \in Seq(S), NEW x \in S
    PROVE  /\ Len(Append(list, x)) = Len(list) + 1 /\ Len(list) \in Nat
           /\ \A k \in 1..Len(list) : Append(list, x)[k] = list[k]
           /\ Append(list, x)[Len(list) + 1] = x
OBVIOUS

\* NamesInv is kept by every step.
LEMMA NamesStep ==
    ASSUME TypeOK, NamesInv, Next
    PROVE  NamesInv'
<1> USE DEF formatVars, fileVars, ghostVars, faultVars, callVars, vars
<1>0. /\ strings \in Seq(Metadata \cup Nat) /\ names \in Seq(Nat) /\ columns \in Nat
      /\ Len(names) = columns /\ named \subseteq 1..columns /\ Len(strings) \in Nat
    BY SectionsAreBlocks DEF TypeOK, StringsSize
<1>1. CASE UNCHANGED <<strings, names, named>>
    BY <1>1 DEF NamesInv
<1>2. ASSUME NEW c \in named
      PROVE  /\ c \in 1..Len(names) /\ names[c] \in Nat
             /\ names[c] < Len(strings) /\ strings[names[c] + 1] = c
             /\ names[c] + 1 \in 1..Len(strings)
    BY <1>0 DEF NamesInv
<1>3. ASSUME NEW x \in Metadata \cup Nat, strings' = Append(strings, x),
             UNCHANGED <<names, named>>
      PROVE  NamesInv'
    <2>1. /\ Len(Append(strings, x)) = Len(strings) + 1
          /\ \A k \in 1..Len(strings) : Append(strings, x)[k] = strings[k]
        BY <1>0, AppendKeeps
    <2>2. ASSUME NEW c \in named
          PROVE  names[c] < Len(Append(strings, x)) /\ Append(strings, x)[names[c] + 1] = c
        BY <1>0, <1>2, <2>1
    <2> QED BY <1>3, <2>2 DEF NamesInv
<1>4. CASE AddColumn
    <2>1. CASE /\ strings' = Append(strings, columns + 1)
               /\ names' = Append(names, Len(strings))
               /\ named' = named \cup {columns + 1}
        <3>1. /\ Len(Append(strings, columns + 1)) = Len(strings) + 1
              /\ \A k \in 1..Len(strings) : Append(strings, columns + 1)[k] = strings[k]
              /\ Append(strings, columns + 1)[Len(strings) + 1] = columns + 1
            <4>1. columns + 1 \in Metadata \cup Nat
                BY <1>0
            <4> QED BY <1>0, <4>1, AppendKeeps
        <3>2. /\ \A k \in 1..columns : Append(names, Len(strings))[k] = names[k]
              /\ Append(names, Len(strings))[columns + 1] = Len(strings)
            BY <1>0, AppendKeeps
        <3>3. ASSUME NEW c \in named
              PROVE  /\ Append(names, Len(strings))[c] < Len(Append(strings, columns + 1))
                     /\ Append(strings, columns + 1)[Append(names, Len(strings))[c] + 1] = c
            BY <1>0, <1>2, <3>1, <3>2
        <3>4. /\ Append(names, Len(strings))[columns + 1]
                     < Len(Append(strings, columns + 1))
              /\ Append(strings, columns + 1)[Append(names, Len(strings))[columns + 1] + 1]
                     = columns + 1
            BY <1>0, <3>1, <3>2
        <3> QED BY <2>1, <3>3, <3>4 DEF NamesInv
    <2>2. CASE names' = Append(names, 0) /\ UNCHANGED <<strings, named>>
        <3>1. \A k \in 1..columns : Append(names, 0)[k] = names[k]
            BY <1>0, AppendKeeps
        <3>2. ASSUME NEW c \in named
              PROVE  /\ Append(names, 0)[c] < Len(strings)
                     /\ strings[Append(names, 0)[c] + 1] = c
            BY <1>0, <1>2, <3>1
        <3> QED BY <2>2, <3>2 DEF NamesInv
    <2> QED BY <1>4, <2>1, <2>2 DEF AddColumn
<1>5. CASE AddMetadata
    <2>1. CASE metadata = None
        BY <1>1, <1>5, <2>1 DEF AddMetadata
    <2>2. CASE metadata # None
        <3>1. metadata \in Metadata \cup Nat
            BY <2>2 DEF TypeOK
        <3> QED BY <1>3, <1>5, <2>2, <3>1 DEF AddMetadata
    <2> QED BY <2>1, <2>2
<1>6. CASE WriteSection \/ SectionFails
    BY <1>1, <1>6 DEF WriteSection, SectionFails
<1>7. CASE \/ (\E m \in Metadata : SetMetadata(m))
           \/ WriteHeader \/ HeaderFails \/ PutHeaders \/ HeadersFail
           \/ (\E g \in Groups, n \in 0..MaxColumns : Put(g, n))
           \/ PutPart \/ PartFails \/ FailCall \/ (\E s \in BOOLEAN : Finish(s))
           \/ MetadataFails \/ SetSize \/ SyncAndReturn \/ SystemCallFails \/ Free
           \/ Closed
    BY <1>1, <1>7 DEF SetMetadata, WriteHeader, HeaderFails, PutHeaders, HeadersFail,
           Put, PutPart, PartFails, FailCall, Finish, MetadataFails, SetSize,
           SyncAndReturn, SystemCallFails, Free, Closed
<1> QED BY <1>4, <1>5, <1>6, <1>7 DEF Next

------------------------------------------------------------------------------
(* The sections of finish *)

\* The sections below position stay when the blocks there do.
LEMMA HeadersLaidStay ==
    ASSUME NEW f, NEW h, NEW at \in Int, NEW limit \in Nat, at < limit,
           Kept(f, h, limit)
    PROVE  /\ HeadersLaid(f, at) => HeadersLaid(h, at)
           /\ DescriptorsLaid(f, at) => DescriptorsLaid(h, at)
<1>1. at >= 0 => at \in Nat
    OBVIOUS
<1> QED BY <1>1 DEF HeadersLaid, DescriptorsLaid, Kept

\* The pieces of a block that ends below limit stay.
LEMMA PiecesStay ==
    ASSUME NEW f, NEW h, NEW limit \in Nat, Kept(f, h, limit),
           NEW start \in Nat, NEW size \in Nat, start + size <= limit,
           NEW block, HasPieces(f, start, size, block)
    PROVE  HasPieces(h, start, size, block)
<1> SUFFICES ASSUME NEW i \in 1..((size + 1) \div 2)
             PROVE  BlockAt(h, start + 2 * (i - 1)) = IF i = 1 THEN block ELSE Rest
    BY DEF HasPieces
<1>1. BlockAt(f, start + 2 * (i - 1)) = IF i = 1 THEN block ELSE Rest
    BY DEF HasPieces
<1>2. start + 2 * (i - 1) \in Nat /\ start + 2 * (i - 1) < limit
    <2>1. PICK n : n = (size + 1) \div 2
        OBVIOUS
    <2>2. n \in Nat /\ 2 * n <= size + 1
        BY <2>1
    <2>3. i \in Nat /\ 1 <= i /\ i <= n
        BY <2>1, <2>2
    <2> QED BY <2>2, <2>3
<1> QED BY <1>1, <1>2 DEF Kept

\* So do the strings.
LEMMA StringsLaidStay ==
    ASSUME NEW f, NEW h, TypeOK, Kept(f, h, position), StringsLaid(f)
    PROVE  /\ StringsSize # 0 => /\ BlockAt(h, Align(base)) = StringsBlock
                                 /\ HasPieces(h, Align(base), StringsSize, StringsBlock)
           /\ StringsLaid(h)
<1>1. base \in Nat /\ position \in Nat /\ StringsSize \in Nat
    BY SectionsAreBlocks DEF TypeOK, FilesOK
<1>2. Align(base) \in Nat
    BY <1>1, AlignIs
<1>3. CASE StringsSize = 0
    BY <1>3 DEF StringsLaid
<1>4. CASE StringsSize # 0
    <2>1. /\ BlockAt(f, Align(base)) = StringsBlock
          /\ HasPieces(f, Align(base), StringsSize, StringsBlock)
          /\ Align(base) + StringsSize <= position /\ Align(base) < position
        BY <1>1, <1>2, <1>4 DEF StringsLaid
    <2>2. BlockAt(h, Align(base)) = StringsBlock
        BY <1>2, <2>1 DEF Kept
    <2>3. HasPieces(h, Align(base), StringsSize, StringsBlock)
        BY <1>1, <1>2, <2>1, PiecesStay
    <2> QED BY <2>1, <2>2, <2>3 DEF StringsLaid
<1> QED BY <1>3, <1>4

\* A footer and what it leads to.
LEMMA FooterLaidStays ==
    ASSUME NEW f, NEW h, TypeOK, Kept(f, h, position), FooterLaid(f)
    PROVE  FooterLaid(h)
<1>1. position \in Nat /\ DescriptorsSize(columns) \in {0, 2}
    BY SectionsAreBlocks DEF TypeOK, FilesOK
<1>2. /\ position >= 2 + DescriptorsSize(columns)
      /\ HeadersLaid(f, position - 4 - DescriptorsSize(columns))
      /\ DescriptorsLaid(f, position - 4)
      /\ BlockAt(f, position - 2) = FooterBlock
    BY DEF FooterLaid, FooterSize
<1>3. HeadersLaid(h, position - 4 - DescriptorsSize(columns))
    <2>1. PICK at \in Int : at = position - 4 - DescriptorsSize(columns)
        BY <1>1
    <2>2. at < position
        BY <1>1, <2>1
    <2> QED BY <1>1, <1>2, <2>1, <2>2, HeadersLaidStay
<1>4. BlockAt(h, position - 2) = FooterBlock
    <2>1. position - 2 \in Nat /\ position - 2 < position
        BY <1>1, <1>2
    <2> QED BY <1>2, <2>1 DEF Kept
<1>5. DescriptorsLaid(h, position - 4)
    <2>1. PICK at \in Int : at = position - 4 /\ at < position
        BY <1>1
    <2> QED BY <1>1, <1>2, <2>1, HeadersLaidStay
<1> QED BY <1>3, <1>4, <1>5, StringsLaidStay DEF FooterLaid

\* FinishInv is about the call in progress alone.
LEMMA FinishUnchanged ==
    ASSUME FinishInv, UNCHANGED <<pc, base, position, columns, metadata, strings, names,
                                  headers, row_count>>, Stream' = Stream
    PROVE  FinishInv'
BY DEF FinishInv, StringsLaid, HeadersLaid, DescriptorsLaid, FooterLaid, StringsSize,
       StringsBlock, GroupHeaders, Descriptors, FooterBlock, DescriptorsSize, Align,
       MetadataId, MetadataIsLast

\* The strings, first.
LEMMA StringsStep ==
    ASSUME TypeOK, FileInv, FinishInv,
           Section("finish:strings", StringsBlock, StringsSize, "finish:groups")
    PROVE  FinishInv'
<1>1. /\ position = base /\ base \in Nat /\ pc' = "finish:groups" /\ base' = base
      /\ StringsSize \in Nat /\ MetadataIsLast
    BY SectionsAreBlocks DEF FinishInv, Section, TypeOK
<1>2. /\ position' = IF StringsSize = 0 THEN position ELSE Align(position) + StringsSize
      /\ StringsSize # 0 =>
             /\ BlockAt(Stream', Align(position)) = StringsBlock
             /\ HasPieces(Stream', Align(position), StringsSize, StringsBlock)
    BY <1>1, WriteEffect, SectionsAreBlocks DEF Section
<1>3. Align(base) \in Nat /\ base <= Align(base)
    BY <1>1, AlignIs
<1>4. StringsSize' = StringsSize /\ StringsBlock' = StringsBlock /\ MetadataIsLast'
      /\ Align(base)' = Align(base)
    BY <1>1 DEF Section, formatVars, StringsSize, StringsBlock, MetadataIsLast, Align
<1>5. StringsLaid(Stream)'
    <2>1. CASE StringsSize = 0
        BY <1>4, <2>1 DEF StringsLaid
    <2>2. CASE StringsSize # 0
        BY <1>1, <1>2, <1>3, <1>4, <2>2 DEF StringsLaid
    <2> QED BY <2>1, <2>2
<1>6. base' + StringsSize' <= position'
    BY <1>1, <1>2, <1>3, <1>4
<1> QED BY <1>1, <1>4, <1>5, <1>6 DEF FinishInv

\* Then the strings are laid at every section.
LEMMA StringsKept ==
    ASSUME TypeOK, NEW end \in Nat, end >= position, position' = end,
           Kept(Stream, Stream', position),
           UNCHANGED <<base, columns, metadata, strings, names>>,
           StringsLaid(Stream), base + StringsSize <= position
    PROVE  StringsLaid(Stream)' /\ base' + StringsSize' <= position'
<1>1. /\ base \in Nat /\ position \in Nat /\ StringsSize \in Nat
    BY SectionsAreBlocks DEF TypeOK, FilesOK
<1>2. Align(base) \in Nat
    BY <1>1, AlignIs
<1>3. StringsSize' = StringsSize /\ StringsBlock' = StringsBlock
      /\ Align(base)' = Align(base)
    BY DEF StringsSize, StringsBlock, Align
<1>4. StringsSize # 0 =>
          /\ BlockAt(Stream', Align(base)) = StringsBlock
          /\ HasPieces(Stream', Align(base), StringsSize, StringsBlock)
          /\ Align(base) + StringsSize <= end
    <2>1. StringsSize # 0 =>
              /\ BlockAt(Stream', Align(base)) = StringsBlock
              /\ HasPieces(Stream', Align(base), StringsSize, StringsBlock)
        BY StringsLaidStay
    <2>2. StringsSize # 0 => Align(base) + StringsSize <= position
        BY DEF StringsLaid
    <2> QED BY <1>1, <1>2, <2>1, <2>2
<1>5. StringsLaid(Stream)'
    BY <1>3, <1>4 DEF StringsLaid
<1> QED BY <1>1, <1>3, <1>5

\* A section leaves the strings and goes to the aligned position.
LEMMA SectionEffect ==
    ASSUME TypeOK, FileInv, FinishInv, NEW label, NEW next, NEW block \in Block,
           NEW size \in {0, 2}, Section(label, block, size, next),
           label \in {"finish:groups", "finish:descriptors", "finish:footer"}
    PROVE  /\ position' = IF size = 0 THEN position ELSE Align(position) + size
           /\ size # 0 => BlockAt(Stream', Align(position)) = block
           /\ Kept(Stream, Stream', position)
           /\ StringsLaid(Stream)' /\ base' + StringsSize' <= position'
           /\ MetadataIsLast'
           /\ position \in Nat /\ Align(position) \in Nat /\ Align(position) % 2 = 0
           /\ position <= Align(position)
           /\ position % 2 = 0 => Align(position) = position
           /\ position' \in Nat
<1>1. position \in Nat /\ size \in Nat
    BY DEF TypeOK, FilesOK
<1>2. /\ position' = IF size = 0 THEN position ELSE Align(position) + size
      /\ size # 0 => BlockAt(Stream', Align(position)) = block
      /\ Kept(Stream, Stream', position)
    BY <1>1, WriteEffect DEF Section
<1>3. /\ Align(position) \in Nat /\ Align(position) % 2 = 0
      /\ position <= Align(position)
      /\ position % 2 = 0 => Align(position) = position
    BY <1>1, AlignIs
<1>4. StringsLaid(Stream) /\ base + StringsSize <= position
      /\ UNCHANGED <<base, columns, metadata, strings, names>> /\ MetadataIsLast
    BY DEF FinishInv, Section, formatVars
<1>5. PICK end \in Nat : end = position' /\ end >= position
    BY <1>1, <1>2, <1>3
<1>6. StringsLaid(Stream)' /\ base' + StringsSize' <= position'
    BY <1>2, <1>4, <1>5, StringsKept
<1>7. MetadataIsLast'
    BY <1>4 DEF MetadataIsLast
<1> QED BY <1>1, <1>2, <1>3, <1>5, <1>6, <1>7

\* The row group headers.
LEMMA GroupHeadersStep ==
    ASSUME TypeOK, FileInv, FinishInv,
           Section("finish:groups", GroupHeaders, GroupHeadersSize(Len(headers)),
                   "finish:descriptors")
    PROVE  FinishInv'
<1> DEFINE size == GroupHeadersSize(Len(headers))
<1>1. /\ position' = IF size = 0 THEN position ELSE Align(position) + size
      /\ size # 0 => BlockAt(Stream', Align(position)) = GroupHeaders
      /\ StringsLaid(Stream)' /\ base' + StringsSize' <= position' /\ MetadataIsLast'
      /\ Align(position) \in Nat /\ Align(position) % 2 = 0
    BY SectionsAreBlocks, SectionEffect
<1>2. headers' = headers /\ GroupHeaders' = GroupHeaders /\ pc' = "finish:descriptors"
    BY DEF Section, formatVars, GroupHeaders
<1>3. headers # <<>> => size = 2
    BY DEF TypeOK, GroupHeadersSize
<1> HIDE DEF size
<1>4. headers # <<>> => position' - 2 = Align(position)
    BY <1>1, <1>3
<1>5. HeadersLaid(Stream, position - 2)'
    BY <1>1, <1>2, <1>3, <1>4 DEF HeadersLaid
<1> QED BY <1>1, <1>2, <1>5 DEF FinishInv

\* The descriptors.
LEMMA DescriptorsStep ==
    ASSUME TypeOK, FileInv, FinishInv,
           Section("finish:descriptors", Descriptors, DescriptorsSize(columns),
                   "finish:footer")
    PROVE  FinishInv'
<1> DEFINE size == DescriptorsSize(columns)
<1>1. /\ position' = IF size = 0 THEN position ELSE Align(position) + size
      /\ size # 0 => BlockAt(Stream', Align(position)) = Descriptors
      /\ Align(position) % 2 = 0
      /\ Kept(Stream, Stream', position)
      /\ StringsLaid(Stream)' /\ base' + StringsSize' <= position' /\ MetadataIsLast'
      /\ Align(position) \in Nat /\ position \in Nat
      /\ position <= Align(position)
      /\ position % 2 = 0 => Align(position) = position
    BY SectionsAreBlocks, SectionEffect
<1>2. headers' = headers /\ GroupHeaders' = GroupHeaders /\ pc' = "finish:footer"
      /\ DescriptorsSize(columns') = size /\ Descriptors' = Descriptors
      /\ columns' = columns
    BY DEF Section, formatVars, GroupHeaders, Descriptors
<1>3. size \in {0, 2} /\ (columns # 0 => size = 2)
    BY SectionsAreBlocks DEF DescriptorsSize
<1> HIDE DEF size
<1>4. HeadersLaid(Stream, position - 2)
    BY DEF FinishInv, Section
<1>5. position' >= size
    BY <1>1, <1>3
<1>6. HeadersLaid(Stream', position - 2)
    <2>1. position - 2 \in Int /\ position - 2 < position
        BY <1>1
    <2> QED BY <1>1, <1>4, <2>1, HeadersLaidStay
<1>7. ASSUME headers # <<>> PROVE position' - 2 - size = position - 2
    <2>1. (position - 2) % 2 = 0 /\ position - 2 >= 0
        BY <1>4, <1>7 DEF HeadersLaid
    <2>2. position % 2 = 0
        BY <1>1, <2>1
    <2> QED BY <1>1, <1>3, <2>2
<1>8. HeadersLaid(Stream, position - 2 - DescriptorsSize(columns))'
    BY <1>2, <1>6, <1>7 DEF HeadersLaid
<1>9. DescriptorsLaid(Stream, position - 2)'
    <2>1. CASE columns = 0
        BY <1>2, <2>1 DEF DescriptorsLaid
    <2>2. CASE columns # 0
        <3>1. position' - 2 = Align(position)
            BY <1>1, <1>3, <2>2
        <3> QED BY <1>1, <1>2, <1>3, <2>2, <3>1 DEF DescriptorsLaid
    <2> QED BY <2>1, <2>2
<1> QED BY <1>1, <1>2, <1>5, <1>8, <1>9 DEF FinishInv

\* The footer.
LEMMA FooterStep ==
    ASSUME TypeOK, FileInv, FinishInv,
           Section("finish:footer", FooterBlock, FooterSize, "finish:truncate")
    PROVE  FinishInv'
<1> DEFINE size == DescriptorsSize(columns)
<1>0. FooterSize \in {0, 2} /\ FooterSize = 2
    BY DEF FooterSize
<1>1. /\ position' = Align(position) + 2
      /\ BlockAt(Stream', Align(position)) = FooterBlock
      /\ Kept(Stream, Stream', position)
      /\ StringsLaid(Stream)' /\ base' + StringsSize' <= position' /\ MetadataIsLast'
      /\ Align(position) \in Nat /\ position \in Nat /\ Align(position) % 2 = 0
      /\ position <= Align(position)
      /\ position % 2 = 0 => Align(position) = position
    BY <1>0, SectionsAreBlocks, SectionEffect
<1>2. headers' = headers /\ GroupHeaders' = GroupHeaders /\ pc' = "finish:truncate"
      /\ DescriptorsSize(columns') = size /\ FooterBlock' = FooterBlock
      /\ Descriptors' = Descriptors /\ columns' = columns
    BY DEF Section, formatVars, GroupHeaders, FooterBlock, StringsSize, MetadataId,
           Descriptors
<1>3. size \in {0, 2}
    BY SectionsAreBlocks
<1> HIDE DEF size
<1>4. /\ HeadersLaid(Stream, position - 2 - size) /\ position >= size
      /\ DescriptorsLaid(Stream, position - 2)
    BY DEF FinishInv, Section, size
<1>5. position' >= FooterSize + size /\ position' % 2 = 0
    BY <1>0, <1>1, <1>3, <1>4
<1>6. HeadersLaid(Stream', position - 2 - size)
    <2>1. PICK at \in Int : at = position - 2 - size /\ at < position
        BY <1>1, <1>3
    <2> QED BY <1>1, <1>4, <2>1, HeadersLaidStay
<1>7. ASSUME headers # <<>> PROVE position' - 4 - size = position - 2 - size
    <2>1. (position - 2 - size) % 2 = 0 /\ position - 2 - size >= 0
        BY <1>4, <1>7 DEF HeadersLaid
    <2>2. position % 2 = 0
        BY <1>1, <1>3, <2>1
    <2> QED BY <1>1, <1>3, <2>2
<1>8. HeadersLaid(Stream, position - 4 - DescriptorsSize(columns))'
    BY <1>2, <1>6, <1>7 DEF HeadersLaid
<1>9. BlockAt(Stream', position' - 2) = FooterBlock'
    <2>1. position' - 2 = Align(position)
        BY <1>1
    <2> QED BY <1>1, <1>2, <2>1
<1>11. DescriptorsLaid(Stream, position - 4)'
    <2>1. CASE columns = 0
        BY <1>2, <2>1 DEF DescriptorsLaid
    <2>2. CASE columns # 0
        <3>1. position - 2 >= 0 /\ (position - 2) % 2 = 0
            BY <1>4, <2>2 DEF DescriptorsLaid
        <3>2. position % 2 = 0
            BY <1>1, <3>1
        <3>3. position' - 4 = position - 2
            BY <1>1, <3>2
        <3>4. DescriptorsLaid(Stream', position - 2)
            <4>1. PICK at \in Int : at = position - 2 /\ at < position
                BY <1>1
            <4> QED BY <1>1, <1>4, <4>1, HeadersLaidStay
        <3> QED BY <1>2, <3>3, <3>4 DEF DescriptorsLaid
    <2> QED BY <2>1, <2>2
<1>10. FooterLaid(Stream)'
    BY <1>1, <1>2, <1>5, <1>8, <1>9, <1>11 DEF FooterLaid, FooterSize
<1> QED BY <1>1, <1>2, <1>10 DEF FinishInv

\* FinishInv is kept by every step.
LEMMA FinishStep ==
    ASSUME TypeOK, FileInv, CallInv, FinishInv, Next
    PROVE  FinishInv'
<1> USE DEF formatVars, fileVars, ghostVars, faultVars, callVars, vars
<1>1. CASE pc' \in {"idle", "closed", "error", "put:header", "put:part", "finish:header"}
    BY <1>1 DEF FinishInv
<1>2. CASE pc' = "finish:metadata" /\ position' = base'
    BY <1>2 DEF FinishInv
<1>3. CASE WriteSection
    BY <1>3, SectionCases, StringsStep, GroupHeadersStep, DescriptorsStep, FooterStep
<1>4. CASE SetSize
    <2>1. /\ pc' = "finish:sync" /\ FooterLaid(Stream) /\ position' = position
          /\ UNCHANGED <<base, columns, metadata, strings, names, headers, row_count>>
          /\ MetadataIsLast
        BY <1>4 DEF SetSize, Goto, FinishInv
    <2>2. Stream'.size = position /\ Kept(Stream, Stream', position)
        BY <1>4, <2>1, SetSizeEffect DEF FooterLaid
    <2>3. PICK f : f = Stream'
        OBVIOUS
    <2>4. FooterLaid(f)
        BY <2>1, <2>2, <2>3, FooterLaidStays
    <2>5. FooterLaid(Stream)'
        BY <2>1, <2>3, <2>4
           DEF FooterLaid, StringsLaid, HeadersLaid, DescriptorsLaid, StringsSize,
               StringsBlock, GroupHeaders, Descriptors, FooterBlock, DescriptorsSize,
               Align, MetadataId
    <2>6. MetadataIsLast'
        BY <2>1 DEF MetadataIsLast
    <2> QED BY <2>1, <2>2, <2>5, <2>6 DEF FinishInv
<1>5. CASE Quiet
    <2>1. UNCHANGED <<os, buffer, position>> /\ Stream' = Stream
        BY <1>5, QuietKeeps
    <2>2. CASE AddColumn \/ \E m \in Metadata : SetMetadata(m)
        BY <1>1, <2>2 DEF AddColumn, SetMetadata
    <2>3. ASSUME NEW g \in Groups, NEW n \in 0..MaxColumns, Put(g, n)
          PROVE  FinishInv'
        BY <1>1, <2>3 DEF Put, Goto
    <2>4. ASSUME NEW s \in BOOLEAN, Finish(s) PROVE FinishInv'
        <3>1. pc' \in {"finish:metadata", "finish:header"} /\ base' = position
            BY <2>4 DEF Finish, Goto
        <3> QED BY <1>1, <1>2, <2>1, <3>1
    <2>5. CASE MetadataFails \/ SyncAndReturn \/ SystemCallFails
        BY <1>1, <2>5 DEF MetadataFails, SyncAndReturn, SystemCallFails, Goto, Return
    <2>6. CASE Closed
        BY <2>1, <2>6, FinishUnchanged DEF Closed
    <2>7. CASE AddMetadata
        <3>1. /\ pc = "finish:metadata" /\ pc' = "finish:strings"
              /\ position = base /\ UNCHANGED <<base, metadata>>
              /\ strings' = IF metadata = None THEN strings ELSE Append(strings, metadata)
            BY <2>7 DEF AddMetadata, Goto, FinishInv
        <3>2. MetadataIsLast'
            <4>1. CASE metadata = None
                BY <3>1, <4>1 DEF MetadataIsLast
            <4>2. CASE metadata # None
                <5>1. strings \in Seq(Metadata \cup Nat) /\ metadata \in Metadata \cup Nat
                    BY <4>2 DEF TypeOK
                <5>2. PICK list : list = Append(strings, metadata)
                    OBVIOUS
                <5>3. list # <<>> /\ list[Len(list)] = metadata
                    BY <5>1, <5>2, AppendKeeps
                <5> QED BY <3>1, <4>2, <5>2, <5>3 DEF MetadataIsLast
            <4> QED BY <4>1, <4>2
        <3> QED BY <2>1, <3>1, <3>2 DEF FinishInv
    <2> QED BY <1>5, <2>2, <2>3, <2>4, <2>5, <2>6, <2>7 DEF Quiet
<1>6. CASE WriteHeader
    <2>1. pc' \in {"put:part", "finish:metadata"} /\ base' = position'
        BY <1>6 DEF WriteHeader, Goto
    <2> QED BY <1>1, <1>2, <2>1
<1>7. CASE SectionFails
    BY <1>1, <1>7, SectionFailsIs
<1>8. CASE HeaderFails \/ PutPart \/ PartFails \/ PutHeaders \/ HeadersFail \/ FailCall
           \/ Free
    BY <1>1, <1>8 DEF HeaderFails, PutPart, PartFails, PutHeaders, HeadersFail,
           FailCall, Free, Goto, Return
<1> QED BY <1>3, <1>4, <1>5, <1>6, <1>7, <1>8, NextCases

------------------------------------------------------------------------------
(* What a reader makes of a finished file *)

\* The strings of such a file, found from an even offset, are those of the writer.
LEMMA StringsRead ==
    ASSUME NEW f, TypeOK, StringsLaid(f), base % 2 = 0
    PROVE  ReadStrings(f, base, StringsSize) = strings
<1>1. strings \in Seq(Metadata \cup Nat) /\ base \in Nat /\ StringsSize \in Nat
    BY SectionsAreBlocks DEF TypeOK
<1>2. Align(base) = base
    BY <1>1, AlignIs
<1>3. StringsBlock.kind = "strings" /\ StringsBlock.list = strings
    BY DEF StringsBlock
<1>4. CASE StringsSize = 0
    <2>1. strings = <<>>
        BY <1>1, <1>4 DEF StringsSize
    <2> QED BY <1>4, <2>1 DEF ReadStrings
<1>5. CASE StringsSize # 0
    <2>1. /\ BlockAt(f, base) = StringsBlock
          /\ HasPieces(f, base, StringsSize, StringsBlock)
        BY <1>2, <1>5 DEF StringsLaid
    <2> QED BY <1>1, <1>3, <1>5, <2>1 DEF ReadStrings
<1> QED BY <1>4, <1>5

\* A file that ends in a footer is read as what the footer leads to.
LEMMA ReadIs ==
    ASSUME NEW f, f.size = position, TypeOK, FooterLaid(f)
    PROVE  LET groups == [i \in DOMAIN headers |-> ReadGroup(f, headers[i])] IN
           /\ Read(f) # Rejected
           /\ Read(f).columns = columns /\ Read(f).rows = row_count
           /\ Read(f).groups = groups
           /\ base % 2 = 0 =>
                  /\ \A c \in 1..columns :
                         /\ c \in DOMAIN Read(f).names
                         /\ Read(f).names[c] = StringIn(strings, names[c])
                  /\ Read(f).metadata = ReadMetadata(strings, MetadataId)
<1> DEFINE groups == [i \in DOMAIN headers |-> ReadGroup(f, headers[i])]
           at == position - 2 - DescriptorsSize(columns)
                     - GroupHeadersSize(Len(headers))
           list == ReadStrings(f, base, StringsSize)
           called == IF columns = 0 THEN <<>>
                     ELSE ReadNames(BlockAt(f, position - 2 - DescriptorsSize(columns)),
                                    list)
           whole == [columns |-> columns, rows |-> row_count, names |-> called,
                     metadata |-> ReadMetadata(list, MetadataId), groups |-> groups]
<1>1. /\ position \in Nat /\ base \in Nat /\ DescriptorsSize(columns) \in {0, 2}
      /\ StringsSize \in Nat /\ Len(headers) \in Nat /\ FooterSize = 2
      /\ GroupHeadersSize(Len(headers)) = IF Len(headers) = 0 THEN 0 ELSE 2
      /\ Len(headers) = 0 <=> headers = <<>>
      /\ columns \in Nat /\ (columns # 0 => DescriptorsSize(columns) = 2)
    BY SectionsAreBlocks DEF TypeOK, FilesOK, FooterSize, GroupHeadersSize,
                             DescriptorsSize
<1>2. /\ position >= 2 + DescriptorsSize(columns)
      /\ headers # <<>> =>
             /\ position - 4 - DescriptorsSize(columns) >= 0
             /\ BlockAt(f, position - 4 - DescriptorsSize(columns)) = GroupHeaders
      /\ columns # 0 => BlockAt(f, position - 4) = Descriptors
      /\ BlockAt(f, position - 2) = FooterBlock
      /\ base + StringsSize <= position
      /\ StringsLaid(f)
    BY <1>1 DEF FooterLaid, HeadersLaid, DescriptorsLaid
<1>3. Read(f) = ReadLayout(f, FooterBlock)
    <2>1. ~(f.size < FooterSize) /\ f.size - FooterSize = position - 2
        BY <1>1, <1>2
    <2>2. FooterBlock.kind = "footer"
        BY DEF FooterBlock
    <2> QED BY <1>2, <2>1, <2>2 DEF Read
<1>4. ~(at < 0 \/ base + StringsSize > position)
    BY <1>1, <1>2
<1>5. /\ FooterBlock.strings_offset = base /\ FooterBlock.strings_size = StringsSize
      /\ FooterBlock.metadata = MetadataId
      /\ FooterBlock.row_group_count = Len(headers)
      /\ FooterBlock.column_count = columns /\ FooterBlock.row_count = row_count
    BY DEF FooterBlock
<1>6. ReadLayout(f, FooterBlock) =
          [columns |-> columns, rows |-> row_count, names |-> called,
           metadata |-> ReadMetadata(list, MetadataId),
           groups |-> IF Len(headers) = 0 THEN <<>>
                      ELSE IF BlockAt(f, at).kind # "groupHeaders" THEN <<NoGroup>>
                      ELSE [i \in DOMAIN BlockAt(f, at).list |->
                               ReadGroup(f, BlockAt(f, at).list[i])]]
    <2>1. /\ f.size - FooterSize - DescriptorsSize(columns)
                 - GroupHeadersSize(Len(headers)) = at
          /\ f.size - FooterSize - DescriptorsSize(columns)
                 = position - 2 - DescriptorsSize(columns)
        BY <1>1
    <2> QED BY <1>4, <1>5, <2>1 DEF ReadLayout
<1>7. (IF Len(headers) = 0 THEN <<>>
       ELSE IF BlockAt(f, at).kind # "groupHeaders" THEN <<NoGroup>>
       ELSE [i \in DOMAIN BlockAt(f, at).list |->
                ReadGroup(f, BlockAt(f, at).list[i])]) = groups
    <2>1. CASE Len(headers) = 0
        BY <1>1, <2>1
    <2>2. CASE Len(headers) # 0
        <3>1. at = position - 4 - DescriptorsSize(columns)
            BY <1>1, <2>2
        <3>2. BlockAt(f, at) = GroupHeaders
            BY <1>1, <1>2, <2>2, <3>1
        <3>3. GroupHeaders.kind = "groupHeaders" /\ GroupHeaders.list = headers
            BY DEF GroupHeaders
        <3> HIDE DEF at
        <3> QED BY <2>2, <3>2, <3>3
    <2> QED BY <2>1, <2>2
<1>8. Read(f) = whole
    <2> HIDE DEF at, groups, list, called
    <2> QED BY <1>3, <1>6, <1>7
<1>9. whole # Rejected
    <2>1. "columns" \in DOMAIN whole /\ "columns" \notin DOMAIN Rejected
        BY DEF Rejected
    <2> QED BY <2>1
<1>10. base % 2 = 0 => list = strings
    BY <1>2, StringsRead
<1>11. ASSUME base % 2 = 0, NEW c \in 1..columns
       PROVE  c \in DOMAIN called /\ called[c] = StringIn(strings, names[c])
    <2>1. columns # 0 /\ position - 2 - DescriptorsSize(columns) = position - 4
        BY <1>1
    <2>2. Descriptors.kind = "descriptors" /\ Descriptors.names = names
        BY DEF Descriptors
    <2>3. DOMAIN names = 1..columns
        BY DEF TypeOK
    <2>4. BlockAt(f, position - 4) = Descriptors
        BY <1>2, <2>1
    <2>5. called = ReadNames(Descriptors, list)
        BY <2>1, <2>4
    <2>6. list = strings
        BY <1>10, <1>11
    <2> HIDE DEF list, called
    <2>7. called = [i \in DOMAIN names |-> StringIn(strings, names[i])]
        BY <2>2, <2>5, <2>6 DEF ReadNames
    <2> QED BY <2>3, <2>7
<1> HIDE DEF groups, list, called
<1> QED BY <1>8, <1>9, <1>10, <1>11 DEF groups

\* The headers lead to the accepted row groups.
LEMMA HeadersRead ==
    ASSUME TypeOK, FileInv, CallInv, AcceptedInv, "columnHeaders" \notin failed
    PROVE  [i \in DOMAIN headers |-> ReadGroup(Stream, headers[i])] = Appended
<1>1. /\ headers \in Seq(Extent) /\ accepted \in Seq(Groups)
      /\ Len(headers) = Len(accepted) /\ columns \in Nat
    BY SectionsAreBlocks DEF TypeOK, Extent, AcceptedInv
<1>2. Start \in Nat /\ Stream.size \in Nat /\ Start <= Stream.size
    BY StreamIsAFile DEF TypeOK, FileInv, CallInv, Start
<1>3. ASSUME NEW i \in DOMAIN accepted
      PROVE  ReadGroup(Stream, headers[i]) = Whole(accepted[i])
    <2>1. /\ Laid(Stream, headers[i], accepted[i], Start, columns)
          /\ headers[i] \in Extent /\ accepted[i] \in Groups
        BY <1>1 DEF AcceptedInv
    <2> QED BY <1>1, <1>2, <2>1, ReadsLaid
<1>4. DOMAIN headers = DOMAIN accepted
    BY <1>1
<1> QED BY <1>3, <1>4 DEF Appended

\* The metadata that the footer leads to is that of the last call.
LEMMA MetadataRead ==
    ASSUME TypeOK, MetadataIsLast
    PROVE  ReadMetadata(strings, MetadataId) = metadata
<1>1. CASE metadata = None
    BY <1>1 DEF MetadataId, ReadMetadata
<1>2. CASE metadata # None
    <2>1. PICK n \in Nat : n = Len(strings)
        BY DEF TypeOK
    <2>2. n # 0 /\ strings[n] = metadata
        <3>1. strings \in Seq(Metadata \cup Nat)
            BY DEF TypeOK
        <3> QED BY <1>2, <2>1, <3>1 DEF MetadataIsLast
    <2>3. MetadataId = n - 1 /\ ~(n - 1 < 0) /\ ~(n - 1 >= n) /\ n - 1 < n
          /\ (n - 1) + 1 = n
        BY <1>2, <2>1, <2>2 DEF MetadataId
    <2> QED BY <2>1, <2>2, <2>3 DEF ReadMetadata, StringIn
<1> QED BY <1>1, <1>2

\* When finish returns true the file is what was put.
LEMMA Promised ==
    ASSUME TypeOK, FileInv, CallInv, GroupsInv, NamesInv, FinishInv, pc = "finish:sync"
    PROVE  /\ "columnHeaders" \notin failed => Read(Stream).groups = Appended
           /\ ~ContentAtRisk => Shows(Stream, Content)
<1>1. FooterLaid(Stream) /\ Stream.size = position /\ MetadataIsLast
    BY DEF FinishInv
<1>2. PICK f : f = Stream
    OBVIOUS
<1>3. PICK groups : groups = [i \in DOMAIN headers |-> ReadGroup(f, headers[i])]
    OBVIOUS
<1>4. /\ Read(f) # Rejected
      /\ Read(f).columns = columns /\ Read(f).rows = row_count
      /\ Read(f).groups = groups
      /\ base % 2 = 0 =>
             /\ \A c \in 1..columns : /\ c \in DOMAIN Read(f).names
                                     /\ Read(f).names[c] = StringIn(strings, names[c])
             /\ Read(f).metadata = ReadMetadata(strings, MetadataId)
    BY <1>1, <1>2, <1>3, ReadIs
<1>5. "columnHeaders" \notin failed => groups = Appended
    BY <1>2, <1>3, HeadersRead DEF GroupsInv
<1>6. "seek" \notin failed => base % 2 = 0
    BY DEF CallInv, Start, InCall
<1>7. row_count = RowsOf(accepted)
    BY DEF GroupsInv
<1>8. ~ContentAtRisk => "columnHeaders" \notin failed /\ "seek" \notin failed
    BY DEF ContentAtRisk
<1>9. ASSUME ~ContentAtRisk PROVE Shows(f, Content)
    <2>1. base % 2 = 0 /\ groups = Appended
        BY <1>5, <1>6, <1>8, <1>9
    <2>2. Read(f).metadata = metadata
        BY <1>1, <1>4, <2>1, MetadataRead
    <2>3. ASSUME NEW c \in named
          PROVE  c \in DOMAIN Read(f).names /\ Read(f).names[c] = c
        <3>1. c \in 1..columns
            BY DEF TypeOK
        <3>2. StringIn(strings, names[c]) = c
            BY DEF NamesInv, StringIn
        <3> QED BY <1>4, <2>1, <3>1, <3>2
    <2>4. PICK read : read = Read(f)
        OBVIOUS
    <2>5. /\ Content.columns = columns /\ Content.rows = RowsOf(accepted)
          /\ Content.named = named /\ Content.metadata = metadata
          /\ Content.groups = Appended
        BY DEF Content, Appended
    <2> QED BY <1>4, <1>7, <2>1, <2>2, <2>3, <2>5 DEF Shows
<1> QED BY <1>2, <1>4, <1>5, <1>9

\* The content of the file is fixed when finish has returned true.
LEMMA Sealed ==
    ASSUME TypeOK, FileInv, CallInv, Next, footer_written
    PROVE  /\ Stream' = Stream /\ UNCHANGED <<promised, footer_written>>
           /\ Appended' = Appended
           /\ Quiet \/ Free
<1> USE DEF formatVars, fileVars, ghostVars, faultVars, callVars, vars
<1>1. pc \in {"idle", "closed"}
    BY DEF CallInv, InCall
<1>2. ~WriteSection /\ ~SectionFails
    BY <1>1, SectionCases, SectionFailsIs DEF Section
<1>3. \/ AddColumn \/ (\E m \in Metadata : SetMetadata(m))
      \/ (\E g \in Groups, n \in 0..MaxColumns : Put(g, n)) \/ Free \/ Closed
    BY <1>1, <1>2 DEF Next, WriteHeader, HeaderFails, PutPart, PartFails, PutHeaders,
       HeadersFail, FailCall, Finish, AddMetadata, MetadataFails, SetSize,
       SyncAndReturn, SystemCallFails
<1>4. UNCHANGED <<promised, footer_written, accepted>>
    BY <1>3 DEF AddColumn, SetMetadata, Put, Free, Closed
<1>5. Stream' = Stream
    BY <1>3, FreeEffect, QuietKeeps DEF Quiet
<1>6. Appended' = Appended
    <2>1. CASE AddColumn
        <3>1. accepted = <<>>
            BY <2>1 DEF AddColumn, CallInv
        <3> QED BY <1>4, <3>1 DEF Appended
    <2>2. CASE UNCHANGED columns
        BY <1>4, <2>2 DEF Appended, Whole, Parts
    <2> QED BY <1>3, <2>1, <2>2 DEF SetMetadata, Put, Free, Closed
<1> QED BY <1>3, <1>4, <1>5, <1>6 DEF Quiet

\* PromiseInv is kept by every step.
LEMMA PromiseStep ==
    ASSUME TypeOK, FileInv, CallInv, GroupsInv, NamesInv, FinishInv, PromiseInv, Next
    PROVE  PromiseInv'
<1> USE DEF formatVars, fileVars, ghostVars, faultVars, callVars, vars
<1>1. CASE footer_written
    <2>1. /\ Stream' = Stream /\ UNCHANGED <<promised, footer_written>>
          /\ Appended' = Appended
          /\ failed \subseteq failed'
        BY <1>1, Sealed, FailedGrows
    <2> QED BY <1>1, <2>1 DEF PromiseInv, ContentAtRisk
<1>2. CASE SyncAndReturn
    <2>1. Stream' = Stream
        BY <1>2, QuietKeeps DEF Quiet
    <2>2. /\ promised'.content = Content /\ pc = "finish:sync"
          /\ UNCHANGED <<accepted, columns, failed>>
        BY <1>2 DEF SyncAndReturn
    <2>3. Appended' = Appended
        BY <2>2 DEF Appended, Whole, Parts, PartSize, Part
    <2> QED BY <2>1, <2>2, <2>3, Promised DEF PromiseInv, ContentAtRisk
<1>3. CASE ~footer_written /\ ~SyncAndReturn
    <2>1. ~footer_written'
        <3>1. CASE WriteSection \/ SectionFails
            BY <1>3, <3>1 DEF WriteSection, SectionFails
        <3> QED BY <1>3, <3>1 DEF Next, AddColumn, SetMetadata, WriteHeader,
               HeaderFails, HeadersFail, Put, PutPart, PartFails, PutHeaders, FailCall,
               Finish, AddMetadata, MetadataFails, SetSize, SystemCallFails, Free,
               Closed
    <2> QED BY <2>1 DEF PromiseInv
<1> QED BY <1>1, <1>2, <1>3

------------------------------------------------------------------------------
(* The footer and what stdio holds *)

\* Handing over writes none of which is a footer brings no footer.
LEMMA NoFooterHanded ==
    ASSUME os \in File(Block), NEW all \in Seq(Writes(Block)), NEW n \in 0..Len(all),
           Handed(os, os', all, buffer', n), NoFooter(os, all)
    PROVE  NoFooter(os', buffer')
<1>1. PICK g, rest : g = os' /\ rest = buffer'
    OBVIOUS
<1>2. Handed(os, g, all, rest, n)
    BY <1>1
<1>3. /\ Len(rest) = Len(all) - n
      /\ \A k \in 1..Len(rest) : rest[k] = all[n + k]
      /\ \A o \in Nat : \/ BlockAt(g, o) = BlockAt(os, o)
                        \/ \E k \in 1..n : /\ BlockAt(g, o) = all[k].block
                                           /\ o = all[k].offset
    <2>1. PICK f : f = os /\ f \in File(Block)
        OBVIOUS
    <2>2. Handed(f, g, all, rest, n)
        BY <1>2, <2>1
    <2>3. PICK writes : writes = all /\ writes \in Seq(Writes(Block)) /\ n \in 0..Len(writes)
        OBVIOUS
    <2>4. /\ Len(rest) = Len(writes) - n
          /\ \A k \in 1..Len(rest) : rest[k] = writes[n + k]
          /\ \A o \in Nat : \/ BlockAt(g, o) = BlockAt(f, o)
                            \/ \E k \in 1..n : /\ BlockAt(g, o) = writes[k].block
                                               /\ o = writes[k].offset
        BY ONLY <2>1, <2>2, <2>3, HoleIsABlock, Handing
    <2> QED BY <2>1, <2>3, <2>4
<1>4. ASSUME NEW k \in 1..Len(rest) PROVE rest[k].block.kind # "footer"
    <2>1. n + k \in 1..Len(all)
        BY <1>3
    <2> QED BY <1>3, <2>1 DEF NoFooter
<1>5. ASSUME NEW o \in Nat PROVE BlockAt(g, o).kind # "footer"
    <2>1. \A k \in 1..n : k \in 1..Len(all)
        OBVIOUS
    <2> QED BY <1>3, <2>1 DEF NoFooter
<1> QED BY <1>1, <1>4, <1>5 DEF NoFooter

\* What is left of nothing is nothing.
LEMMA NothingLeft ==
    ASSUME NEW a \in Nat, NEW b \in Nat, NEW c \in Nat, c <= a, b = a - c
    PROVE  a = 0 => b = 0
OBVIOUS

\* Handing over writes of which the last is a footer leaves it the last.
LEMMA LastHanded ==
    ASSUME os \in File(Block), NEW all \in Seq(Writes(Block)), NEW n \in 0..Len(all),
           Handed(os, os', all, buffer', n), NEW end, LastIsFooter(os, all, end)
    PROVE  LastIsFooter(os', buffer', end)
<1>1. PICK g, rest : g = os' /\ rest = buffer'
    OBVIOUS
<1>2. Handed(os, g, all, rest, n)
    BY <1>1
<1>3. /\ Len(rest) = Len(all) - n
      /\ \A k \in 1..Len(rest) : rest[k] = all[n + k]
      /\ \A o \in Nat : \/ BlockAt(g, o) = BlockAt(os, o)
                        \/ \E k \in 1..n : /\ BlockAt(g, o) = all[k].block
                                           /\ o = all[k].offset
    <2>1. PICK f : f = os /\ f \in File(Block)
        OBVIOUS
    <2>2. Handed(f, g, all, rest, n)
        BY <1>2, <2>1
    <2>3. PICK writes : writes = all /\ writes \in Seq(Writes(Block)) /\ n \in 0..Len(writes)
        OBVIOUS
    <2>4. /\ Len(rest) = Len(writes) - n
          /\ \A k \in 1..Len(rest) : rest[k] = writes[n + k]
          /\ \A o \in Nat : \/ BlockAt(g, o) = BlockAt(f, o)
                            \/ \E k \in 1..n : /\ BlockAt(g, o) = writes[k].block
                                               /\ o = writes[k].offset
        BY ONLY <2>1, <2>2, <2>3, HoleIsABlock, Handing
    <2> QED BY <2>1, <2>3, <2>4
<1>6. /\ Len(all) \in Nat /\ Len(rest) \in Nat /\ n \in Nat /\ n <= Len(all)
      /\ Len(rest) = Len(all) - n
    <2>1. Len(all) \in Nat
        OBVIOUS
    <2> QED BY <1>3, <2>1
<1>7. Len(all) = 0 => Len(rest) = 0
    BY ONLY <1>6, NothingLeft
<1>4. ASSUME NEW k \in 1..Len(rest), rest[k].block.kind = "footer"
      PROVE  k = Len(rest) /\ rest[k].offset + 2 = end
    <2>1. n + k \in 1..Len(all)
        BY <1>3
    <2>2. rest[k] = all[n + k]
        BY <1>3
    <2>3. n + k = Len(all) /\ all[n + k].offset + 2 = end
        BY <1>4, <2>1, <2>2 DEF LastIsFooter
    <2>4. k = Len(rest)
        BY <1>6, <2>3
    <2> QED BY <2>2, <2>3, <2>4
<1>5. ASSUME NEW o \in Nat, BlockAt(g, o).kind = "footer"
      PROVE  Len(rest) = 0 /\ o + 2 = end
    <2>1. CASE BlockAt(g, o) = BlockAt(os, o)
        <3>1. Len(all) = 0 /\ o + 2 = end
            BY <1>5, <2>1 DEF LastIsFooter
        <3>2. Len(rest) = 0
            BY <1>7, <3>1
        <3> QED BY <3>1, <3>2
    <2>2. ASSUME NEW k \in 1..n, BlockAt(g, o) = all[k].block, o = all[k].offset
          PROVE  Len(rest) = 0 /\ o + 2 = end
        <3>1. k \in 1..Len(all)
            OBVIOUS
        <3>2. k = Len(all) /\ all[k].offset + 2 = end
            BY <1>5, <2>2, <3>1 DEF LastIsFooter
        <3>3. Len(rest) = 0
            BY <1>6, <3>2
        <3> QED BY <2>2, <3>2, <3>3
    <2> QED BY <1>3, <2>1, <2>2
<1> QED BY <1>1, <1>4, <1>5 DEF LastIsFooter

\* Everything handed over.
LEMMA AllHanded ==
    ASSUME FileInv, os' = ApplyAll(os, buffer), buffer' = <<>>
    PROVE  Handed(os, os', buffer, buffer', Len(buffer))
<1>1. buffer \in Seq(Writes(Block))
    BY DEF FileInv
<1>2. SubSeq(buffer, 1, Len(buffer)) = buffer
    BY <1>1
<1>3. SubSeq(buffer, Len(buffer) + 1, Len(buffer)) = <<>>
    BY <1>1
<1> QED BY <1>2, <1>3 DEF Handed

\* The pieces of one more block in the buffer; a footer is a single one.
LEMMA FooterAppended ==
    ASSUME FileInv, NoFooter(os, buffer), NEW block \in Block, NEW size \in Nat \ {0},
           NEW all, all = buffer \o Pieces(Align(position), size, block)
    PROVE  /\ all \in Seq(Writes(Block))
           /\ block.kind # "footer" => NoFooter(os, all)
           /\ size = 2 => LastIsFooter(os, all, Align(position) + 2)
<1>1. PICK at \in Nat : at = Align(position) /\ at % 2 = 0
    BY AlignIs DEF FileInv
<1>9. PICK n \in Nat \ {0}, p \in Seq(Writes(Block)) :
          p = Pieces(at, size, block) /\ ArePieces(p, n, at, size, block)
    BY <1>1, HoleIsABlock, PiecesAre
<1>2. /\ p = Pieces(at, size, block) /\ Len(p) = n /\ n = (size + 1) \div 2
      /\ \A i \in 1..n : /\ p[i].offset = at + 2 * (i - 1)
                        /\ p[i].block = IF i = 1 THEN block ELSE Rest
    BY <1>9 DEF ArePieces
<1>3. PICK m \in Nat : m = Len(buffer) /\ buffer \in Seq(Writes(Block))
    BY DEF FileInv
<1>4. /\ all \in Seq(Writes(Block)) /\ Len(all) = m + n
      /\ \A i \in 1..m : all[i] = buffer[i]
      /\ \A i \in 1..n : all[m + i] = p[i]
    <2>1. all = buffer \o p
        BY <1>1, <1>2
    <2>2. PICK b \in Seq(Writes(Block)) : b = buffer
        BY <1>3
    <2>3. /\ b \o p \in Seq(Writes(Block)) /\ Len(b \o p) = Len(b) + Len(p)
          /\ \A i \in 1..Len(b) : (b \o p)[i] = b[i]
          /\ \A i \in 1..Len(p) : (b \o p)[Len(b) + i] = p[i]
        OBVIOUS
    <2> QED BY <1>2, <1>3, <2>1, <2>2, <2>3
<1>5. \A k \in 1..m : all[k].block.kind # "footer"
    BY <1>3, <1>4 DEF NoFooter
<1>6. \A o \in Nat : BlockAt(os, o).kind # "footer"
    BY DEF NoFooter
<1>7. ASSUME block.kind # "footer" PROVE NoFooter(os, all)
    <2>1. ASSUME NEW k \in 1..Len(all) PROVE all[k].block.kind # "footer"
        <3>1. CASE k <= m
            BY <1>4, <1>5, <3>1
        <3>2. CASE ~(k <= m)
            <4>1. k - m \in 1..n /\ k = m + (k - m)
                BY <1>4, <3>2
            <4>2. all[k].block \in {block, Rest}
                <5>1. PICK i \in 1..n : k = m + i
                    BY <4>1
                <5>2. all[k] = p[i] /\ p[i].block \in {block, Rest}
                    BY <1>2, <1>4, <5>1
                <5> QED BY <5>2
            <4> QED BY <1>7, <4>2 DEF Rest
        <3> QED BY <3>1, <3>2
    <2> QED BY <1>6, <2>1 DEF NoFooter
<1>8. ASSUME size = 2 PROVE LastIsFooter(os, all, at + 2)
    <2>1. n = 1
        BY <1>2, <1>8
    <2>2. all[m + 1].offset = at
        <3>1. 1 \in 1..n /\ at + 2 * (1 - 1) = at
            BY <2>1
        <3> QED BY <1>2, <1>4, <3>1
    <2>3. ASSUME NEW k \in 1..Len(all), all[k].block.kind = "footer"
          PROVE  k = Len(all) /\ all[k].offset + 2 = at + 2
        <3>1. ~(k \in 1..m)
            BY <1>5, <2>3
        <3>2. k = m + 1
            BY <1>4, <2>1, <3>1
        <3> QED BY <1>4, <2>1, <2>2, <3>2
    <2> QED BY <1>6, <2>3 DEF LastIsFooter
<1> QED BY <1>1, <1>4, <1>7, <1>8

\* A write of another block.
LEMMA NoFooterWritten ==
    ASSUME FileInv, NoFooter(os, buffer), NEW block \in Block, NEW size \in Nat,
           Write(block, size)
    PROVE  /\ block.kind # "footer" => NoFooter(os', buffer')
           /\ size = 2 => LastIsFooter(os', buffer', position')
<1>1. CASE size = 0
    BY <1>1 DEF Write
<1>2. CASE size # 0
    <2>1. PICK all : all = buffer \o Pieces(Align(position), size, block)
        OBVIOUS
    <2>2. PICK n \in 0..Len(all) : Handed(os, os', all, buffer', n)
        BY <1>2, <2>1 DEF Write
    <2>3. size \in Nat \ {0} /\ os \in File(Block)
        BY <1>2 DEF FileInv
    <2>4. /\ all \in Seq(Writes(Block))
          /\ block.kind # "footer" => NoFooter(os, all)
          /\ size = 2 => LastIsFooter(os, all, Align(position) + 2)
        BY <2>1, <2>3, FooterAppended
    <2>5. block.kind # "footer" => NoFooter(os', buffer')
        BY <2>2, <2>3, <2>4, NoFooterHanded
    <2>6. size = 2 => LastIsFooter(os', buffer', Align(position) + 2)
        BY <2>2, <2>3, <2>4, LastHanded
    <2>7. size = 2 => position' = Align(position) + 2
        BY <1>2 DEF Write
    <2> QED BY <2>5, <2>6, <2>7
<1> QED BY <1>1, <1>2

\* A write that fails.
LEMMA NoFooterFailed ==
    ASSUME FileInv, NoFooter(os, buffer), NEW block, NEW size \in Nat,
           WriteFails(block, size)
    PROVE  NoFooter(os', buffer')
<1>1. os \in File(Block) /\ buffer \in Seq(Writes(Block))
    BY DEF FileInv
<1>2. ASSUME NEW n \in 0..Len(buffer), Handed(os, os', buffer, buffer', n)
      PROVE  NoFooter(os', buffer')
    BY <1>1, <1>2, NoFooterHanded
<1>3. ASSUME NEW part \in 1..size, Write(Torn, part)
      PROVE  NoFooter(os', buffer')
    <2>1. part \in Nat /\ Torn.kind # "footer"
        BY DEF Torn
    <2> QED BY <1>3, <2>1, HoleIsABlock, NoFooterWritten
<1> QED BY <1>2, <1>3 DEF WriteFails

\* A footer that is the last write is one of a file that is cut there too.
LEMMA LastTruncated ==
    ASSUME FileInv, position % 2 = 0, LastIsFooter(os, buffer, position), SetSize
    PROVE  LastIsFooter(os', buffer', position')
<1>1. os' = Truncate(os, position) /\ UNCHANGED <<buffer, position>>
    BY DEF SetSize
<1>2. \A o \in Nat : BlockAt(Truncate(os, position), o) =
                         IF o < position THEN BlockAt(os, o) ELSE Hole
    BY HoleIsABlock, TruncateIs DEF FileInv
<1>3. ASSUME NEW o \in Nat, BlockAt(Truncate(os, position), o).kind = "footer"
      PROVE  BlockAt(os, o).kind = "footer"
    BY <1>2, <1>3 DEF Hole
<1> QED BY <1>1, <1>3 DEF LastIsFooter

\* FooterInv is kept by every step.
LEMMA FooterInvStep ==
    ASSUME TypeOK, FileInv, CallInv, FinishInv, FooterInv, Next
    PROVE  FooterInv'
<1> USE DEF formatVars, fileVars, ghostVars, faultVars, callVars, vars
<1> SUFFICES ASSUME ~SealAtRisk'
             PROVE  (IF Footing THEN LastIsFooter(os, buffer, position)
                     ELSE NoFooter(os, buffer))'
    BY DEF FooterInv
<1>1. ~SealAtRisk
    BY FailedGrows DEF SealAtRisk
<1>2. /\ Footing => LastIsFooter(os, buffer, position)
      /\ ~Footing => NoFooter(os, buffer)
    BY <1>1 DEF FooterInv
<1>3. os \in File(Block) /\ buffer \in Seq(Writes(Block))
    BY DEF FileInv
<1>4. CASE footer_written
    <2>1. footer_written' /\ (Quiet \/ Free)
        BY <1>4, Sealed
    <2>2. CASE Quiet
        BY <1>2, <1>4, <2>1, <2>2, QuietKeeps DEF Footing
    <2>3. CASE Free
        <3>1. PICK n \in 0..Len(buffer) : Handed(os, os', buffer, buffer', n)
            BY <1>3, <2>3, AllHanded DEF Free
        <3>2. position' = position
            BY <2>3 DEF Free
        <3> QED BY <1>2, <1>3, <1>4, <2>1, <3>1, <3>2, LastHanded DEF Footing
    <2> QED BY <2>1, <2>2, <2>3
<1>5. CASE pc \in {"finish:truncate", "finish:sync"}
    <2>1. Footing
        BY <1>5 DEF Footing
    <2>2. ~WriteSection /\ ~SectionFails
        BY <1>5, SectionCases, SectionFailsIs DEF Section
    <2>3. SetSize \/ SyncAndReturn \/ SystemCallFails
        BY <1>5, <2>2 DEF Next, AddColumn, SetMetadata, WriteHeader, HeaderFails,
           HeadersFail, Put, PutPart, PartFails, PutHeaders, FailCall, Finish,
           AddMetadata, MetadataFails, Free, Closed
    <2>4. CASE SetSize
        <3>1. pc' = "finish:sync" /\ position % 2 = 0
            BY <2>4 DEF SetSize, Goto, FinishInv, FooterLaid
        <3> QED BY <1>2, <2>1, <2>4, <3>1, LastTruncated DEF Footing
    <2>5. CASE SyncAndReturn
        <3>1. footer_written' /\ UNCHANGED <<os, buffer, position>>
            BY <2>5 DEF SyncAndReturn
        <3> QED BY <1>2, <2>1, <3>1 DEF Footing
    <2>6. ~SystemCallFails
        BY DEF SystemCallFails, MayFail, SealAtRisk, Grave
    <2> QED BY <2>3, <2>4, <2>5, <2>6
<1>6. CASE ~footer_written /\ pc \notin {"finish:truncate", "finish:sync"}
    <2>1. NoFooter(os, buffer)
        BY <1>2, <1>6 DEF Footing
    <2>2. ASSUME NoFooter(os', buffer'), ~footer_written',
                 pc' \notin {"finish:truncate", "finish:sync"}
          PROVE  (IF Footing THEN LastIsFooter(os, buffer, position)
                  ELSE NoFooter(os, buffer))'
        BY <2>2 DEF Footing
    <2>3. CASE Quiet
        <3>1. ~footer_written' /\ pc' \notin {"finish:truncate", "finish:sync"}
            BY <1>6, <2>3 DEF Quiet, AddColumn, SetMetadata, Put, Finish, AddMetadata,
               MetadataFails, SyncAndReturn, SystemCallFails, Closed, Goto, Return
        <3> QED BY <2>1, <2>2, <2>3, <3>1, QuietKeeps
    <2>4. CASE WriteHeader
        <3>1. NoFooter(os', buffer')
            <4>1. HeaderBlock.kind # "footer"
                BY DEF HeaderBlock
            <4> QED BY <2>1, <2>4, <4>1, HoleIsABlock, NoFooterWritten DEF WriteHeader
        <3> QED BY <1>6, <2>2, <2>4, <3>1 DEF WriteHeader, Goto
    <2>5. CASE PutPart
        <3>1. NoFooter(os', buffer')
            <4>1. Part(group, NextPart).kind # "footer"
                BY DEF Part
            <4> QED BY <2>1, <2>5, <4>1, PartIsABlock, NoFooterWritten DEF PutPart
        <3> QED BY <1>6, <2>2, <2>5, <3>1 DEF PutPart
    <2>6. CASE PutHeaders
        <3>1. NoFooter(os', buffer')
            <4>1. ColumnHeaders(offsets).kind # "footer"
                BY DEF ColumnHeaders
            <4> QED BY <2>1, <2>6, <4>1, HeadersAreABlock, NoFooterWritten
                    DEF PutHeaders
        <3> QED BY <1>6, <2>2, <2>6, <3>1 DEF PutHeaders, Return
    <2>7. CASE WriteSection
        <3>1. ASSUME NEW label, NEW block \in Block, NEW size \in Nat, NEW next,
                     Section(label, block, size, next), block.kind # "footer",
                     next \notin {"finish:truncate", "finish:sync"}
              PROVE  (IF Footing THEN LastIsFooter(os, buffer, position)
                      ELSE NoFooter(os, buffer))'
            <4>1. NoFooter(os', buffer')
                BY <2>1, <3>1, NoFooterWritten DEF Section
            <4> QED BY <1>6, <2>2, <3>1, <4>1 DEF Section
        <3>2. /\ StringsBlock.kind # "footer" /\ GroupHeaders.kind # "footer"
              /\ Descriptors.kind # "footer"
            BY DEF StringsBlock, GroupHeaders, Descriptors
        <3>3. /\ StringsSize \in Nat /\ GroupHeadersSize(Len(headers)) \in Nat
              /\ DescriptorsSize(columns) \in Nat
            BY SectionsAreBlocks
        <3>4. CASE Section("finish:footer", FooterBlock, FooterSize, "finish:truncate")
            <4>1. LastIsFooter(os', buffer', position')
                <5>1. Write(FooterBlock, 2)
                    BY <3>4 DEF Section, FooterSize
                <5> QED BY <2>1, <5>1, SectionsAreBlocks, NoFooterWritten
            <4>2. Footing'
                BY <3>4 DEF Section, Footing
            <4> QED BY <4>1, <4>2
        <3> QED BY <2>7, <3>1, <3>2, <3>3, <3>4, SectionCases, SectionsAreBlocks
    <2>8. ASSUME NEW block, NEW size \in Nat, WriteFails(block, size),
                 ~footer_written', pc' = "error"
          PROVE  (IF Footing THEN LastIsFooter(os, buffer, position)
                  ELSE NoFooter(os, buffer))'
        <3>1. NoFooter(os', buffer')
            BY <2>1, <2>8, NoFooterFailed
        <3> QED BY <2>2, <2>8, <3>1
    <2>9. CASE HeaderFails \/ PartFails \/ HeadersFail
        <3>1. CASE HeaderFails \/ HeadersFail
            BY <1>6, <2>8, <3>1 DEF HeaderFails, HeadersFail, Goto
        <3>2. CASE PartFails
            <4>1. PartSize(group, NextPart) \in Nat
                BY <3>2, PartIsABlock DEF PartFails
            <4> QED BY <1>6, <2>8, <3>2, <4>1 DEF PartFails, Goto
        <3> QED BY <2>9, <3>1, <3>2
    <2>10. CASE SectionFails
        <3>1. PICK block : \E size \in Nat : WriteFails(block, size)
            BY <2>10, SectionFailsWrites
        <3>2. ~footer_written' /\ pc' = "error"
            BY <1>6, <2>10, SectionFailsIs
        <3> QED BY <2>8, <3>1, <3>2
    <2>11. ASSUME NEW n \in 0..Len(buffer), Handed(os, os', buffer, buffer', n),
                  ~footer_written', pc' \in {"idle", "closed"}
           PROVE  (IF Footing THEN LastIsFooter(os, buffer, position)
                   ELSE NoFooter(os, buffer))'
        <3>1. NoFooter(os', buffer')
            BY <1>3, <2>1, <2>11, NoFooterHanded
        <3> QED BY <2>2, <2>11, <3>1
    <2>12. CASE FailCall
        <3>1. PICK n \in 0..Len(buffer) : Handed(os, os', buffer, buffer', n)
            BY <1>3, <2>12, AllHanded DEF FailCall, SeekBack
        <3> QED BY <1>6, <2>11, <2>12, <3>1 DEF FailCall, Return
    <2>13. CASE Free
        <3>1. PICK n \in 0..Len(buffer) : Handed(os, os', buffer, buffer', n)
            BY <1>3, <2>13, AllHanded DEF Free
        <3> QED BY <1>6, <2>11, <2>13, <3>1 DEF Free, Goto
    <2>14. ~SetSize
        BY <1>6 DEF SetSize
    <2> QED BY <2>3, <2>4, <2>5, <2>6, <2>7, <2>9, <2>10, <2>12, <2>13, <2>14, NextCases
<1> QED BY <1>4, <1>5, <1>6

------------------------------------------------------------------------------
(* The theorems *)

\* It holds at first.
LEMMA Initially == Init => Inv
<1> SUFFICES ASSUME Init PROVE Inv
    OBVIOUS
<1>1. EmptyFile \in File(Block) /\ EmptyFile.size = 0
    BY DEF EmptyFile, File
<1>2. os = EmptyFile /\ buffer = <<>> /\ position = 0 /\ Stream = EmptyFile
    <2>1. ApplyAll(EmptyFile, <<>>) = EmptyFile
        BY <1>1, HoleIsABlock, ApplyNothing
    <2> QED BY <2>1 DEF Init, Stream
<1>3. TypeOK
    <2>1. /\ <<>> \in Seq(Extent) /\ <<>> \in Seq(Groups) /\ <<>> \in Seq(Nat)
          /\ <<>> \in Seq(Metadata \cup Nat) /\ <<>> \in Seq(Writes(Block))
          /\ Len(<<>>) = 0
        OBVIOUS
    <2>2. "idle" \in Labels
        BY DEF Labels
    <2>3. columns \in 0..MaxColumns /\ puts \in 0..MaxPuts /\ faults \in 0..MaxFaults
        BY RowGroupWriterAssumption DEF Init
    <2>4. header_written \in BOOLEAN /\ footer_written \in BOOLEAN /\ sync \in BOOLEAN
        BY Zenon DEF Init
    <2>5. /\ headers \in Seq(Extent) /\ offsets \in Seq(Extent)
          /\ accepted \in Seq(Groups) /\ strings \in Seq(Metadata \cup Nat)
          /\ names \in Seq(Nat)
        BY <2>1, Zenon DEF Init
    <2>6. /\ row_count \in Nat /\ base \in Nat
          /\ metadata \in Metadata \cup {None} /\ group \in Groups \cup {None}
          /\ failed \subseteq Faults \cap Grave /\ pc \in Labels
          /\ promised \in Promise \cup {None}
        BY <2>2 DEF Init
    <2>7. Len(names) = columns /\ named \subseteq 1..columns
        BY <2>1 DEF Init
    <2>8. FilesOK
        BY <1>1, <1>2, <2>1 DEF Init, FilesOK, Within
    <2> QED BY <2>3, <2>4, <2>5, <2>6, <2>7, <2>8, Zenon DEF TypeOK
<1>4. FileInv
    <2>1. <<>> \in Seq(Writes(Block)) /\ Len(<<>>) = 0
        OBVIOUS
    <2> QED BY <1>1, <1>2, <2>1 DEF FileInv, Within
<1>5. CallInv
    BY DEF Init, CallInv, InCall, Start
<1>6. GroupsInv
    <2>1. RowsOf(<<>>) = 0
        <3>1. [i \in DOMAIN <<>> |-> RowsIn[<<>>[i]]] = <<>>
            OBVIOUS
        <3> QED BY <3>1, TotalOfNone DEF RowsOf
    <2> QED BY <2>1 DEF Init, GroupsInv, AcceptedInv, PuttingInv
<1>7. FinishInv /\ PromiseInv /\ NamesInv
    BY DEF Init, FinishInv, PromiseInv, NamesInv
<1>8. FooterInv
    <2>1. \A o : BlockAt(EmptyFile, o) = Hole
        BY DEF BlockAt, EmptyFile
    <2>2. NoFooter(os, buffer)
        BY <1>2, <2>1 DEF NoFooter, Hole
    <2>3. ~Footing
        BY DEF Init, Footing
    <2> QED BY <2>2, <2>3 DEF FooterInv
<1> QED BY <1>3, <1>4, <1>5, <1>6, <1>7, <1>8 DEF Inv

\* It is kept.
LEMMA Inductive == Inv /\ [Next]_vars => Inv'
<1>1. ASSUME Inv, Next PROVE Inv'
    BY <1>1, TypeStep, FileStep, CallStep, GroupsStep, NamesStep, FinishStep,
       PromiseStep, FooterInvStep DEF Inv
<1>2. ASSUME Inv, UNCHANGED vars PROVE Inv'
    <2>1. Closed \/ UNCHANGED vars
        BY <1>2
    <2>2. UNCHANGED <<callVars, formatVars, os, disk, buffer, position, named, accepted,
                      promised, failed, puts, faults>>
        BY <1>2 DEF vars, fileVars, ghostVars, faultVars
    <2>3. TypeOK'
        BY <1>2, <2>2 DEF Inv, TypeOK, FilesOK, callVars, formatVars
    <2>4. Stream' = Stream
        BY <2>2 DEF Stream
    <2>5. FileInv' /\ CallInv'
        BY <1>2, <2>2, <2>4
           DEF Inv, FileInv, CallInv, callVars, formatVars, InCall, Start
    <2>6. GroupsInv'
        BY <1>2, <2>2, <2>4
           DEF Inv, GroupsInv, AcceptedInv, PuttingInv, callVars, formatVars, InCall,
               Start
    <2>7. FinishInv'
        BY <1>2, <2>2, <2>4, FinishUnchanged DEF Inv, callVars, formatVars
    <2>9. NamesInv'
        BY <1>2, <2>2 DEF Inv, NamesInv, formatVars
    <2>8. PromiseInv' /\ FooterInv'
        BY <1>2, <2>2, <2>4
           DEF Inv, PromiseInv, FooterInv, callVars, formatVars, Appended, Whole,
               Parts, ContentAtRisk, SealAtRisk, Footing
    <2> QED BY <2>3, <2>5, <2>6, <2>7, <2>8, <2>9 DEF Inv
<1> QED BY <1>1, <1>2

\* The inductive invariant.
THEOREM Invariance == Spec => []Inv
BY Initially, Inductive, PTL DEF Spec

\* Every variable of the row group writer keeps its type, stdio's buffer and what
\* has reached the file among them, and stdio holds nothing that ends past ftello.
THEOREM TypeCorrect == Spec => []TypeOK
<1>1. Inv => TypeOK
    BY DEF Inv
<1> QED BY <1>1, Invariance, PTL

\* A row group that cx_row_group_writer_put accepted stays readable, whatever
\* fails or is retried after it.
THEOREM AcceptedStayReadable == Spec => []AcceptedGroupsIntact
<1>1. Inv => AcceptedGroupsIntact
    <2> SUFFICES ASSUME Inv, NEW i \in DOMAIN accepted
                 PROVE  \E j \in i..Len(headers) :
                            ReadGroup(Stream, headers[j]) = Whole(accepted[i])
        BY DEF AcceptedGroupsIntact
    <2>1. PICK j \in i..Len(headers) :
              Laid(Stream, headers[j], accepted[i], Start, columns)
        BY DEF Inv, GroupsInv, AcceptedInv
    <2>2. headers[j] \in Extent /\ accepted[i] \in Groups
        <3>1. /\ headers \in Seq(Extent) /\ accepted \in Seq(Groups) /\ i \in Nat
              /\ i >= 1
            <4>1. headers \in Seq(Extent) /\ accepted \in Seq(Groups)
                BY DEF Inv, TypeOK, Extent
            <4> QED BY ONLY <4>1, i \in DOMAIN accepted
        <3>2. j \in 1..Len(headers)
            BY <2>1, <3>1
        <3> QED BY <3>1, <3>2
    <2>3. Start \in Nat /\ Stream.size \in Nat /\ Start <= Stream.size
        <3>1. /\ position \in Nat /\ base \in Nat /\ base <= position
              /\ position <= Stream.size
            BY DEF Inv, TypeOK, FileInv, CallInv
        <3>2. Stream.size \in Nat
            BY StreamIsAFile DEF Inv
        <3> QED BY <3>1, <3>2 DEF Start
    <2>4. columns \in Nat
        BY SectionsAreBlocks DEF Inv
    <2> QED BY <2>1, <2>2, <2>3, <2>4, ReadsLaid
<1> QED BY <1>1, Invariance, PTL

\* When cx_row_group_writer_finish has returned true, a reader finds exactly the
\* row groups put, the metadata of the last call and the names of the columns that
\* were added, however many calls failed before, finish among them.
THEOREM FinishedIsExact == Spec => []FinishedFileIsExact
<1>1. Inv => FinishedFileIsExact
    BY DEF Inv, CallInv, PromiseInv, FinishedFileIsExact
<1> QED BY <1>1, Invariance, PTL

------------------------------------------------------------------------------
(* The file is a sealed log *)

\* What a reader of the file on disk sees is nothing, or everything put, and
\* nothing as long as no footer is being finished.
VisibleInv == ~SealAtRisk /\ Read(os) # Rejected =>
    Footing /\ Read(os).groups = Appended /\ Len(buffer) = 0

\* The inductive invariant says so.
LEMMA Visible == Inv => VisibleInv
<1> SUFFICES ASSUME Inv, ~SealAtRisk, Read(os) # Rejected
             PROVE  Footing /\ Read(os).groups = Appended /\ Len(buffer) = 0
    BY DEF VisibleInv
<1>1. os.size - 2 \in Nat /\ BlockAt(os, os.size - 2).kind = "footer"
    <2>1. ~(os.size < FooterSize)
        BY DEF Read
    <2>2. os.size \in Nat
        BY StreamIsAFile DEF Inv
    <2> QED BY <2>1, <2>2 DEF Read, FooterSize
<1>2. Footing /\ LastIsFooter(os, buffer, position)
    BY <1>1 DEF Inv, FooterInv, NoFooter
<1>3. Len(buffer) = 0 /\ (os.size - 2) + 2 = position
    BY <1>1, <1>2 DEF LastIsFooter
<1>4. Stream = os /\ os.size = position
    <2>1. buffer \in Seq(Writes(Block)) /\ os \in File(Block)
        BY DEF Inv, FileInv
    <2>2. buffer = <<>>
        BY <1>3, <2>1
    <2>3. ApplyAll(os, <<>>) = os
        BY <2>1, HoleIsABlock, ApplyNothing
    <2>4. os.size \in Nat
        BY <1>1, StreamIsAFile DEF Inv
    <2> QED BY <1>3, <2>2, <2>3, <2>4 DEF Stream
<1>5. "columnHeaders" \notin failed
    BY DEF SealAtRisk
<1>6. CASE footer_written
    <2>1. Read(Stream).groups = Appended
        BY <1>5, <1>6 DEF Inv, PromiseInv
    <2> QED BY <1>2, <1>3, <1>4, <2>1
<1>7. CASE pc \in {"finish:truncate", "finish:sync"}
    <2>1. FooterLaid(Stream)
        BY <1>7 DEF Inv, FinishInv
    <2>2. Read(os).groups = [i \in DOMAIN headers |-> ReadGroup(os, headers[i])]
        BY <1>4, <2>1, ReadIs DEF Inv
    <2> QED BY <1>2, <1>3, <1>4, <1>5, <2>2, HeadersRead DEF Inv, GroupsInv
<1> QED BY <1>2, <1>3, <1>6, <1>7 DEF Footing

\* What free leaves is the file that finish promised; when fclose has failed, that
\* file or one that cannot be opened, unless ftruncate or fsync had failed with a
\* footer out.
THEOREM ClosedIsExact == Spec => []ClosedFileIsExact
<1>1. Inv => ClosedFileIsExact
    <2> SUFFICES ASSUME Inv, promised # None, ~ContentAtRisk
                 PROVE  \/ Shows(os, promised.content)
                        \/ buffer # <<>> /\ (Read(os) = Rejected \/ SealAtRisk)
        BY DEF ClosedFileIsExact
    <2>1. CASE buffer = <<>>
        <3>1. os \in File(Block)
            BY DEF Inv, FileInv
        <3>2. ApplyAll(os, <<>>) = os
            BY <3>1, HoleIsABlock, ApplyNothing
        <3>3. Stream = os
            BY <2>1, <3>2 DEF Stream
        <3> QED BY <3>3 DEF Inv, CallInv, PromiseInv
    <2>2. CASE buffer # <<>>
        <3>1. Len(buffer) # 0
            BY <2>2 DEF Inv, FileInv
        <3> QED BY <2>2, <3>1, Visible DEF VisibleInv
    <2> QED BY <2>1, <2>2
<1> QED BY <1>1, Invariance, PTL

\* Once it is readable it stays so.
LEMMA StaysVisible ==
    ASSUME Inv, Next, ~SealAtRisk', Read(os) # Rejected
    PROVE  Read(os') # Rejected
<1>1. ~SealAtRisk
    BY FailedGrows DEF SealAtRisk
<1>2. Footing /\ Len(buffer) = 0
    BY <1>1, Visible DEF VisibleInv
<1>3. buffer = <<>> /\ os \in File(Block)
    BY <1>2 DEF Inv, FileInv
<1>4. ApplyAll(os, <<>>) = os
    BY <1>3, HoleIsABlock, ApplyNothing
<1>5. CASE UNCHANGED os
    BY <1>5
<1>6. CASE footer_written
    <2>1. Quiet \/ Free
        BY <1>6, Sealed DEF Inv
    <2>2. CASE Quiet
        BY <1>5, <2>2, QuietKeeps
    <2>3. CASE Free
        <3>1. PICK n \in 0..0 : os' = ApplyAll(os, SubSeq(<<>>, 1, n)) \/ os' = os
            BY <1>3, <1>4, <2>3 DEF Free, Handed
        <3>2. SubSeq(<<>>, 1, n) = <<>>
            BY <3>1
        <3> QED BY <1>4, <3>1, <3>2
    <2> QED BY <2>1, <2>2, <2>3
<1>7. CASE pc \in {"finish:truncate", "finish:sync"}
    <2>1. ~WriteSection /\ ~SectionFails
        BY <1>7, SectionCases, SectionFailsIs DEF Section
    <2>2. SetSize \/ SyncAndReturn \/ SystemCallFails
        BY <1>7, <2>1 DEF Next, AddColumn, SetMetadata, WriteHeader, HeaderFails,
           HeadersFail, Put, PutPart, PartFails, PutHeaders, FailCall, Finish,
           AddMetadata, MetadataFails, Free, Closed
    <2>3. CASE SetSize
        <3>1. FooterLaid(Stream) /\ position % 2 = 0 /\ UNCHANGED <<buffer, position>>
            BY <2>3 DEF Inv, FinishInv, FooterLaid, SetSize
        <3>2. Stream'.size = position /\ Kept(Stream, Stream', position) /\ FileInv'
            BY <2>3, <3>1, SetSizeEffect DEF Inv
        <3>3. PICK f : f = Stream'
            OBVIOUS
        <3>4. FooterLaid(f)
            BY <3>1, <3>2, <3>3, FooterLaidStays DEF Inv
        <3>5. Read(f) # Rejected
            BY <3>2, <3>3, <3>4, ReadIs DEF Inv
        <3>6. Stream' = os'
            <4>1. os' \in File(Block) /\ buffer' = <<>>
                BY <1>3, <3>1, <3>2 DEF FileInv
            <4>2. PICK h : h = os'
                OBVIOUS
            <4>3. ApplyAll(h, <<>>) = h
                BY <4>1, <4>2, HoleIsABlock, ApplyNothing
            <4> QED BY <4>1, <4>2, <4>3 DEF Stream
        <3> QED BY <3>3, <3>5, <3>6
    <2>4. CASE SyncAndReturn \/ SystemCallFails
        BY <1>5, <2>4 DEF SyncAndReturn, SystemCallFails, fileVars
    <2> QED BY <2>2, <2>3, <2>4
<1> QED BY <1>2, <1>6, <1>7 DEF Footing

\* Row groups are appended while nothing is visible.
LEMMA AppendedStep ==
    ASSUME Inv, Next
    PROVE  \/ Appended' = Appended
           \/ /\ ~Footing /\ ~Footing'
              /\ Len(Appended') = Len(Appended) + 1
              /\ SubSeq(Appended', 1, Len(Appended)) = Appended
<1> USE DEF formatVars, fileVars, ghostVars, faultVars, callVars, vars
<1>1. CASE UNCHANGED <<accepted, columns>>
    BY <1>1 DEF Appended, Whole, Parts, PartSize, Part
<1>2. CASE PutHeaders
    <2>1. /\ accepted' = Append(accepted, group) /\ UNCHANGED columns
          /\ accepted \in Seq(Groups) /\ group \in Groups /\ ~Footing /\ ~Footing'
        BY <1>2 DEF PutHeaders, Return, Inv, TypeOK, CallInv, InCall, Footing
    <2>2. \A g : Whole(g)' = Whole(g)
        BY <2>1 DEF Whole, Parts, PartSize, Part
    <2>3. PICK n \in Nat : n = Len(accepted)
        BY <2>1
    <2>4. PICK p, q : p = Appended /\ q = Appended'
        OBVIOUS
    <2>5. /\ p = [i \in 1..n |-> Whole(accepted[i])]
          /\ q = [i \in 1..(n + 1) |-> Whole(Append(accepted, group)[i])]
        BY <2>1, <2>2, <2>3, <2>4 DEF Appended
    <2>6. \A i \in 1..n : Append(accepted, group)[i] = accepted[i]
        BY <2>1, <2>3
    <2> DEFINE S == {Whole(g) : g \in Groups}
    <2>7. p \in Seq(S) /\ q \in Seq(S) /\ Len(p) = n /\ Len(q) = n + 1
        <3>1. \A i \in 1..n : accepted[i] \in Groups
            BY <2>1, <2>3
        <3>2. \A i \in 1..(n + 1) : Append(accepted, group)[i] \in Groups
            BY <2>1, <2>3
        <3>3. p \in [1..n -> S] /\ q \in [1..(n + 1) -> S]
            BY <2>5, <3>1, <3>2
        <3> HIDE DEF S
        <3> QED BY <3>3
    <2>8. \A i \in 1..n : q[i] = p[i]
        <3>1. \A i \in 1..n : i \in 1..(n + 1)
            OBVIOUS
        <3> QED BY <2>5, <2>6, <3>1
    <2>9. SubSeq(q, 1, n) = p
        <3> HIDE DEF S
        <3>1. PICK r : r = SubSeq(q, 1, n)
            OBVIOUS
        <3>2. r \in Seq(S) /\ Len(r) = n /\ \A i \in 1..n : r[i] = q[i]
            BY <2>7, <3>1
        <3>3. r = p
            BY <2>7, <2>8, <3>2, SeqEqual
        <3> QED BY <3>1, <3>3
    <2> QED BY <2>1, <2>4, <2>7, <2>9
<1>3. CASE AddColumn
    <2>1. accepted = <<>> /\ accepted' = <<>>
        BY <1>3 DEF AddColumn, Inv, CallInv
    <2> QED BY <2>1 DEF Appended
<1>4. CASE WriteSection \/ SectionFails
    BY <1>1, <1>4 DEF WriteSection, SectionFails
<1>5. CASE \/ (\E m \in Metadata : SetMetadata(m))
           \/ WriteHeader \/ HeaderFails \/ HeadersFail
           \/ (\E g \in Groups, n \in 0..MaxColumns : Put(g, n))
           \/ PutPart \/ PartFails \/ FailCall \/ (\E s \in BOOLEAN : Finish(s))
           \/ AddMetadata \/ MetadataFails \/ SetSize \/ SyncAndReturn
           \/ SystemCallFails \/ Free \/ Closed
    BY <1>1, <1>5 DEF SetMetadata, WriteHeader, HeaderFails, HeadersFail,
           Put, PutPart, PartFails, FailCall, Finish, AddMetadata, MetadataFails,
           SetSize, SyncAndReturn, SystemCallFails, Free, Closed
<1> QED BY <1>2, <1>3, <1>4, <1>5 DEF Next

\* Every step is one of the log's, or none.
LEMMA LogStep ==
    Inv /\ Inv' /\ [Next]_vars => [SealAtRisk' \/ Log!Next]_(Log!vars)
<1> DEFINE seen == IF Read(os) = Rejected THEN None ELSE Read(os).groups
<1>1. ASSUME Inv, Inv', Next, ~SealAtRisk'
      PROVE  Log!Next \/ (UNCHANGED <<Appended, seen>>)
    <2>1. ~SealAtRisk
        BY <1>1, FailedGrows DEF SealAtRisk
    <2>2. \/ seen = None /\ Read(os) = Rejected
          \/ seen = Appended /\ Read(os) # Rejected /\ Footing
        BY <1>1, <2>1, Visible DEF VisibleInv
    <2>3. \/ seen' = None /\ Read(os') = Rejected
          \/ seen' = Appended' /\ Read(os') # Rejected /\ Footing'
        <3>1. Inv' => VisibleInv'
            BY Visible, PTL
        <3>2. /\ Read(os') # Rejected => Footing' /\ Read(os').groups = Appended'
              /\ seen' = IF Read(os') = Rejected THEN None ELSE Read(os').groups
            BY <1>1, <3>1 DEF VisibleInv
        <3> QED BY <3>2
    <2>4. Read(os) # Rejected => Read(os') # Rejected
        BY <1>1, StaysVisible
    <2>5. CASE Appended' = Appended
        <3>1. CASE Read(os) # Rejected
            BY <2>2, <2>3, <2>4, <2>5, <3>1
        <3>2. CASE Read(os) = Rejected /\ Read(os') = Rejected
            BY <2>2, <2>3, <2>5, <3>2
        <3>3. CASE Read(os) = Rejected /\ Read(os') # Rejected
            BY <2>2, <2>3, <2>5, <3>3 DEF Log!Next, Log!Seal, Appended
        <3> QED BY <3>1, <3>2, <3>3
    <2>6. CASE /\ ~Footing /\ ~Footing'
               /\ Len(Appended') = Len(Appended) + 1
               /\ SubSeq(Appended', 1, Len(Appended)) = Appended
        BY <2>2, <2>3, <2>6 DEF Log!Next, Log!Add, Appended
    <2> QED BY <1>1, <2>5, <2>6, AppendedStep
<1>2. ASSUME UNCHANGED vars PROVE UNCHANGED Log!vars
    BY <1>2 DEF vars, formatVars, fileVars, ghostVars, Log!vars, Whole, Parts, PartSize,
                Part
<1> QED BY <1>1, <1>2 DEF Log!vars, Appended

\* A file is readable only when it is whole, and then never changes; steps after
\* a row group was refused, or ftruncate or fsync failed, are not restricted.
THEOREM ImplementsLog == Spec => ImplementsSealedLog
<1>1. Init => Log!Init
    <2> SUFFICES ASSUME Init PROVE Log!Init
        OBVIOUS
    <2>1. Read(os) = Rejected
        BY DEF Init, Read, EmptyFile, FooterSize
    <2>2. [i \in DOMAIN accepted |-> Whole(accepted[i])] = <<>>
        BY DEF Init
    <2> QED BY <2>1, <2>2 DEF Log!Init
<1> QED BY <1>1, LogStep, Invariance, PTL DEF Spec, ImplementsSealedLog
===============================================================================
