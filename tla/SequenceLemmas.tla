---------------------------- MODULE SequenceLemmas ----------------------------
(***************************************************************************)
(* Facts about sequences that the proofs of several modules need and the   *)
(* library does not state: induction over the natural numbers as a fact    *)
(* about sets, the flattening and the sum of a sequence that grows, and    *)
(* the bounds of a set of numbers.                                         *)
(***************************************************************************)
EXTENDS Integers, Sequences, SequencesExt, Totals, TLAPS, WellFoundedInduction,
        SequenceTheorems

\* A set of natural numbers with 0, and with the successor of each of its
\* members, has them all.
LEMMA NatInductive ==
    ASSUME NEW X, 0 \in X, \A n \in Nat : n \in X => n + 1 \in X
    PROVE  Nat \subseteq X
<1> DEFINE Less == OpToRel(<, Nat)
           Rest == Nat \ X
<1>1. SUFFICES ASSUME Rest # {} PROVE FALSE
    OBVIOUS
<1>2. IsWellFoundedOn(Less, Nat)
    BY NatLessThanWellFounded
<1>3. PICK n \in Rest : \A m \in Rest : <<m, n>> \notin Less
    <2> HIDE DEF Less
    <2> QED BY <1>1, <1>2, WFMin, Zenon
<1>4. n # 0 /\ n \in Nat
    OBVIOUS
<1>5. n - 1 \in Nat /\ n - 1 < n
    BY <1>4
<1>6. <<n - 1, n>> \in Less
    BY <1>4, <1>5 DEF OpToRel
<1>7. n - 1 \in X
    BY <1>3, <1>5, <1>6
<1>8. n - 1 + 1 = n
    BY <1>4
<1> QED
    BY <1>4, <1>5, <1>7, <1>8

\* The function that FlattenSeq defines by recursion on the first n sequences.
Flattens(f, seqs, n) ==
    f = [i \in 1..n |-> IF i = 1 THEN seqs[i] ELSE f[i - 1] \o seqs[i]]

\* There is such a function.
LEMMA FlattenExists ==
    ASSUME NEW seqs, NEW n \in Nat
    PROVE  \E f : Flattens(f, seqs, n)
<1> DEFINE X == {m \in Nat : \E f : Flattens(f, seqs, m)}
<1>1. 0 \in X
    <2>1. Flattens([i \in 1..0 |-> 0], seqs, 0)
        BY DEF Flattens
    <2> QED BY <2>1
<1>2. ASSUME NEW m \in Nat, m \in X PROVE m + 1 \in X
    <2>1. PICK f : Flattens(f, seqs, m)
        BY <1>2
    <2> DEFINE g == [i \in 1..(m + 1) |->
                        IF i = m + 1
                        THEN IF i = 1 THEN seqs[i] ELSE f[m] \o seqs[i]
                        ELSE f[i]]
    <2>2. ASSUME NEW i \in 1..(m + 1)
          PROVE  g[i] = IF i = 1 THEN seqs[i] ELSE g[i - 1] \o seqs[i]
        <3>1. CASE i = m + 1
            <4>1. CASE i = 1
                BY <3>1, <4>1
            <4>2. CASE i # 1
                <5>1. i - 1 \in 1..m /\ i - 1 = m /\ i - 1 # m + 1 /\ m \in 1..(m + 1)
                    BY <3>1, <4>2
                <5>2. g[i - 1] = f[m]
                    BY <5>1
                <5> QED BY <3>1, <4>2, <5>2
            <4> QED BY <4>1, <4>2
        <3>2. CASE i # m + 1
            <4>1. i \in 1..m
                BY <3>2
            <4>2. f[i] = IF i = 1 THEN seqs[i] ELSE f[i - 1] \o seqs[i]
                BY <2>1, <4>1 DEF Flattens
            <4>3. g[i] = f[i]
                BY <3>2
            <4>4. i # 1 => g[i - 1] = f[i - 1]
                BY <4>1
            <4> QED BY <4>2, <4>3, <4>4
        <3> QED BY <3>1, <3>2
    <2>3. Flattens(g, seqs, m + 1)
        <3>1. g = [i \in 1..(m + 1) |-> g[i]]
            OBVIOUS
        <3> HIDE DEF g
        <3> QED BY <2>2, <3>1 DEF Flattens
    <2> QED BY <2>3
<1> HIDE DEF X
<1>3. n \in X
    BY <1>1, <1>2, NatInductive
<1> QED BY <1>3 DEF X

\* Its value at each sequence.
LEMMA FlattensAt ==
    ASSUME NEW f, NEW seqs, NEW n, Flattens(f, seqs, n), NEW i \in 1..n
    PROVE  f[i] = IF i = 1 THEN seqs[i] ELSE f[i - 1] \o seqs[i]
<1> DEFINE g == [j \in 1..n |-> IF j = 1 THEN seqs[j] ELSE f[j - 1] \o seqs[j]]
<1>1. f = g
    BY DEF Flattens
<1>2. g[i] = IF i = 1 THEN seqs[i] ELSE f[i - 1] \o seqs[i]
    OBVIOUS
<1> QED
    BY ONLY <1>1, <1>2, Zenon

\* The first k sequences are the same.
Agree(s, t, k) == \A i \in 1..k : s[i] = t[i]

\* On the sequences that two sequences share, the flattenings agree.
LEMMA FlattenAgrees ==
    ASSUME NEW s, NEW t, NEW m \in Nat, NEW k \in Nat, NEW f, NEW g,
           Flattens(f, s, m), Flattens(g, t, k), Agree(s, t, k),
           k <= m, k # 0
    PROVE  f[k] = g[k]
<1> DEFINE X == {j \in Nat : j \in 1..k => f[j] = g[j]}
<1>1. 0 \in X
    OBVIOUS
<1>2. ASSUME NEW j \in Nat, j \in X PROVE j + 1 \in X
    <2> SUFFICES ASSUME j + 1 \in 1..k PROVE f[j + 1] = g[j + 1]
        OBVIOUS
    <2>1. /\ j + 1 \in 1..m /\ j + 1 - 1 = j
          /\ s[j + 1] = t[j + 1]
        BY DEF Agree
    <2>2. f[j + 1] = IF j + 1 = 1 THEN s[j + 1] ELSE f[j] \o s[j + 1]
        BY <2>1, FlattensAt
    <2>3. g[j + 1] = IF j + 1 = 1 THEN t[j + 1] ELSE g[j] \o t[j + 1]
        BY <2>1, FlattensAt
    <2>4. j + 1 # 1 => f[j] = g[j]
        BY <1>2
    <2> QED BY <2>1, <2>2, <2>3, <2>4
<1> HIDE DEF X
<1>3. Nat \subseteq X
    BY <1>1, <1>2, NatInductive
<1> QED BY <1>3 DEF X

\* What FlattenSeq is.
LEMMA FlattenIs ==
    ASSUME NEW S, NEW seqs \in Seq(S), seqs # <<>>
    PROVE  \E f : Flattens(f, seqs, Len(seqs)) /\ FlattenSeq(seqs) = f[Len(seqs)]
<1>1. Len(seqs) \in Nat /\ Len(seqs) # 0
    OBVIOUS
<1> DEFINE f == CHOOSE f : Flattens(f, seqs, Len(seqs))
<1>2. Flattens(f, seqs, Len(seqs))
    BY <1>1, FlattenExists
<1>3. FlattenSeq(seqs) = f[Len(seqs)]
    BY <1>1 DEF FlattenSeq, Flattens
<1> QED BY <1>2, <1>3

\* Flattening a sequence of sequences over S gives a sequence over S.
LEMMA FlattenType ==
    ASSUME NEW S, NEW seqs \in Seq(Seq(S))
    PROVE  FlattenSeq(seqs) \in Seq(S)
<1>1. CASE seqs = <<>>
    BY <1>1 DEF FlattenSeq
<1>2. CASE seqs # <<>>
    <2>1. Len(seqs) \in Nat /\ Len(seqs) # 0
        BY <1>2
    <2>2. PICK f : Flattens(f, seqs, Len(seqs)) /\ FlattenSeq(seqs) = f[Len(seqs)]
        BY <1>2, FlattenIs
    <2> DEFINE X == {j \in Nat : j \in 1..Len(seqs) => f[j] \in Seq(S)}
    <2>3. 0 \in X
        OBVIOUS
    <2>4. ASSUME NEW j \in Nat, j \in X PROVE j + 1 \in X
        <3> SUFFICES ASSUME j + 1 \in 1..Len(seqs) PROVE f[j + 1] \in Seq(S)
            OBVIOUS
        <3>1. j + 1 - 1 = j /\ seqs[j + 1] \in Seq(S)
            OBVIOUS
        <3>2. f[j + 1] = IF j + 1 = 1 THEN seqs[j + 1] ELSE f[j] \o seqs[j + 1]
            BY <2>2, <3>1, FlattensAt
        <3>3. j + 1 # 1 => f[j] \in Seq(S)
            BY <2>4
        <3> QED BY <3>1, <3>2, <3>3
    <2> HIDE DEF X
    <2>5. Len(seqs) \in X
        BY <2>1, <2>3, <2>4, NatInductive
    <2> QED BY <2>1, <2>2, <2>5 DEF X
<1> QED BY <1>1, <1>2

\* One more sequence is appended to the flattening of the others.
LEMMA FlattenAppend ==
    ASSUME NEW S, NEW seqs, seqs \in Seq(Seq(S)), NEW x \in Seq(S)
    PROVE  FlattenSeq(Append(seqs, x)) = FlattenSeq(seqs) \o x
<1> DEFINE more == Append(seqs, x)
           n == Len(seqs)
<1>1. /\ more \in Seq(Seq(S)) /\ more # <<>> /\ Len(more) = n + 1
      /\ more[n + 1] = x /\ \A i \in 1..n : more[i] = seqs[i]
      /\ n \in Nat
    BY AppendProperties
<1> HIDE DEF more
<1>2. PICK g : Flattens(g, more, n + 1) /\ FlattenSeq(more) = g[n + 1]
    BY <1>1, FlattenIs
<1>3. g[n + 1] = IF n + 1 = 1 THEN more[n + 1] ELSE g[n] \o more[n + 1]
    <2>1. n + 1 \in 1..(n + 1) /\ n + 1 - 1 = n
        BY <1>1
    <2> QED BY <1>2, <2>1, FlattensAt
<1>4. CASE seqs = <<>>
    <2>1. n = 0 /\ FlattenSeq(seqs) = <<>>
        BY <1>4 DEF FlattenSeq
    <2>2. FlattenSeq(more) = x
        BY <1>1, <1>2, <1>3, <2>1
    <2> QED BY <2>1, <2>2 DEF more
<1>5. CASE seqs # <<>>
    <2>1. n # 0
        BY <1>5
    <2>2. PICK f : Flattens(f, seqs, n) /\ FlattenSeq(seqs) = f[n]
        BY <1>5, FlattenIs
    <2>4. g[n] = f[n]
        <3>1. PICK m \in Nat : m = n + 1
            BY <1>1
        <3>2. Agree(more, seqs, n)
            BY <1>1 DEF Agree
        <3>3. n \in Nat /\ n <= m /\ n # 0 /\ Flattens(g, more, m)
            BY <1>1, <1>2, <2>1, <3>1
        <3> HIDE DEF n
        <3> QED BY <2>2, <3>2, <3>3, FlattenAgrees
    <2>5. FlattenSeq(more) = f[n] \o x
        BY <1>1, <1>2, <1>3, <2>1, <2>4
    <2> QED BY <2>2, <2>5 DEF more
<1> QED BY <1>4, <1>5

------------------------------------------------------------------------------
(* Sums *)

\* The function that Total defines by recursion, up to n.
Sums(f, numbers, n) ==
    f = [i \in 0..n |-> IF i = 0 THEN 0 ELSE f[i - 1] + numbers[i]]

\* Its value at each number.
LEMMA SumsAt ==
    ASSUME NEW f, NEW numbers, NEW n, Sums(f, numbers, n), NEW i \in 0..n
    PROVE  f[i] = IF i = 0 THEN 0 ELSE f[i - 1] + numbers[i]
<1> DEFINE g == [j \in 0..n |-> IF j = 0 THEN 0 ELSE f[j - 1] + numbers[j]]
<1>1. f = g
    BY DEF Sums
<1>2. g[i] = IF i = 0 THEN 0 ELSE f[i - 1] + numbers[i]
    OBVIOUS
<1> QED
    BY ONLY <1>1, <1>2, Zenon

\* There is such a function.
LEMMA SumsExist ==
    ASSUME NEW numbers, NEW n \in Nat
    PROVE  \E f : Sums(f, numbers, n)
<1> DEFINE X == {m \in Nat : \E f : Sums(f, numbers, m)}
<1>1. 0 \in X
    <2> DEFINE g == [i \in 0..0 |-> 0]
    <2>1. g = [i \in 0..0 |-> IF i = 0 THEN 0 ELSE g[i - 1] + numbers[i]]
        OBVIOUS
    <2> HIDE DEF g
    <2>2. Sums(g, numbers, 0)
        BY <2>1 DEF Sums
    <2> QED BY <2>2
<1>2. ASSUME NEW m \in Nat, m \in X PROVE m + 1 \in X
    <2>1. PICK f : Sums(f, numbers, m)
        BY <1>2
    <2> DEFINE g == [i \in 0..(m + 1) |->
                        IF i = m + 1 THEN f[m] + numbers[i] ELSE f[i]]
    <2>2. ASSUME NEW i \in 0..(m + 1)
          PROVE  g[i] = IF i = 0 THEN 0 ELSE g[i - 1] + numbers[i]
        <3>1. CASE i = m + 1
            <4>1. i # 0 /\ i - 1 = m /\ m # m + 1 /\ m \in 0..(m + 1)
                BY <3>1
            <4>2. g[i - 1] = f[m]
                BY <4>1
            <4> QED BY <3>1, <4>1, <4>2
        <3>2. CASE i # m + 1
            <4>1. i \in 0..m
                BY <3>2
            <4>2. f[i] = IF i = 0 THEN 0 ELSE f[i - 1] + numbers[i]
                BY <2>1, <4>1, SumsAt
            <4>3. g[i] = f[i] /\ (i # 0 => g[i - 1] = f[i - 1])
                BY <3>2, <4>1
            <4> QED BY <4>2, <4>3
        <3> QED BY <3>1, <3>2
    <2>3. Sums(g, numbers, m + 1)
        <3>1. g = [i \in 0..(m + 1) |-> g[i]]
            OBVIOUS
        <3> HIDE DEF g
        <3> QED BY <2>2, <3>1 DEF Sums
    <2> QED BY <2>3
<1> HIDE DEF X
<1>3. n \in X
    BY <1>1, <1>2, NatInductive
<1> QED BY <1>3 DEF X

\* What Total is.
LEMMA TotalIs ==
    ASSUME NEW numbers \in Seq(Nat)
    PROVE  \E f : Sums(f, numbers, Len(numbers)) /\ Total(numbers) = f[Len(numbers)]
<1>1. Len(numbers) \in Nat
    OBVIOUS
<1> DEFINE f == CHOOSE f : Sums(f, numbers, Len(numbers))
<1>2. Sums(f, numbers, Len(numbers))
    BY <1>1, SumsExist
<1>3. Total(numbers) = f[Len(numbers)]
    BY DEF Total, Sums
<1> QED BY <1>2, <1>3

\* Nothing adds up to 0.
LEMMA TotalOfNone == Total(<<>>) = 0
<1>1. <<>> \in Seq(Nat) /\ Len(<<>>) = 0
    OBVIOUS
<1>2. PICK f : Sums(f, <<>>, 0) /\ Total(<<>>) = f[0]
    BY <1>1, TotalIs
<1>3. f[0] = 0
    BY <1>2, SumsAt
<1> QED BY <1>2, <1>3

\* On the numbers that two sequences share, the sums agree.
LEMMA SumsAgree ==
    ASSUME NEW s, NEW t, NEW m \in Nat, NEW k \in Nat, NEW f, NEW g,
           Sums(f, s, m), Sums(g, t, k), Agree(s, t, k), k <= m
    PROVE  f[k] = g[k]
<1> DEFINE X == {j \in Nat : j \in 0..k => f[j] = g[j]}
<1>1. 0 \in X
    <2>1. f[0] = 0 /\ g[0] = 0
        BY SumsAt
    <2> QED BY <2>1
<1>2. ASSUME NEW j \in Nat, j \in X PROVE j + 1 \in X
    <2> SUFFICES ASSUME j + 1 \in 0..k PROVE f[j + 1] = g[j + 1]
        OBVIOUS
    <2>1. /\ j + 1 \in 0..m /\ j + 1 - 1 = j /\ j + 1 # 0 /\ j \in 0..k
          /\ s[j + 1] = t[j + 1]
        BY DEF Agree
    <2>2. f[j + 1] = f[j] + s[j + 1]
        BY <2>1, SumsAt
    <2>3. g[j + 1] = g[j] + t[j + 1]
        BY <2>1, SumsAt
    <2>4. f[j] = g[j]
        BY <1>2, <2>1
    <2> QED BY <2>1, <2>2, <2>3, <2>4
<1> HIDE DEF X
<1>3. Nat \subseteq X
    BY <1>1, <1>2, NatInductive
<1> QED BY <1>3 DEF X

\* Natural numbers add up to one.
LEMMA TotalType ==
    ASSUME NEW numbers \in Seq(Nat)
    PROVE  Total(numbers) \in Nat
<1>1. Len(numbers) \in Nat
    OBVIOUS
<1>2. PICK f : Sums(f, numbers, Len(numbers)) /\ Total(numbers) = f[Len(numbers)]
    BY TotalIs
<1> DEFINE X == {j \in Nat : j \in 0..Len(numbers) => f[j] \in Nat}
<1>3. 0 \in X
    <2>1. f[0] = 0
        BY <1>1, <1>2, SumsAt
    <2> QED BY <2>1
<1>4. ASSUME NEW j \in Nat, j \in X PROVE j + 1 \in X
    <2> SUFFICES ASSUME j + 1 \in 0..Len(numbers) PROVE f[j + 1] \in Nat
        OBVIOUS
    <2>1. /\ j + 1 - 1 = j /\ j + 1 # 0 /\ j \in 0..Len(numbers)
          /\ numbers[j + 1] \in Nat
        OBVIOUS
    <2>2. f[j + 1] = f[j] + numbers[j + 1]
        BY <1>2, <2>1, SumsAt
    <2> QED BY <1>4, <2>1, <2>2
<1> HIDE DEF X
<1>5. Len(numbers) \in X
    BY <1>1, <1>3, <1>4, NatInductive
<1> QED BY <1>1, <1>2, <1>5 DEF X

\* One more number is added.
LEMMA TotalAppend ==
    ASSUME NEW numbers, numbers \in Seq(Nat), NEW x \in Nat
    PROVE  Total(Append(numbers, x)) = Total(numbers) + x
<1> DEFINE more == Append(numbers, x)
           n == Len(numbers)
<1>1. /\ more \in Seq(Nat) /\ Len(more) = n + 1
      /\ more[n + 1] = x /\ \A i \in 1..n : more[i] = numbers[i]
      /\ n \in Nat
    BY AppendProperties
<1> HIDE DEF more
<1>2. PICK g, m : /\ m \in Nat /\ m = n + 1
                  /\ Sums(g, more, m) /\ Total(more) = g[m]
    BY <1>1, TotalIs
<1>3. PICK f : Sums(f, numbers, n) /\ Total(numbers) = f[n]
    BY TotalIs
<1>4. g[m] = g[n] + x
    <2>1. m \in 0..m /\ m # 0 /\ m - 1 = n
        BY <1>1, <1>2
    <2> QED BY <1>1, <1>2, <2>1, SumsAt
<1>5. g[n] = f[n]
    <2>1. Agree(more, numbers, n)
        BY <1>1 DEF Agree
    <2> HIDE DEF n
    <2> QED BY <1>1, <1>2, <1>3, <2>1, SumsAgree
<1> QED BY <1>2, <1>3, <1>4, <1>5 DEF more

------------------------------------------------------------------------------
(* The largest and the smallest of a set of numbers *)

\* A set of natural numbers that is not empty and has a bound has a maximum.
LEMMA MaxExists ==
    ASSUME NEW S \in SUBSET Nat, S # {}, NEW n \in Nat, \A x \in S : x <= n
    PROVE  /\ Max(S) \in S
           /\ \A x \in S : x <= Max(S)
<1> DEFINE HasMax(T) == \E m \in T : \A x \in T : m >= x
           X == {b \in Nat : \A T \in SUBSET Nat :
                    T # {} /\ (\A x \in T : x <= b) => HasMax(T)}
<1>1. 0 \in X
    <2> SUFFICES ASSUME NEW T \in SUBSET Nat, T # {}, \A x \in T : x <= 0
                 PROVE  HasMax(T)
        OBVIOUS
    <2>1. PICK t \in T : TRUE
        OBVIOUS
    <2>2. t = 0 /\ \A x \in T : 0 >= x
        OBVIOUS
    <2> QED BY <2>2
<1>2. ASSUME NEW b \in Nat, b \in X PROVE b + 1 \in X
    <2> SUFFICES ASSUME NEW T \in SUBSET Nat, T # {}, \A x \in T : x <= b + 1
                 PROVE  HasMax(T)
        OBVIOUS
    <2>1. CASE b + 1 \in T
        BY <2>1
    <2>2. CASE b + 1 \notin T
        <3>1. \A x \in T : x <= b
            BY <2>2
        <3> QED BY <1>2, <3>1
    <2> QED BY <2>1, <2>2
<1> HIDE DEF X
<1>3. n \in X
    BY <1>1, <1>2, NatInductive
<1>4. HasMax(S)
    BY <1>3 DEF X
<1>5. Max(S) \in S /\ \A x \in S : Max(S) >= x
    BY <1>4 DEF Max
<1> QED BY <1>5

\* The maximum is the member that bounds the others.
LEMMA MaxIs ==
    ASSUME NEW S \in SUBSET Nat, NEW m \in S, \A x \in S : x <= m
    PROVE  Max(S) = m
<1>1. m \in Nat /\ S # {}
    OBVIOUS
<1>2. Max(S) \in S /\ \A x \in S : x <= Max(S)
    BY <1>1, MaxExists
<1>3. Max(S) \in Nat /\ Max(S) <= m /\ m <= Max(S)
    BY <1>2
<1> QED BY <1>1, <1>3

\* The numbers of a finite sequence have a bound.
LEMMA NumbersBounded ==
    ASSUME NEW n \in Nat, NEW f \in [1..n -> Nat]
    PROVE  \E b \in Nat : \A i \in 1..n : f[i] <= b
<1> DEFINE X == {m \in Nat : m <= n => \E b \in Nat : \A i \in 1..m : f[i] <= b}
<1>1. 0 \in X
    OBVIOUS
<1>2. ASSUME NEW m \in Nat, m \in X PROVE m + 1 \in X
    <2> SUFFICES ASSUME m + 1 <= n
                 PROVE  \E b \in Nat : \A i \in 1..(m + 1) : f[i] <= b
        OBVIOUS
    <2>1. PICK b \in Nat : \A i \in 1..m : f[i] <= b
        BY <1>2
    <2>2. f[m + 1] \in Nat
        OBVIOUS
    <2>3. PICK c \in Nat : c >= b /\ c >= f[m + 1]
        BY <2>1, <2>2
    <2>4. \A i \in 1..m : f[i] \in Nat
        OBVIOUS
    <2>5. \A i \in 1..(m + 1) : f[i] <= c
        BY <2>1, <2>2, <2>3, <2>4
    <2> QED BY <2>5
<1> HIDE DEF X
<1>3. n \in X
    BY <1>1, <1>2, NatInductive
<1> QED BY <1>3 DEF X

\* A set of natural numbers that is not empty has a minimum.
LEMMA MinExists ==
    ASSUME NEW S \in SUBSET Nat, S # {}
    PROVE  /\ Min(S) \in S
           /\ \A x \in S : Min(S) <= x
<1> DEFINE Less == OpToRel(<, Nat)
<1>1. IsWellFoundedOn(Less, Nat)
    BY NatLessThanWellFounded
<1>2. PICK n \in S : \A m \in S : <<m, n>> \notin Less
    <2> HIDE DEF Less
    <2> QED BY <1>1, WFMin, Zenon
<1>3. ASSUME NEW m \in S PROVE n <= m
    <2>1. ~(m < n)
        BY <1>2 DEF OpToRel
    <2> QED BY <2>1
<1> QED BY <1>3 DEF Min

\* The smaller of two numbers.
LEMMA MinOfTwo ==
    ASSUME NEW a \in Int, NEW b \in Int
    PROVE  Min({a, b}) = IF a <= b THEN a ELSE b
BY DEF Min

\* A set of integers that is not empty and has a lower bound has a minimum.
LEMMA IntMinExists ==
    ASSUME NEW S \in SUBSET Int, S # {}, NEW b \in Int, \A x \in S : b <= x
    PROVE  /\ Min(S) \in S
           /\ \A x \in S : Min(S) <= x
<1> DEFINE T == {x - b : x \in S}
<1>1. T \in SUBSET Nat /\ T # {}
    <2>1. \A x \in S : x \in Int /\ x - b \in Nat
        OBVIOUS
    <2> QED BY <2>1
<1>2. PICK t \in T : \A u \in T : t <= u
    <2> HIDE DEF T
    <2> QED BY <1>1, MinExists
<1>3. PICK m \in S : t = m - b
    BY <1>2
<1>4. ASSUME NEW x \in S PROVE m <= x
    <2>1. x - b \in T
        OBVIOUS
    <2>2. m - b <= x - b
        BY <1>2, <1>3, <2>1
    <2> HIDE DEF T
    <2> QED BY <2>2
<1> QED BY <1>4 DEF Min

\* One that has an upper bound has a maximum.
LEMMA IntMaxExists ==
    ASSUME NEW S \in SUBSET Int, S # {}, NEW b \in Int, \A x \in S : x <= b
    PROVE  /\ Max(S) \in S
           /\ \A x \in S : x <= Max(S)
<1> DEFINE T == {b - x : x \in S}
<1>1. T \in SUBSET Nat /\ T # {}
    <2>1. \A x \in S : x \in Int /\ b - x \in Nat
        OBVIOUS
    <2> QED BY <2>1
<1>2. PICK t \in T : \A u \in T : t <= u
    <2> HIDE DEF T
    <2> QED BY <1>1, MinExists
<1>3. PICK m \in S : t = b - m
    BY <1>2
<1>4. ASSUME NEW x \in S PROVE m >= x
    <2>1. b - x \in T
        OBVIOUS
    <2>2. b - m <= b - x
        BY <1>2, <1>3, <2>1
    <2> HIDE DEF T
    <2> QED BY <2>2
<1> QED BY <1>4 DEF Max

\* The integers of a finite sequence have bounds.
LEMMA IntegersBounded ==
    ASSUME NEW n \in Nat, NEW f \in [1..n -> Int]
    PROVE  \E b \in Nat : \A i \in 1..n : -b <= f[i] /\ f[i] <= b
<1> DEFINE g == [i \in 1..n |-> IF f[i] < 0 THEN -f[i] ELSE f[i]]
<1>1. g \in [1..n -> Nat]
    OBVIOUS
<1>2. PICK b \in Nat : \A i \in 1..n : g[i] <= b
    <2> HIDE DEF g
    <2> QED BY <1>1, NumbersBounded
<1>3. ASSUME NEW i \in 1..n PROVE -b <= f[i] /\ f[i] <= b
    <2>1. f[i] \in Int /\ (IF f[i] < 0 THEN -f[i] ELSE f[i]) <= b
        BY <1>2
    <2> QED BY <2>1
<1> QED BY <1>3

\* The minimum of a number and of those of a sequence bounds them all.
LEMMA MinOfSequence ==
    ASSUME NEW m \in Int, NEW s \in Seq(Int)
    PROVE  /\ Min({m} \cup Range(s)) \in Int
           /\ Min({m} \cup Range(s)) \in {m} \cup Range(s)
           /\ Min({m} \cup Range(s)) <= m
           /\ \A i \in DOMAIN s : Min({m} \cup Range(s)) <= s[i]
<1>1. Len(s) \in Nat /\ s \in [1..Len(s) -> Int] /\ DOMAIN s = 1..Len(s)
    OBVIOUS
<1>2. PICK b \in Nat : \A i \in 1..Len(s) : -b <= s[i] /\ s[i] <= b
    BY <1>1, IntegersBounded
<1>3. PICK S : S = {m} \cup Range(s)
    OBVIOUS
<1>4. S \in SUBSET Int /\ m \in S /\ \A i \in DOMAIN s : s[i] \in S
    BY <1>1, <1>3 DEF Range
<1>5. PICK c \in Int : c <= -b /\ c <= m
    <2>1. CASE m <= -b
        BY <2>1
    <2>2. CASE ~(m <= -b)
        BY <2>2
    <2> QED BY <2>1, <2>2
<1>6. ASSUME NEW x \in S PROVE c <= x
    <2>1. x = m \/ \E i \in DOMAIN s : x = s[i]
        BY <1>3 DEF Range
    <2> QED BY <2>1, <1>1, <1>2, <1>5
<1>7. Min(S) \in S /\ \A x \in S : Min(S) <= x
    BY <1>4, <1>5, <1>6, IntMinExists
<1> QED BY <1>3, <1>4, <1>7

\* The maximum too.
LEMMA MaxOfSequence ==
    ASSUME NEW m \in Int, NEW s \in Seq(Int)
    PROVE  /\ Max({m} \cup Range(s)) \in Int
           /\ Max({m} \cup Range(s)) \in {m} \cup Range(s)
           /\ m <= Max({m} \cup Range(s))
           /\ \A i \in DOMAIN s : s[i] <= Max({m} \cup Range(s))
<1>1. Len(s) \in Nat /\ s \in [1..Len(s) -> Int] /\ DOMAIN s = 1..Len(s)
    OBVIOUS
<1>2. PICK b \in Nat : \A i \in 1..Len(s) : -b <= s[i] /\ s[i] <= b
    BY <1>1, IntegersBounded
<1>3. PICK S : S = {m} \cup Range(s)
    OBVIOUS
<1>4. S \in SUBSET Int /\ m \in S /\ \A i \in DOMAIN s : s[i] \in S
    BY <1>1, <1>3 DEF Range
<1>5. PICK c \in Int : b <= c /\ m <= c
    <2>1. CASE m <= b
        BY <2>1
    <2>2. CASE ~(m <= b)
        BY <2>2
    <2> QED BY <2>1, <2>2
<1>6. ASSUME NEW x \in S PROVE x <= c
    <2>1. x = m \/ \E i \in DOMAIN s : x = s[i]
        BY <1>3 DEF Range
    <2> QED BY <2>1, <1>1, <1>2, <1>5
<1>7. Max(S) \in S /\ \A x \in S : x <= Max(S)
    BY <1>4, <1>5, <1>6, IntMaxExists
<1> QED BY <1>3, <1>4, <1>7

------------------------------------------------------------------------------
(* Induction over the members of a sequence that refer to earlier ones *)

\* A set that has a place whenever it has all places before it has them all.
LEMMA StrongInduction ==
    ASSUME NEW n \in Nat, NEW X,
           \A k \in 1..n : 1..(k - 1) \subseteq X => k \in X
    PROVE  1..n \subseteq X
<1> DEFINE Y == {m \in Nat : m <= n => 1..m \subseteq X}
<1>1. 0 \in Y
    OBVIOUS
<1>2. ASSUME NEW m \in Nat, m \in Y PROVE m + 1 \in Y
    <2> SUFFICES ASSUME m + 1 <= n PROVE 1..(m + 1) \subseteq X
        OBVIOUS
    <2>1. m + 1 \in 1..n /\ (m + 1) - 1 = m /\ 1..m \subseteq X
        BY <1>2
    <2>2. m + 1 \in X
        BY <2>1
    <2> QED BY <2>1, <2>2
<1> HIDE DEF Y
<1>3. n \in Y
    BY <1>1, <1>2, NatInductive
<1> QED BY <1>3 DEF Y
===============================================================================
