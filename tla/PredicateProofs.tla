--------------------------- MODULE PredicateProofs ---------------------------
(***************************************************************************)
(* Proofs about Predicate, for predicates of any size and depth, batches   *)
(* of any width and row groups of any length and content: the mask of a    *)
(* batch is the set of its rows that satisfy the predicate, the verdict of *)
(* the indexes agrees with the rows, and sorting the operands changes      *)
(* neither.                                                                *)
(*                                                                         *)
(* All are inductions over the structs of a predicate, in the order in     *)
(* which they are made, operands first: what holds of the answers of the   *)
(* operands of a struct holds of its own.                                  *)
(***************************************************************************)
EXTENDS Predicate, SequenceLemmas

------------------------------------------------------------------------------
(* The structs of a predicate and their answers *)

\* A sequence that is not empty has a member.
LEMMA SomeMember ==
    ASSUME NEW T, NEW s \in Seq(T), s # <<>>
    PROVE  DOMAIN s # {}
<1>1. Len(s) \in Nat /\ DOMAIN s = 1..Len(s)
    OBVIOUS
<1>2. Len(s) # 0
    BY EmptySeq
<1>3. 1 \in DOMAIN s
    BY <1>1, <1>2
<1> QED BY <1>3

\* A predicate has a root, and operands come before their operator.
LEMMA TreeFacts ==
    ASSUME NEW p, IsTree(p)
    PROVE  /\ Len(p) \in Nat \ {0} /\ DOMAIN p = 1..Len(p)
           /\ \A k \in DOMAIN p :
                  /\ IsNode(p[k])
                  /\ p[k].operands \in Seq(1..(k - 1))
                  /\ p[k].type \in Operators <=> p[k].operands # <<>>
                  /\ DOMAIN p[k].operands = 1..Len(p[k].operands)
                  /\ \A i \in DOMAIN p[k].operands : p[k].operands[i] \in 1..(k - 1)
<1>1. p \in Seq(Range(p)) /\ p # <<>>
    BY DEF IsTree
<1>2. Len(p) \in Nat \ {0} /\ DOMAIN p = 1..Len(p)
    <2>1. Len(p) \in Nat /\ DOMAIN p = 1..Len(p)
        BY <1>1
    <2>2. Len(p) # 0
        BY <1>1, EmptySeq
    <2> QED BY <2>1, <2>2
<1>3. ASSUME NEW k \in DOMAIN p
      PROVE  /\ IsNode(p[k])
             /\ p[k].operands \in Seq(1..(k - 1))
             /\ p[k].type \in Operators <=> p[k].operands # <<>>
    BY DEF IsTree
<1>4. ASSUME NEW k \in DOMAIN p
      PROVE  /\ DOMAIN p[k].operands = 1..Len(p[k].operands)
             /\ \A i \in DOMAIN p[k].operands : p[k].operands[i] \in 1..(k - 1)
    <2>1. PICK s, T : s = p[k].operands /\ T = 1..(k - 1)
        OBVIOUS
    <2>2. s \in Seq(T)
        BY <1>3, <2>1
    <2>3. DOMAIN s = 1..Len(s) /\ \A i \in DOMAIN s : s[i] \in T
        BY <2>2
    <2> QED BY <2>1, <2>3
<1> QED BY <1>2, <1>3, <1>4

\* The answers of the operands of a struct depend on those of the structs
\* before it only.
LEMMA OperandsAgree ==
    ASSUME NEW p, IsTree(p), NEW k \in DOMAIN p, NEW f, NEW h,
           \A j \in 1..(k - 1) : f[j] = h[j]
    PROVE  OfOperands(p, k, f) = OfOperands(p, k, h)
<1>1. \A i \in DOMAIN p[k].operands : p[k].operands[i] \in 1..(k - 1)
    BY TreeFacts
<1>2. \A i \in DOMAIN p[k].operands : f[p[k].operands[i]] = h[p[k].operands[i]]
    BY <1>1
<1> QED BY <1>2 DEF OfOperands

\* The three recursions over a predicate: its masks, its verdicts, its meaning.
Answer(which, node, g, answers) ==
    CASE which = "rows"    -> NodeRows(node, g, answers)
      [] which = "verdict" -> NodeVerdict(node, g, answers)
      [] which = "meaning" -> NodeMeaning(node, g, answers)

\* f has the answers of the first m structs.
Answers(f, which, p, g, m) ==
    f = [k \in 1..m |-> Answer(which, p[k], g, OfOperands(p, k, f))]

\* Answers, one by one.
LEMMA AnswersAt ==
    ASSUME NEW f, NEW which, NEW p, NEW g, NEW m, Answers(f, which, p, g, m), NEW k \in 1..m
    PROVE  f[k] = Answer(which, p[k], g, OfOperands(p, k, f))
<1> DEFINE e(i) == Answer(which, p[i], g, OfOperands(p, i, f))
<1>1. f = [i \in 1..m |-> e(i)]
    BY DEF Answers
<1> HIDE DEF e
<1>2. f[k] = e(k)
    BY <1>1
<1> QED BY <1>2 DEF e

\* A predicate has answers.
LEMMA AnswersExist ==
    ASSUME NEW which, NEW p, IsTree(p), NEW g
    PROVE  \E f : Answers(f, which, p, g, Len(p))
<1> DEFINE X == {m \in Nat : m <= Len(p) => \E f : Answers(f, which, p, g, m)}
<1>0. Len(p) \in Nat /\ DOMAIN p = 1..Len(p)
    BY TreeFacts
<1>1. 0 \in X
    <2>1. Answers([k \in 1..0 |-> 0], which, p, g, 0)
        BY DEF Answers
    <2> QED BY <2>1
<1>2. ASSUME NEW m \in Nat, m \in X PROVE m + 1 \in X
    <2> SUFFICES ASSUME m + 1 <= Len(p)
                 PROVE  \E f : Answers(f, which, p, g, m + 1)
        OBVIOUS
    <2>1. PICK f : Answers(f, which, p, g, m)
        BY <1>0, <1>2
    <2>2. PICK last : last = Answer(which, p[m + 1], g, OfOperands(p, m + 1, f))
        OBVIOUS
    <2> DEFINE h == [k \in 1..(m + 1) |-> IF k = m + 1 THEN last ELSE f[k]]
    <2>3. \A j \in 1..m : h[j] = f[j]
        OBVIOUS
    <2>4. h[m + 1] = last /\ DOMAIN h = 1..(m + 1)
        OBVIOUS
    <2>5. h = [k \in 1..(m + 1) |-> h[k]]
        OBVIOUS
    <2> HIDE DEF h
    <2>6. ASSUME NEW k \in 1..(m + 1)
          PROVE  h[k] = Answer(which, p[k], g, OfOperands(p, k, h))
        <3>1. k \in DOMAIN p /\ \A j \in 1..(k - 1) : f[j] = h[j]
            BY <1>0, <2>3
        <3>2. OfOperands(p, k, f) = OfOperands(p, k, h)
            BY <3>1, OperandsAgree
        <3>3. CASE k = m + 1
            BY <2>2, <2>4, <3>2, <3>3
        <3>4. CASE k # m + 1
            <4>1. k \in 1..m
                BY <3>4
            <4>2. f[k] = Answer(which, p[k], g, OfOperands(p, k, f))
                BY <2>1, <4>1, AnswersAt
            <4> QED BY <2>3, <3>2, <4>1, <4>2
        <3> QED BY <3>3, <3>4
    <2>7. h = [k \in 1..(m + 1) |-> Answer(which, p[k], g, OfOperands(p, k, h))]
        BY <2>5, <2>6
    <2> QED BY <2>7 DEF Answers
<1> HIDE DEF X
<1>3. Len(p) \in X
    BY <1>0, <1>1, <1>2, NatInductive
<1> QED BY <1>0, <1>3 DEF X

\* What cx_index_match_rows gives back.
LEMMA MatchRowsIs ==
    ASSUME NEW p, IsTree(p), NEW g
    PROVE  \E f : /\ \A k \in DOMAIN p : f[k] = NodeRows(p[k], g, OfOperands(p, k, f))
                  /\ MatchRows(p, g) = f[Len(p)]
<1> DEFINE f == CHOOSE f : f = [k \in DOMAIN p |-> NodeRows(p[k], g, OfOperands(p, k, f))]
<1>0. DOMAIN p = 1..Len(p)
    BY TreeFacts
<1>1. PICK h : Answers(h, "rows", p, g, Len(p))
    BY AnswersExist
<1>2. h = [k \in DOMAIN p |-> NodeRows(p[k], g, OfOperands(p, k, h))]
    BY <1>0, <1>1 DEF Answers, Answer
<1>3. f = [k \in DOMAIN p |-> NodeRows(p[k], g, OfOperands(p, k, f))]
    BY <1>2
<1>4. MatchRows(p, g) = f[Len(p)]
    BY DEF MatchRows
<1> HIDE DEF f
<1>5. Answers(f, "rows", p, g, Len(p))
    BY <1>0, <1>3 DEF Answers, Answer
<1>6. ASSUME NEW k \in DOMAIN p PROVE f[k] = NodeRows(p[k], g, OfOperands(p, k, f))
    <2>1. f[k] = Answer("rows", p[k], g, OfOperands(p, k, f))
        BY <1>0, <1>5, AnswersAt
    <2> QED BY <2>1 DEF Answer
<1> QED BY <1>4, <1>6

\* What cx_index_match_indexes gives back.
LEMMA MatchIndexesIs ==
    ASSUME NEW p, IsTree(p), NEW g
    PROVE  \E f : /\ \A k \in DOMAIN p : f[k] = NodeVerdict(p[k], g, OfOperands(p, k, f))
                  /\ MatchIndexes(p, g) = f[Len(p)]
<1> DEFINE f == CHOOSE f : f = [k \in DOMAIN p |-> NodeVerdict(p[k], g, OfOperands(p, k, f))]
<1>0. DOMAIN p = 1..Len(p)
    BY TreeFacts
<1>1. PICK h : Answers(h, "verdict", p, g, Len(p))
    BY AnswersExist
<1>2. h = [k \in DOMAIN p |-> NodeVerdict(p[k], g, OfOperands(p, k, h))]
    BY <1>0, <1>1 DEF Answers, Answer
<1>3. f = [k \in DOMAIN p |-> NodeVerdict(p[k], g, OfOperands(p, k, f))]
    BY <1>2
<1>4. MatchIndexes(p, g) = f[Len(p)]
    BY DEF MatchIndexes
<1> HIDE DEF f
<1>5. Answers(f, "verdict", p, g, Len(p))
    BY <1>0, <1>3 DEF Answers, Answer
<1>6. ASSUME NEW k \in DOMAIN p PROVE f[k] = NodeVerdict(p[k], g, OfOperands(p, k, f))
    <2>1. f[k] = Answer("verdict", p[k], g, OfOperands(p, k, f))
        BY <1>0, <1>5, AnswersAt
    <2> QED BY <2>1 DEF Answer
<1> QED BY <1>4, <1>6

\* What a predicate means.
LEMMA MeaningIs ==
    ASSUME NEW p, IsTree(p), NEW g
    PROVE  \E f : /\ \A k \in DOMAIN p : f[k] = NodeMeaning(p[k], g, OfOperands(p, k, f))
                  /\ Meaning(p, g) = f[Len(p)]
<1> DEFINE f == CHOOSE f : f = [k \in DOMAIN p |-> NodeMeaning(p[k], g, OfOperands(p, k, f))]
<1>0. DOMAIN p = 1..Len(p)
    BY TreeFacts
<1>1. PICK h : Answers(h, "meaning", p, g, Len(p))
    BY AnswersExist
<1>2. h = [k \in DOMAIN p |-> NodeMeaning(p[k], g, OfOperands(p, k, h))]
    BY <1>0, <1>1 DEF Answers, Answer
<1>3. f = [k \in DOMAIN p |-> NodeMeaning(p[k], g, OfOperands(p, k, f))]
    BY <1>2
<1>4. Meaning(p, g) = f[Len(p)]
    BY DEF Meaning
<1> HIDE DEF f
<1>5. Answers(f, "meaning", p, g, Len(p))
    BY <1>0, <1>3 DEF Answers, Answer
<1>6. ASSUME NEW k \in DOMAIN p PROVE f[k] = NodeMeaning(p[k], g, OfOperands(p, k, f))
    <2>1. f[k] = Answer("meaning", p[k], g, OfOperands(p, k, f))
        BY <1>0, <1>5, AnswersAt
    <2> QED BY <2>1 DEF Answer
<1> QED BY <1>4, <1>6

------------------------------------------------------------------------------
(* Row groups *)

\* The values and the nulls of a column that is there.
LEMMA ColumnFacts ==
    ASSUME NEW g, IsRowGroup(g), NEW c \in DOMAIN g.columns
    PROVE  /\ g.rows \in Nat
           /\ g.columns[c].type \in {"i32", "bit", "str"}
           /\ g.columns[c].values \in Seq(ValuesOf(g.columns[c].type))
           /\ g.columns[c].nulls \in Seq({0, 1})
           /\ Len(g.columns[c].values) = g.rows /\ Len(g.columns[c].nulls) = g.rows
BY DEF IsRowGroup

\* The value of a row.
LEMMA ValueOfRow ==
    ASSUME NEW g, IsRowGroup(g), NEW c \in DOMAIN g.columns, NEW row \in 0..(g.rows - 1)
    PROVE  /\ row + 1 \in DOMAIN g.columns[c].values
           /\ g.columns[c].values[row + 1] \in ValuesOf(g.columns[c].type)
           /\ row + 1 \in DOMAIN g.columns[c].nulls
           /\ g.columns[c].nulls[row + 1] \in {0, 1}
           /\ g.columns[c].type = "i32" => g.columns[c].values[row + 1] \in Int
           /\ g.columns[c].type = "bit" => g.columns[c].values[row + 1] \in {0, 1}
           /\ g.columns[c].type = "str" => g.columns[c].values[row + 1] \in Seq(Int)
<1>1. PICK values, nulls, T : /\ values = g.columns[c].values
                              /\ nulls = g.columns[c].nulls
                              /\ T = ValuesOf(g.columns[c].type)
    OBVIOUS
<1>2. /\ g.rows \in Nat /\ values \in Seq(T) /\ nulls \in Seq({0, 1})
      /\ Len(values) = g.rows /\ Len(nulls) = g.rows
    BY <1>1, ColumnFacts
<1>3. g.rows \in Int /\ row + 1 \in 1..g.rows
    BY <1>2
<1>4. /\ row + 1 \in DOMAIN values /\ values[row + 1] \in T
      /\ row + 1 \in DOMAIN nulls /\ nulls[row + 1] \in {0, 1}
    BY <1>2, <1>3
<1> QED BY <1>1, <1>4 DEF ValuesOf

------------------------------------------------------------------------------
(* The mask of a batch *)

\* A batch is a row group of no more rows than a mask has bits.
IsBatch(g) == IsRowGroup(g) /\ g.rows <= Width

\* What the answer of cx_index_match_rows, if it succeeds, has to do with the rows
\* that satisfy the predicate; it succeeds where no struct has a cause to fail.
Exact(r, rows, g, sound) ==
    /\ r.ok \in BOOLEAN
    /\ rows \subseteq 0..(g.rows - 1)
    /\ r.ok => r.mask = rows /\ r.count = g.rows
    /\ sound => r.ok

\* The answers of the operands of a struct are exact.
AllExact(results, answers, g, sound) ==
    /\ \E n \in Nat : DOMAIN results = 1..n
    /\ DOMAIN results = DOMAIN answers
    /\ \A i \in DOMAIN results : Exact(results[i], answers[i], g, sound)

\* The rows of a row group that satisfy a predicate, but for its negation.
Satisfied(node, g, answers) ==
    {row \in 0..(g.rows - 1) : Satisfies(node, g, answers, row)}

\* A mask has a bit for each row of a batch.
LEMMA RowsFit ==
    ASSUME NEW g, IsBatch(g)
    PROVE  /\ Width \in Nat /\ g.rows \in 0..Width /\ g.rows \in Int
           /\ 0..(g.rows - 1) \subseteq FullMask
           /\ Cap(FullMask, g.rows) = 0..(g.rows - 1)
<1>1. Width \in Nat /\ g.rows \in 0..Width
    <2>1. Width \in Nat /\ g.rows \in Nat /\ g.rows <= Width
        BY PredicateAssumption DEF IsBatch, IsRowGroup
    <2> QED BY <2>1
<1>2. PICK n \in 0..Width : n = g.rows
    BY <1>1
<1>3. 0..(n - 1) \subseteq 0..(Width - 1)
    BY <1>1
<1> QED BY <1>1, <1>2, <1>3 DEF FullMask, Cap

\* The loop of an AND over its operands, given where it ends.
LEMMA AndLoop ==
    ASSUME NEW g, IsBatch(g), NEW results, NEW answers, NEW sound,
           AllExact(results, answers, g, sound), results # <<>>, NEW node, node.type = "AND"
    PROVE  Exact(AndRows(results), Satisfied(node, g, answers), g, sound)
<1> DEFINE mask(n) == {i \in FullMask : \A k \in 1..n : i \in results[k].mask}
           Ends == {n \in DOMAIN results :
                        ~results[n].ok \/ mask(n) = {} \/ n = Len(results)}
           last == Min(Ends)
<1>1. PICK n \in Nat \ {0} : DOMAIN results = 1..n /\ Len(results) = n
    <2>1. PICK n \in Nat : DOMAIN results = 1..n
        BY DEF AllExact
    <2> QED BY <2>1
<1>2. last \in Ends /\ \A k \in Ends : last <= k
    <2>1. n \in Ends /\ Ends \in SUBSET Nat
        BY <1>1
    <2> HIDE DEF Ends
    <2> QED BY <2>1, MinExists
<1>3. last \in 1..n /\ \A k \in 1..n : k < last => results[k].ok
    <2>1. last \in 1..n
        BY <1>1, <1>2
    <2>2. ASSUME NEW k \in 1..n, k < last, ~results[k].ok PROVE FALSE
        <3>1. k \in Ends
            BY <1>1, <2>2
        <3>2. last <= k
            BY <1>2, <3>1
        <3> HIDE DEF last
        <3> QED BY <2>1, <2>2, <3>2
    <2> QED BY <2>1, <2>2
<1>4. AndRows(results) = IF results[last].ok THEN Result(mask(last), results[last].count)
                                             ELSE Failure
    BY DEF AndRows
<1>5. Satisfied(node, g, answers) =
          {row \in 0..(g.rows - 1) : \A i \in 1..n : row \in answers[i]}
    BY <1>1 DEF Satisfied, Satisfies, AllExact, Comparisons
<1>6. \A k \in 1..n : Exact(results[k], answers[k], g, sound)
    BY <1>1 DEF AllExact
<1>7. CASE results[last].ok
    <2>1. \A k \in 1..last : k \in 1..n /\ results[k].mask = answers[k]
        <3> HIDE DEF last
        <3> QED BY <1>3, <1>6, <1>7 DEF Exact
    <2>2. results[last].count = g.rows
        <3> HIDE DEF last
        <3> QED BY <1>3, <1>6, <1>7 DEF Exact
    <2>3. mask(last) = {i \in FullMask : \A k \in 1..last : i \in answers[k]}
        <3> HIDE DEF last
        <3> QED BY <2>1
    <2>4. \A k \in 1..n : answers[k] \subseteq 0..(g.rows - 1)
        BY <1>6 DEF Exact
    <2>5. mask(last) = Satisfied(node, g, answers)
        <3>1. mask(last) = {} \/ last = n
            BY <1>1, <1>2, <1>7
        <3> HIDE DEF last, mask
        <3>2. 0..(g.rows - 1) \subseteq FullMask
            BY RowsFit
        <3>3. CASE last = n
            <4>1. 1 \in 1..n
                BY <1>1
            <4>2. mask(last) \subseteq 0..(g.rows - 1)
                BY <2>3, <2>4, <3>3, <4>1
            <4> QED BY <1>5, <2>3, <3>2, <3>3, <4>2
        <3>4. CASE mask(last) = {}
            <4>1. ASSUME NEW row \in Satisfied(node, g, answers) PROVE FALSE
                <5>1. row \in FullMask /\ \A k \in 1..last : row \in answers[k]
                    BY <1>3, <1>5, <2>1, <3>2
                <5> QED BY <2>3, <3>4, <5>1
            <4> QED BY <3>4, <4>1
        <3> QED BY <3>1, <3>3, <3>4
    <2> HIDE DEF last, mask
    <2> QED BY <1>4, <1>5, <1>7, <2>2, <2>5 DEF Exact, Result
<1>8. CASE ~results[last].ok
    <2> HIDE DEF last, mask
    <2>1. ~sound
        BY <1>3, <1>6, <1>8 DEF Exact
    <2> QED BY <1>4, <1>5, <1>8, <2>1 DEF Exact, Failure
<1> HIDE DEF last
<1> QED BY <1>7, <1>8

\* The loop of an OR.
LEMMA OrLoop ==
    ASSUME NEW g, IsBatch(g), NEW results, NEW answers, NEW sound,
           AllExact(results, answers, g, sound), results # <<>>, NEW node, node.type = "OR"
    PROVE  Exact(OrRows(results), Satisfied(node, g, answers), g, sound)
<1> DEFINE mask(n) == {i \in FullMask : \E k \in 1..n : i \in results[k].mask}
           Ends == {n \in DOMAIN results :
                        ~results[n].ok \/ mask(n) = FullMask \/ n = Len(results)}
           last == Min(Ends)
<1>1. PICK n \in Nat \ {0} : DOMAIN results = 1..n /\ Len(results) = n
    <2>1. PICK n \in Nat : DOMAIN results = 1..n
        BY DEF AllExact
    <2> QED BY <2>1
<1>2. last \in Ends /\ \A k \in Ends : last <= k
    <2>1. n \in Ends /\ Ends \in SUBSET Nat
        BY <1>1
    <2> HIDE DEF Ends
    <2> QED BY <2>1, MinExists
<1>3. last \in 1..n /\ \A k \in 1..n : k < last => results[k].ok
    <2>1. last \in 1..n
        BY <1>1, <1>2
    <2>2. ASSUME NEW k \in 1..n, k < last, ~results[k].ok PROVE FALSE
        <3>1. k \in Ends
            BY <1>1, <2>2
        <3>2. last <= k
            BY <1>2, <3>1
        <3> HIDE DEF last
        <3> QED BY <2>1, <2>2, <3>2
    <2> QED BY <2>1, <2>2
<1>4. OrRows(results) = IF results[last].ok THEN Result(mask(last), results[last].count)
                                            ELSE Failure
    BY DEF OrRows
<1>5. Satisfied(node, g, answers) =
          {row \in 0..(g.rows - 1) : \E i \in 1..n : row \in answers[i]}
    BY <1>1 DEF Satisfied, Satisfies, AllExact, Comparisons
<1>6. \A k \in 1..n : Exact(results[k], answers[k], g, sound)
    BY <1>1 DEF AllExact
<1>7. CASE results[last].ok
    <2>1. \A k \in 1..last : k \in 1..n /\ results[k].mask = answers[k]
        <3> HIDE DEF last
        <3> QED BY <1>3, <1>6, <1>7 DEF Exact
    <2>2. results[last].count = g.rows
        <3> HIDE DEF last
        <3> QED BY <1>3, <1>6, <1>7 DEF Exact
    <2>3. mask(last) = {i \in FullMask : \E k \in 1..last : i \in answers[k]}
        <3> HIDE DEF last
        <3> QED BY <2>1
    <2>4. \A k \in 1..n : answers[k] \subseteq 0..(g.rows - 1)
        BY <1>6 DEF Exact
    <2>5. mask(last) = Satisfied(node, g, answers)
        <3>1. mask(last) = FullMask \/ last = n
            BY <1>1, <1>2, <1>7
        <3> HIDE DEF last, mask
        <3>2. 0..(g.rows - 1) \subseteq FullMask
            BY RowsFit
        <3>3. mask(last) \subseteq Satisfied(node, g, answers)
            BY <1>5, <2>1, <2>3, <2>4
        <3>4. CASE last = n
            BY <1>5, <2>3, <3>2, <3>3, <3>4
        <3>5. CASE mask(last) = FullMask
            BY <1>5, <3>2, <3>3, <3>5
        <3> QED BY <3>1, <3>4, <3>5
    <2> HIDE DEF last, mask
    <2> QED BY <1>4, <1>5, <1>7, <2>2, <2>5 DEF Exact, Result
<1>8. CASE ~results[last].ok
    <2> HIDE DEF last, mask
    <2>1. ~sound
        BY <1>3, <1>6, <1>8 DEF Exact
    <2> QED BY <1>4, <1>5, <1>8, <2>1 DEF Exact, Failure
<1> HIDE DEF last
<1> QED BY <1>7, <1>8

\* The comparison loops take the rows that satisfy a comparison of numbers or
\* bits.
LEMMA NumberMask ==
    ASSUME NEW g, IsBatch(g), NEW node, IsNode(node), ValidNode(node, g),
           node.type \in Comparisons, node.column_type # "str", NEW answers
    PROVE  LeafMask(node, g) = Satisfied(node, g, answers)
<1> DEFINE column == g.columns[node.column]
           value(i) == column.values[i + 1]
<1>1. /\ node.column \in DOMAIN g.columns
      /\ node.column_type = column.type
      /\ column.type \in {"i32", "bit"}
      /\ node.type \in {"EQ", "LT", "GT"}
      /\ column.type = "bit" => node.type = "EQ"
    BY ColumnFacts DEF IsBatch, ValidNode, Comparisons, Operators
<1>2. node.value \in Int /\ (column.type = "bit" => node.value \in {0, 1})
    BY <1>1 DEF IsNode
<1>3. ASSUME NEW i \in 0..(g.rows - 1)
      PROVE  value(i) \in Int /\ (column.type = "bit" => value(i) \in {0, 1})
    BY <1>1, <1>3, ValueOfRow DEF IsBatch
<1>4. NaN \notin Int /\ node.value # NaN
    BY <1>2, PredicateAssumption
<1>5. ASSUME NEW i \in 0..(g.rows - 1)
      PROVE  /\ value(i) # NaN
             /\ Compare(node.type, value(i), node.value)
                    <=> Satisfies(node, g, answers, i)
    <2>1. value(i) \in Int /\ value(i) # NaN
        BY <1>3, <1>4
    <2>2. Compare(node.type, value(i), node.value)
              <=> CASE node.type = "EQ" -> value(i) = node.value
                    [] node.type = "LT" -> value(i) < node.value
                    [] node.type = "GT" -> value(i) > node.value
        <3> HIDE DEF value, column
        <3> QED BY <1>1, <1>2, <1>4, <2>1 DEF Compare, Equal, Below
    <2>3. Satisfies(node, g, answers, i)
              <=> CASE node.type = "EQ" -> value(i) = node.value
                    [] node.type = "LT" -> value(i) < node.value
                    [] node.type = "GT" -> value(i) > node.value
        BY <1>1 DEF Satisfies, Comparisons
    <2> QED BY <2>1, <2>2, <2>3
<1>6. {i \in 0..(g.rows - 1) : Compare(node.type, value(i), node.value)}
          = Satisfied(node, g, answers)
    <2> HIDE DEF value
    <2> QED BY <1>5 DEF Satisfied
<1>7. CASE node.type = "EQ" /\ node.column_type = "bit" /\ node.value = 0
    <2>1. LeafMask(node, g) =
              Cap(FullMask \ {i \in 0..(g.rows - 1) : Compare("EQ", value(i), 1)}, g.rows)
        BY <1>7 DEF LeafMask
    <2>2. ASSUME NEW i \in 0..(g.rows - 1)
          PROVE  Compare("EQ", value(i), 1) <=> ~Compare(node.type, value(i), node.value)
        <3>1. value(i) \in {0, 1} /\ value(i) # NaN /\ 1 # NaN /\ 0 # NaN
            BY <1>1, <1>3, <1>4, <1>5, <1>7
        <3> HIDE DEF value
        <3> QED BY <1>7, <3>1 DEF Compare, Equal
    <2>3. 0..(g.rows - 1) \subseteq FullMask
        BY RowsFit
    <2>4. LeafMask(node, g) =
              {i \in 0..(g.rows - 1) : Compare(node.type, value(i), node.value)}
        <3> HIDE DEF value
        <3> QED BY <2>1, <2>2, <2>3 DEF Cap
    <2> QED BY <1>6, <2>4
<1>8. CASE ~(node.type = "EQ" /\ node.column_type = "bit" /\ node.value = 0)
    <2>1. LeafMask(node, g) = {i \in 0..(g.rows - 1) : Compare(node.type, value(i), node.value)}
        BY <1>1, <1>8 DEF LeafMask
    <2> QED BY <1>6, <2>1
<1> QED BY <1>7, <1>8

\* And those that satisfy a comparison of strings, or a custom predicate.
LEMMA OtherMask ==
    ASSUME NEW g, NEW node, NEW answers,
           node.type = "CUSTOM" \/ (node.type \in Comparisons /\ node.column_type = "str")
    PROVE  LeafMask(node, g) = Satisfied(node, g, answers)
<1>1. CASE node.type = "CUSTOM"
    BY <1>1 DEF LeafMask, Satisfied, Satisfies, Comparisons
<1>2. CASE node.type \in Comparisons /\ node.column_type = "str"
    <2>1. node.type # "CUSTOM" /\ node.type # "TRUE" /\ node.type # "NULL"
        BY <1>2 DEF Comparisons
    <2>2. LeafMask(node, g) = {i \in 0..(g.rows - 1) :
              CompareStr(node.type, g.columns[node.column].values[i + 1], node.value)}
        BY <1>2, <2>1 DEF LeafMask
    <2>3. ASSUME NEW i
          PROVE  Satisfies(node, g, answers, i)
                     <=> CompareStr(node.type, g.columns[node.column].values[i + 1], node.value)
        BY <1>2, <2>1 DEF Satisfies, Comparisons
    <2> QED BY <2>2, <2>3 DEF Satisfied
<1> QED BY <1>1, <1>2

\* The answer of a struct is exact, but for its negation.
LEMMA PositiveExact ==
    ASSUME NEW g, IsBatch(g), NEW node, IsNode(node), ValidNode(node, g),
           NEW results, NEW answers, NEW sound, AllExact(results, answers, g, sound),
           node.type \in Operators => results # <<>>,
           sound => ~HasCause(node, g)
    PROVE  Exact(Positive(node, g, results), Satisfied(node, g, answers), g, sound)
<1>0. /\ node.type \in {"TRUE", "NULL", "CUSTOM"} \cup Comparisons \cup Operators
      /\ Satisfied(node, g, answers) \subseteq 0..(g.rows - 1)
    BY DEF IsNode, Satisfied
<1>1. CASE node.type = "TRUE"
    <2>1. Positive(node, g, results) = Result(0..(g.rows - 1), g.rows)
        BY <1>1, RowsFit DEF Positive, Comparisons
    <2>2. Satisfied(node, g, answers) = 0..(g.rows - 1)
        BY <1>1 DEF Satisfied, Satisfies, Comparisons
    <2> QED BY <2>1, <2>2 DEF Exact, Result
<1>2. CASE node.type = "NULL"
    <2>1. Satisfied(node, g, answers) =
              {row \in 0..(g.rows - 1) : g.columns[node.column].nulls[row + 1] = 1}
        BY <1>2 DEF Satisfied, Satisfies, Comparisons
    <2>2. Positive(node, g, results) = IF node.column \in g.broken THEN Failure
                                       ELSE Result(Satisfied(node, g, answers), g.rows)
        BY <1>2, <2>1 DEF Positive, Comparisons
    <2>3. sound => node.column \notin g.broken
        BY <1>2 DEF HasCause, Operators
    <2> QED BY <1>0, <2>2, <2>3 DEF Exact, Result, Failure
<1>3. CASE node.type = "AND"
    BY <1>3, AndLoop DEF Positive, Operators, Comparisons
<1>4. CASE node.type = "OR"
    BY <1>4, OrLoop DEF Positive, Operators, Comparisons
<1>5. CASE node.type \in Comparisons \cup {"CUSTOM"}
    <2>1. ~Unsupported(node, g)
        BY <1>5 DEF Unsupported, ValidNode, Comparisons, Operators
    <2>2. LeafMask(node, g) = Satisfied(node, g, answers)
        BY <1>5, NumberMask, OtherMask
    <2>3. Positive(node, g, results) =
              IF node.column \in g.broken \/ CallerFails(node, g) THEN Failure
              ELSE Result(Satisfied(node, g, answers), g.rows)
        BY <1>5, <2>1, <2>2 DEF Positive, Comparisons
    <2>4. sound => node.column \notin g.broken /\ ~CallerFails(node, g)
        BY <1>5 DEF HasCause, Operators, Comparisons
    <2> QED BY <1>0, <2>3, <2>4 DEF Exact, Result, Failure
<1> QED BY <1>0, <1>1, <1>2, <1>3, <1>4, <1>5 DEF Operators

\* The answer of a struct is exact when those of its operands are.
LEMMA NodeExact ==
    ASSUME NEW g, IsBatch(g), NEW node, IsNode(node), ValidNode(node, g),
           NEW results, NEW answers, NEW sound, AllExact(results, answers, g, sound),
           node.type \in Operators => results # <<>>,
           sound => ~HasCause(node, g)
    PROVE  Exact(NodeRows(node, g, results), NodeMeaning(node, g, answers), g, sound)
<1>1. PICK r, S : r = Positive(node, g, results) /\ S = Satisfied(node, g, answers)
    OBVIOUS
<1>2. Exact(r, S, g, sound)
    BY <1>1, PositiveExact
<1>3. NodeRows(node, g, results) =
          IF r.ok /\ node.negate THEN Result(Cap(FullMask \ r.mask, r.count), r.count) ELSE r
    BY <1>1 DEF NodeRows
<1>4. NodeMeaning(node, g, answers) = IF node.negate THEN (0..(g.rows - 1)) \ S ELSE S
    BY <1>1 DEF NodeMeaning, Satisfied
<1>5. CASE r.ok /\ node.negate
    <2>1. 0..(g.rows - 1) \subseteq FullMask /\ r.mask = S /\ r.count = g.rows
        BY <1>2, <1>5, RowsFit DEF Exact
    <2>2. Cap(FullMask \ r.mask, r.count) = (FullMask \ S) \cap 0..(g.rows - 1)
        BY <2>1 DEF Cap
    <2>3. (FullMask \ S) \cap 0..(g.rows - 1) = (0..(g.rows - 1)) \ S
        BY <2>1
    <2>4. /\ NodeRows(node, g, results) = Result((0..(g.rows - 1)) \ S, g.rows)
          /\ NodeMeaning(node, g, answers) = (0..(g.rows - 1)) \ S
        BY <1>3, <1>4, <1>5, <2>1, <2>2, <2>3
    <2> QED BY <2>4 DEF Exact, Result
<1>6. CASE ~(r.ok /\ node.negate)
    BY <1>2, <1>3, <1>4, <1>6 DEF Exact
<1> QED BY <1>5, <1>6

\* No struct of a predicate has a cause to fail on a batch.
NoCause(p, g) == \A k \in DOMAIN p : ~HasCause(p[k], g)

\* The mask of a predicate is exact, in any batch it suits, and there is one where
\* no struct has a cause to fail.
LEMMA MaskOfPredicate ==
    ASSUME NEW p, IsTree(p), NEW g, IsBatch(g), Valid(p, g)
    PROVE  Exact(MatchRows(p, g), Meaning(p, g), g, NoCause(p, g))
<1>1. PICK f : /\ \A k \in DOMAIN p : f[k] = NodeRows(p[k], g, OfOperands(p, k, f))
               /\ MatchRows(p, g) = f[Len(p)]
    BY MatchRowsIs
<1>2. PICK h : /\ \A k \in DOMAIN p : h[k] = NodeMeaning(p[k], g, OfOperands(p, k, h))
               /\ Meaning(p, g) = h[Len(p)]
    BY MeaningIs
<1>0. PICK sound : sound = NoCause(p, g)
    OBVIOUS
<1> DEFINE X == {k \in DOMAIN p : Exact(f[k], h[k], g, sound)}
<1>3. Len(p) \in Nat \ {0} /\ DOMAIN p = 1..Len(p)
    BY TreeFacts
<1>4. ASSUME NEW k \in 1..Len(p), 1..(k - 1) \subseteq X PROVE k \in X
    <2>1. /\ IsNode(p[k]) /\ ValidNode(p[k], g)
          /\ p[k].operands \in Seq(1..(k - 1))
          /\ p[k].type \in Operators => p[k].operands # <<>>
          /\ DOMAIN p[k].operands = 1..Len(p[k].operands)
          /\ \A i \in DOMAIN p[k].operands : p[k].operands[i] \in 1..(k - 1)
        BY <1>3, TreeFacts DEF Valid
    <2>2. PICK results, answers : /\ results = OfOperands(p, k, f)
                                  /\ answers = OfOperands(p, k, h)
        OBVIOUS
    <2>3. Len(p[k].operands) \in Nat
        <3>1. PICK s, T : s = p[k].operands /\ s \in Seq(T)
            BY <2>1
        <3> QED BY <3>1
    <2>4. AllExact(results, answers, g, sound)
        <3>1. /\ DOMAIN results = DOMAIN p[k].operands
              /\ DOMAIN answers = DOMAIN p[k].operands
              /\ \A i \in DOMAIN results : /\ results[i] = f[p[k].operands[i]]
                                           /\ answers[i] = h[p[k].operands[i]]
            BY <2>2 DEF OfOperands
        <3>2. \A i \in DOMAIN results : p[k].operands[i] \in X
            BY <1>4, <2>1, <3>1
        <3>3. \A i \in DOMAIN results : Exact(results[i], answers[i], g, sound)
            BY <3>1, <3>2
        <3> QED BY <2>1, <2>3, <3>1, <3>3 DEF AllExact
    <2>5. p[k].type \in Operators => results # <<>>
        <3>1. DOMAIN results = DOMAIN p[k].operands
            BY <2>2 DEF OfOperands
        <3>2. ASSUME p[k].operands # <<>> PROVE DOMAIN p[k].operands # {}
            BY <2>1, <3>2, SomeMember
        <3> QED BY <2>1, <3>1, <3>2
    <2>6. sound => ~HasCause(p[k], g)
        BY <1>0, <1>3 DEF NoCause
    <2>7. Exact(NodeRows(p[k], g, results), NodeMeaning(p[k], g, answers), g, sound)
        BY <2>1, <2>4, <2>5, <2>6, NodeExact
    <2> QED BY <1>1, <1>2, <1>3, <2>2, <2>7
<1> HIDE DEF X
<1>5. Len(p) \in X
    <2>1. 1..Len(p) \subseteq X
        BY <1>3, <1>4, StrongInduction
    <2> QED BY <1>3, <2>1
<1> QED BY <1>0, <1>1, <1>2, <1>5 DEF X

------------------------------------------------------------------------------
(* The verdict of the indexes *)

\* An index bounds the values it is made of.
LEMMA IndexBounds ==
    ASSUME NEW values \in Seq(Int), NEW maximum \in Int
    PROVE  /\ IndexOf(values, maximum).min \in Int
           /\ IndexOf(values, maximum).max \in Int
           /\ \A i \in DOMAIN values : /\ IndexOf(values, maximum).min <= values[i]
                                       /\ values[i] <= IndexOf(values, maximum).max
<1>1. PICK least, most : /\ least = Min({maximum} \cup Range(values))
                         /\ most = Max({0} \cup Range(values))
    OBVIOUS
<1>2. least \in Int /\ \A i \in DOMAIN values : least <= values[i]
    BY <1>1, MinOfSequence
<1>3. PICK zero \in Int : zero = 0
    OBVIOUS
<1>4. most \in Int /\ \A i \in DOMAIN values : values[i] <= most
    BY <1>1, <1>3, MaxOfSequence
<1> QED BY <1>1, <1>2, <1>4 DEF IndexOf

\* That of numbers between 0 and a maximum is between them too.
LEMMA IndexOfBits ==
    ASSUME NEW values \in Seq({0, 1})
    PROVE  /\ IndexOf(values, 1).min \in {0, 1}
           /\ IndexOf(values, 1).max \in {0, 1}
           /\ \A i \in DOMAIN values : /\ IndexOf(values, 1).min <= values[i]
                                       /\ values[i] <= IndexOf(values, 1).max
<1>1. values \in Seq(Int) /\ \A i \in DOMAIN values : values[i] \in {0, 1}
    OBVIOUS
<1>2. Min({1} \cup Range(values)) \in {1} \cup Range(values)
    <2>1. PICK one \in Int : one = 1
        OBVIOUS
    <2>2. Min({one} \cup Range(values)) \in {one} \cup Range(values)
        BY <1>1, MinOfSequence
    <2> QED BY <2>1, <2>2
<1>3. Max({0} \cup Range(values)) \in {0} \cup Range(values)
    <2>1. PICK zero \in Int : zero = 0
        OBVIOUS
    <2>2. Max({zero} \cup Range(values)) \in {zero} \cup Range(values)
        BY <1>1, MaxOfSequence
    <2> QED BY <2>1, <2>2
<1>4. Range(values) \subseteq {0, 1}
    BY <1>1 DEF Range
<1>5. IndexOf(values, 1).min \in {0, 1} /\ IndexOf(values, 1).max \in {0, 1}
    BY <1>2, <1>3, <1>4 DEF IndexOf
<1> QED BY <1>1, <1>5, IndexBounds

\* What the index of a column of numbers or bits says of the value of a row.
LEMMA ColumnBounds ==
    ASSUME NEW g, IsRowGroup(g), NEW c \in DOMAIN g.columns, g.columns[c].type # "str",
           NEW row \in 0..(g.rows - 1)
    PROVE  /\ ColumnIndex(g, c).min \in Int /\ ColumnIndex(g, c).max \in Int
           /\ g.columns[c].values[row + 1] \in Int
           /\ ColumnIndex(g, c).min <= g.columns[c].values[row + 1]
           /\ g.columns[c].values[row + 1] <= ColumnIndex(g, c).max
<1>1. PICK values, maximum :
          /\ values = g.columns[c].values
          /\ maximum = IF g.columns[c].type = "bit" THEN 1 ELSE 2147483647
    OBVIOUS
<1>2. values \in Seq(Int) /\ maximum \in Int
    <2>1. g.columns[c].type \in {"i32", "bit"} /\ values \in Seq(ValuesOf(g.columns[c].type))
        BY <1>1, ColumnFacts
    <2>2. CASE g.columns[c].type = "i32"
        BY <1>1, <2>1, <2>2 DEF ValuesOf
    <2>3. CASE g.columns[c].type = "bit"
        <3>1. values \in Seq({0, 1})
            BY <2>1, <2>3 DEF ValuesOf
        <3>2. values \in Seq(Int)
            BY <3>1
        <3> QED BY <1>1, <2>3, <3>2
    <2> QED BY <2>1, <2>2, <2>3
<1>3. ColumnIndex(g, c) = IndexOf(values, maximum)
    BY <1>1 DEF ColumnIndex
<1>4. row + 1 \in DOMAIN values
    BY <1>1, ValueOfRow
<1>5. values[row + 1] \in Int
    BY <1>2, <1>4
<1> QED BY <1>1, <1>2, <1>3, <1>4, <1>5, IndexBounds

\* The index of a column of strings bounds their lengths.
LEMMA LengthBounds ==
    ASSUME NEW g, IsRowGroup(g), NEW c \in DOMAIN g.columns, g.columns[c].type = "str",
           NEW row \in 0..(g.rows - 1)
    PROVE  /\ ColumnIndex(g, c).min \in Int /\ ColumnIndex(g, c).max \in Int
           /\ g.columns[c].values[row + 1] \in Seq(Int)
           /\ ColumnIndex(g, c).min <= Len(g.columns[c].values[row + 1])
           /\ Len(g.columns[c].values[row + 1]) <= ColumnIndex(g, c).max
<1>1. PICK values, strings : /\ values = g.columns[c].values
                             /\ strings = Seq(Int)
    OBVIOUS
<1>2. values \in Seq(strings)
    BY <1>1, ColumnFacts DEF ValuesOf
<1>3. PICK lengths : lengths = [i \in DOMAIN values |-> Len(values[i])]
    OBVIOUS
<1>4. lengths \in Seq(Int) /\ DOMAIN lengths = DOMAIN values
    <2>1. DOMAIN values = 1..Len(values) /\ Len(values) \in Nat
        BY <1>2
    <2>2. ASSUME NEW i \in DOMAIN values PROVE Len(values[i]) \in Int
        <3>1. values[i] \in strings
            BY <1>2
        <3> QED BY <1>1, <3>1
    <2>3. lengths \in [1..Len(values) -> Int]
        BY <1>3, <2>1, <2>2
    <2> QED BY <1>3, <2>1, <2>3
<1>5. ColumnIndex(g, c) = IndexOf(lengths, 2147483647)
    BY <1>1, <1>3 DEF ColumnIndex
<1>6. row + 1 \in DOMAIN values /\ values[row + 1] \in Seq(Int)
    BY <1>1, ValueOfRow
<1>7. lengths[row + 1] = Len(values[row + 1])
    BY <1>3, <1>6
<1>8. 2147483647 \in Int
    OBVIOUS
<1> QED BY <1>1, <1>4, <1>5, <1>6, <1>7, <1>8, IndexBounds

\* What the verdict on a row group has to do with the rows that satisfy the
\* predicate.
Agrees(verdict, rows, g) ==
    /\ verdict \in {NONE, UNKNOWN, ALL}
    /\ verdict = NONE => rows = {}
    /\ verdict = ALL => rows = 0..(g.rows - 1)

\* The verdicts on the operands of a struct agree with the rows.
AllAgree(verdicts, answers, g) ==
    /\ \E n \in Nat : DOMAIN verdicts = 1..n /\ verdicts \in [1..n -> {NONE, UNKNOWN, ALL}]
    /\ DOMAIN verdicts = DOMAIN answers
    /\ \A i \in DOMAIN verdicts : Agrees(verdicts[i], answers[i], g)

\* A verdict that is right for every row agrees with them.
LEMMA AgreesByRows ==
    ASSUME NEW g, NEW node, NEW answers, NEW verdict \in {NONE, UNKNOWN, ALL},
           \A row \in 0..(g.rows - 1) :
               /\ verdict = NONE => ~Satisfies(node, g, answers, row)
               /\ verdict = ALL => Satisfies(node, g, answers, row)
    PROVE  Agrees(verdict, Satisfied(node, g, answers), g)
BY DEF Agrees, Satisfied, NONE, UNKNOWN, ALL

\* The verdict on a comparison of numbers or bits.
LEMMA NumberVerdict ==
    ASSUME NEW g, IsRowGroup(g), NEW node, IsNode(node), ValidNode(node, g),
           node.type \in Comparisons, node.column_type # "str", NEW answers
    PROVE  Agrees(LeafVerdict(node, g), Satisfied(node, g, answers), g)
<1>1. PICK index, v, c : /\ index = ColumnIndex(g, node.column)
                         /\ v = node.value /\ c = node.column
    OBVIOUS
<1>2. /\ c \in DOMAIN g.columns
      /\ node.column_type = g.columns[c].type
      /\ g.columns[c].type \in {"i32", "bit"}
      /\ node.type \in {"EQ", "LT", "GT"}
      /\ g.columns[c].type = "bit" => node.type = "EQ"
    BY <1>1, ColumnFacts DEF ValidNode, Comparisons, Operators
<1>3. v \in Int /\ (g.columns[c].type = "bit" => v \in {0, 1}) /\ NaN \notin Int
    BY <1>1, <1>2, PredicateAssumption DEF IsNode
<1>4. LeafVerdict(node, g) = CASE node.type = "EQ" /\ g.columns[c].type = "bit" -> MatchBitEq(index, v)
                               [] node.type = "EQ" /\ g.columns[c].type = "i32" -> MatchEq(index, v)
                               [] node.type = "LT" /\ g.columns[c].type = "i32" -> MatchLt(index, v)
                               [] node.type = "GT" /\ g.columns[c].type = "i32" -> MatchGt(index, v)
    BY <1>1, <1>2 DEF LeafVerdict
<1>5. LeafVerdict(node, g) \in {NONE, UNKNOWN, ALL}
    BY <1>2, <1>4 DEF MatchBitEq, MatchEq, MatchLt, MatchGt
<1>6. ASSUME NEW row \in 0..(g.rows - 1)
      PROVE  /\ LeafVerdict(node, g) = NONE => ~Satisfies(node, g, answers, row)
             /\ LeafVerdict(node, g) = ALL => Satisfies(node, g, answers, row)
    <2>1. PICK x : x = g.columns[c].values[row + 1]
        OBVIOUS
    <2>2. /\ index.min \in Int /\ index.max \in Int /\ x \in Int
          /\ index.min <= x /\ x <= index.max
        BY <1>1, <1>2, <2>1, ColumnBounds
    <2>3. g.columns[c].type = "bit" => x \in {0, 1}
        BY <1>2, <2>1, ValueOfRow
    <2>4. Satisfies(node, g, answers, row) <=> CASE node.type = "EQ" -> x = v
                                                 [] node.type = "LT" -> x < v
                                                 [] node.type = "GT" -> x > v
        BY <1>1, <1>2, <2>1 DEF Satisfies, Comparisons
    <2>5. CASE node.type = "EQ" /\ g.columns[c].type = "bit"
        <3>1. LeafVerdict(node, g) = MatchBitEq(index, v)
            BY <1>4, <2>5
        <3>2. Satisfies(node, g, answers, row) <=> x = v
            BY <2>4, <2>5
        <3> QED BY <1>3, <2>2, <2>3, <2>5, <3>1, <3>2 DEF MatchBitEq, NONE, UNKNOWN, ALL
    <2>6. CASE node.type = "EQ" /\ g.columns[c].type = "i32"
        <3>1. LeafVerdict(node, g) = MatchEq(index, v)
            BY <1>4, <2>6
        <3>2. Satisfies(node, g, answers, row) <=> x = v
            BY <2>4, <2>6
        <3> QED BY <1>3, <2>2, <3>1, <3>2 DEF MatchEq, Below, Equal, NONE, UNKNOWN, ALL
    <2>7. CASE node.type = "LT"
        <3>1. LeafVerdict(node, g) = MatchLt(index, v)
            BY <1>2, <1>4, <2>7
        <3>2. Satisfies(node, g, answers, row) <=> x < v
            BY <2>4, <2>7
        <3> QED BY <1>3, <2>2, <3>1, <3>2 DEF MatchLt, Below, Equal, NONE, UNKNOWN, ALL
    <2>8. CASE node.type = "GT"
        <3>1. LeafVerdict(node, g) = MatchGt(index, v)
            BY <1>2, <1>4, <2>8
        <3>2. Satisfies(node, g, answers, row) <=> x > v
            BY <2>4, <2>8
        <3> QED BY <1>3, <2>2, <3>1, <3>2 DEF MatchGt, Below, Equal, NONE, UNKNOWN, ALL
    <2> QED BY <1>2, <2>5, <2>6, <2>7, <2>8
<1> QED BY <1>5, <1>6, AgreesByRows

\* Folding a string keeps its length.
LEMMA FoldedLength ==
    ASSUME NEW s \in Seq(Int)
    PROVE  Folded(s) \in Seq(Int) /\ Len(Folded(s)) = Len(s)
<1>1. Len(s) \in Nat /\ DOMAIN s = 1..Len(s) /\ \A i \in DOMAIN s : s[i] \in Int
    OBVIOUS
<1>2. \A i \in DOMAIN s : (IF s[i] < 0 THEN -s[i] ELSE s[i]) \in Int
    BY <1>1
<1>3. Folded(s) \in [1..Len(s) -> Int]
    BY <1>1, <1>2 DEF Folded
<1> QED BY <1>1, <1>3

\* A string is not contained in a shorter one.
LEMMA ContainedIsShorter ==
    ASSUME NEW a \in Seq(Int), NEW b \in Seq(Int), NEW location \in {"ANY", "START", "END"},
           StrContains(a, b, location)
    PROVE  Len(b) <= Len(a)
<1>0. Len(a) \in Nat /\ Len(b) \in Nat
    OBVIOUS
<1>1. CASE location = "ANY"
    <2>1. PICK i \in 1..(Len(a) + 1) : IsPrefix(b, SubSeq(a, i, Len(a)))
        BY <1>1 DEF StrContains
    <2>2. Len(SubSeq(a, i, Len(a))) <= Len(a)
        <3>1. Len(SubSeq(a, i, Len(a))) = IF i <= Len(a) THEN Len(a) - i + 1 ELSE 0
            BY <1>0, SubSeqProperties
        <3> QED BY <1>0, <3>1
    <2>3. Len(b) <= Len(SubSeq(a, i, Len(a)))
        BY <2>1 DEF IsPrefix
    <2>4. PICK n : n = Len(SubSeq(a, i, Len(a)))
        OBVIOUS
    <2>5. n \in Int
        <3>1. n = IF i <= Len(a) THEN Len(a) - i + 1 ELSE 0
            BY <1>0, <2>4, SubSeqProperties
        <3> QED BY <1>0, <3>1
    <2> QED BY <1>0, <2>2, <2>3, <2>4, <2>5
<1>2. CASE location = "START"
    BY <1>2 DEF StrContains, IsPrefix
<1>3. CASE location = "END"
    <2>1. Len(Reverse(b)) <= Len(Reverse(a))
        BY <1>3 DEF StrContains, IsSuffix, IsPrefix
    <2>2. Len(Reverse(b)) = Len(b) /\ Len(Reverse(a)) = Len(a)
        BY <1>0 DEF Reverse
    <2> QED BY <2>1, <2>2
<1> QED BY <1>1, <1>2, <1>3

\* The verdict on a comparison of strings.
LEMMA StringVerdict ==
    ASSUME NEW g, IsRowGroup(g), NEW node, IsNode(node), ValidNode(node, g),
           node.type \in Comparisons, node.column_type = "str", NEW answers
    PROVE  Agrees(LeafVerdict(node, g), Satisfied(node, g, answers), g)
<1>1. PICK index, v, c : /\ index = ColumnIndex(g, node.column)
                         /\ v = node.value /\ c = node.column
    OBVIOUS
<1>2. /\ c \in DOMAIN g.columns
      /\ g.columns[c].type = "str"
      /\ node.type \in {"EQ", "LT", "GT", "CONTAINS"}
    BY <1>1 DEF ValidNode, Comparisons, Operators
<1>3. v.str \in Seq(Int) /\ v.location \in {"ANY", "START", "END"}
    BY <1>1 DEF IsNode
<1>4. LeafVerdict(node, g) = CASE node.type = "EQ" -> MatchStrEq(index, Len(v.str))
                               [] node.type = "CONTAINS" -> MatchStrContains(index, Len(v.str))
                               [] node.type \in {"LT", "GT"} -> UNKNOWN
    BY <1>1, <1>2 DEF LeafVerdict
<1>5. /\ LeafVerdict(node, g) \in {NONE, UNKNOWN, ALL}
      /\ LeafVerdict(node, g) # ALL
    BY <1>2, <1>4 DEF MatchStrEq, MatchStrContains, NONE, UNKNOWN, ALL
<1>6. ASSUME NEW row \in 0..(g.rows - 1), Satisfies(node, g, answers, row)
      PROVE  LeafVerdict(node, g) # NONE
    <2>1. PICK x : x = g.columns[c].values[row + 1]
        OBVIOUS
    <2>2. /\ index.min \in Int /\ index.max \in Int /\ x \in Seq(Int)
          /\ index.min <= Len(x) /\ Len(x) <= index.max
        BY <1>1, <1>2, <2>1, LengthBounds
    <2>3. CompareStr(node.type, x, v)
        BY <1>1, <1>2, <1>6, <2>1 DEF Satisfies, Comparisons
    <2>4. PICK a, b : /\ a = IF v.case_sensitive THEN x ELSE Folded(x)
                      /\ b = IF v.case_sensitive THEN v.str ELSE Folded(v.str)
        OBVIOUS
    <2>5. a \in Seq(Int) /\ b \in Seq(Int) /\ Len(a) = Len(x) /\ Len(b) = Len(v.str)
        BY <1>3, <2>2, <2>4, FoldedLength
    <2>6. Len(v.str) \in Int /\ Len(x) \in Int
        BY <1>3, <2>2
    <2>7. CASE node.type = "EQ"
        <3>1. a = b
            BY <2>3, <2>4, <2>7 DEF CompareStr
        <3> QED BY <1>4, <2>2, <2>5, <2>6, <2>7, <3>1 DEF MatchStrEq, NONE, UNKNOWN
    <2>8. CASE node.type = "CONTAINS"
        <3>1. StrContains(a, b, v.location)
            BY <2>3, <2>4, <2>8 DEF CompareStr
        <3>2. Len(b) <= Len(a)
            BY <1>3, <2>5, <3>1, ContainedIsShorter
        <3> QED BY <1>4, <2>2, <2>5, <2>6, <2>8, <3>2 DEF MatchStrContains, NONE, UNKNOWN
    <2>9. CASE node.type \in {"LT", "GT"}
        BY <1>4, <2>9 DEF NONE, UNKNOWN
    <2> QED BY <1>2, <2>7, <2>8, <2>9
<1> QED BY <1>5, <1>6, AgreesByRows

\* The verdict on a null predicate, given the index of the nulls; on one that is
\* always true; and that of the caller's function.
LEMMA OtherVerdict ==
    ASSUME NEW g, IsRowGroup(g), NEW node, IsNode(node), ValidNode(node, g),
           node.type \in {"TRUE", "NULL", "CUSTOM"}, NEW answers,
           node.type = "NULL" => NullIndexOf(g, node.column) = NullBitsIndex(g, node.column)
    PROVE  Agrees(LeafVerdict(node, g), Satisfied(node, g, answers), g)
<1>0. PICK c : c = node.column /\ c \in DOMAIN g.columns
    BY DEF ValidNode
<1>1. CASE node.type = "TRUE"
    <2>1. LeafVerdict(node, g) = ALL
        BY <1>1 DEF LeafVerdict
    <2>2. \A row : Satisfies(node, g, answers, row)
        BY <1>1 DEF Satisfies, Comparisons
    <2> QED BY <2>1, <2>2 DEF Agrees, Satisfied, NONE, ALL
<1>2. CASE node.type = "NULL"
    <2>1. PICK nulls : nulls = g.columns[c].nulls /\ nulls \in Seq({0, 1})
        BY <1>0, ColumnFacts
    <2>2. PICK index : index = IndexOf(nulls, 1)
        OBVIOUS
    <2>3. LeafVerdict(node, g) = MatchBitEq(index, 1)
        BY <1>0, <1>2, <2>1, <2>2 DEF LeafVerdict, NullBitsIndex
    <2>4. LeafVerdict(node, g) \in {NONE, UNKNOWN, ALL}
        BY <2>3 DEF MatchBitEq
    <2>5. ASSUME NEW row \in 0..(g.rows - 1)
          PROVE  /\ LeafVerdict(node, g) = NONE => ~Satisfies(node, g, answers, row)
                 /\ LeafVerdict(node, g) = ALL => Satisfies(node, g, answers, row)
        <3>1. row + 1 \in DOMAIN nulls /\ nulls[row + 1] \in {0, 1}
            BY <1>0, <2>1, ValueOfRow
        <3>2. /\ index.min \in {0, 1} /\ index.max \in {0, 1}
              /\ index.min <= nulls[row + 1] /\ nulls[row + 1] <= index.max
            BY <2>1, <2>2, <3>1, IndexOfBits
        <3>3. Satisfies(node, g, answers, row) <=> nulls[row + 1] = 1
            BY <1>0, <1>2, <2>1 DEF Satisfies, Comparisons
        <3> QED BY <2>3, <3>1, <3>2, <3>3 DEF MatchBitEq, NONE, UNKNOWN, ALL
    <2> QED BY <2>4, <2>5, AgreesByRows
<1>3. CASE node.type = "CUSTOM"
    <2>1. PICK index, rows : index = ColumnIndex(g, c) /\ rows = node.value.rows
        OBVIOUS
    <2>2. LeafVerdict(node, g) = IF node.value.index THEN CallersVerdict(index, rows) ELSE UNKNOWN
        BY <1>0, <1>3, <2>1 DEF LeafVerdict
    <2>3. LeafVerdict(node, g) \in {NONE, UNKNOWN, ALL}
        BY <2>2 DEF CallersVerdict
    <2>4. ASSUME NEW row \in 0..(g.rows - 1), node.value.index
          PROVE  /\ LeafVerdict(node, g) = NONE => ~Satisfies(node, g, answers, row)
                 /\ LeafVerdict(node, g) = ALL => Satisfies(node, g, answers, row)
        <3>1. PICK x : x = g.columns[c].values[row + 1]
            OBVIOUS
        <3>2. g.columns[c].type # "str" /\ rows \subseteq Int
            BY <1>0, <1>3, <2>1, <2>4 DEF IsNode, ValidNode, Operators
        <3>3. /\ index.min \in Int /\ index.max \in Int /\ x \in Int
              /\ index.min <= x /\ x <= index.max
            BY <1>0, <2>1, <3>1, <3>2, ColumnBounds
        <3>4. Satisfies(node, g, answers, row) <=> x \in rows
            BY <1>0, <1>3, <2>1, <3>1 DEF Satisfies, Comparisons
        <3>5. PICK possible : possible = {y \in rows : index.min <= y /\ y <= index.max}
            OBVIOUS
        <3>6. LeafVerdict(node, g) = IF possible = {} THEN NONE
                                     ELSE IF index.min = index.max THEN ALL ELSE UNKNOWN
            BY <2>2, <2>4, <3>5 DEF CallersVerdict
        <3>7. ASSUME possible # {}, index.min = index.max PROVE x \in rows
            <4>1. PICK y \in rows : y \in Int /\ index.min <= y /\ y <= index.max
                BY <3>2, <3>5, <3>7
            <4>2. x = y
                BY <3>3, <3>7, <4>1
            <4> QED BY <4>1, <4>2
        <3>8. possible = {} => x \notin rows
            BY <3>3, <3>5
        <3> QED BY <3>4, <3>6, <3>7, <3>8 DEF NONE, UNKNOWN, ALL
    <2>5. CASE node.value.index
        BY <2>3, <2>4, <2>5, AgreesByRows
    <2>6. CASE ~node.value.index
        BY <2>2, <2>6, AgreesByRows DEF NONE, UNKNOWN, ALL
    <2> QED BY <2>5, <2>6
<1> QED BY <1>1, <1>2, <1>3

\* The verdict on a conjunction is the least of those on its operands.
LEMMA AndAgrees ==
    ASSUME NEW g, NEW verdicts, NEW answers, AllAgree(verdicts, answers, g),
           NEW node, node.type = "AND"
    PROVE  Agrees(AndVerdict(verdicts), Satisfied(node, g, answers), g)
<1>1. PICK n \in Nat : /\ DOMAIN verdicts = 1..n
                       /\ verdicts \in [1..n -> {NONE, UNKNOWN, ALL}]
    BY DEF AllAgree
<1>2. PICK all, v : all = ALL /\ v = AndVerdict(verdicts) /\ v = Min({all} \cup Range(verdicts))
    BY DEF AndVerdict
<1>3. verdicts \in Seq(Int) /\ all \in Int
    BY <1>1, <1>2 DEF NONE, UNKNOWN, ALL
<1>4. /\ v \in {all} \cup Range(verdicts)
      /\ v <= all
      /\ \A i \in DOMAIN verdicts : v <= verdicts[i]
    BY <1>2, <1>3, MinOfSequence
<1>5. /\ \A i \in DOMAIN verdicts : Agrees(verdicts[i], answers[i], g)
      /\ DOMAIN verdicts = DOMAIN answers
    BY DEF AllAgree
<1>6. v = all \/ \E i \in DOMAIN verdicts : v = verdicts[i]
    BY <1>4 DEF Range
<1>7. Satisfied(node, g, answers) =
          {row \in 0..(g.rows - 1) : \A i \in DOMAIN verdicts : row \in answers[i]}
    BY <1>5 DEF Satisfied, Satisfies, Comparisons
<1>8. v \in {NONE, UNKNOWN, ALL}
    BY <1>1, <1>2, <1>6
<1>9. v = NONE => Satisfied(node, g, answers) = {}
    <2> SUFFICES ASSUME v = NONE PROVE Satisfied(node, g, answers) = {}
        OBVIOUS
    <2>1. PICK i \in DOMAIN verdicts : verdicts[i] = NONE
        BY <1>2, <1>6 DEF NONE, ALL
    <2>2. answers[i] = {}
        BY <1>5, <2>1 DEF Agrees
    <2> QED BY <1>7, <2>2
<1>10. v = ALL => Satisfied(node, g, answers) = 0..(g.rows - 1)
    <2> SUFFICES ASSUME v = ALL PROVE Satisfied(node, g, answers) = 0..(g.rows - 1)
        OBVIOUS
    <2>1. ASSUME NEW i \in DOMAIN verdicts PROVE answers[i] = 0..(g.rows - 1)
        <3>1. ALL <= verdicts[i] /\ verdicts[i] \in {NONE, UNKNOWN, ALL}
            BY <1>1, <1>4
        <3>2. verdicts[i] = ALL
            BY <3>1 DEF NONE, UNKNOWN, ALL
        <3> QED BY <1>5, <3>2 DEF Agrees
    <2> QED BY <1>7, <2>1
<1> QED BY <1>2, <1>8, <1>9, <1>10 DEF Agrees

\* That on a disjunction is the greatest.
LEMMA OrAgrees ==
    ASSUME NEW g, NEW verdicts, NEW answers, AllAgree(verdicts, answers, g),
           NEW node, node.type = "OR"
    PROVE  Agrees(OrVerdict(verdicts), Satisfied(node, g, answers), g)
<1>1. PICK n \in Nat : /\ DOMAIN verdicts = 1..n
                       /\ verdicts \in [1..n -> {NONE, UNKNOWN, ALL}]
    BY DEF AllAgree
<1>2. PICK none, v : none = NONE /\ v = OrVerdict(verdicts) /\ v = Max({none} \cup Range(verdicts))
    BY DEF OrVerdict
<1>3. verdicts \in Seq(Int) /\ none \in Int
    BY <1>1, <1>2 DEF NONE, UNKNOWN, ALL
<1>4. /\ v \in {none} \cup Range(verdicts)
      /\ none <= v
      /\ \A i \in DOMAIN verdicts : verdicts[i] <= v
    BY <1>2, <1>3, MaxOfSequence
<1>5. /\ \A i \in DOMAIN verdicts : Agrees(verdicts[i], answers[i], g)
      /\ DOMAIN verdicts = DOMAIN answers
    BY DEF AllAgree
<1>6. v = none \/ \E i \in DOMAIN verdicts : v = verdicts[i]
    BY <1>4 DEF Range
<1>7. Satisfied(node, g, answers) =
          {row \in 0..(g.rows - 1) : \E i \in DOMAIN verdicts : row \in answers[i]}
    BY <1>5 DEF Satisfied, Satisfies, Comparisons
<1>8. v \in {NONE, UNKNOWN, ALL}
    BY <1>1, <1>2, <1>6
<1>9. v = ALL => Satisfied(node, g, answers) = 0..(g.rows - 1)
    <2> SUFFICES ASSUME v = ALL PROVE Satisfied(node, g, answers) = 0..(g.rows - 1)
        OBVIOUS
    <2>1. PICK i \in DOMAIN verdicts : verdicts[i] = ALL
        BY <1>2, <1>6 DEF NONE, ALL
    <2>2. answers[i] = 0..(g.rows - 1)
        BY <1>5, <2>1 DEF Agrees
    <2> QED BY <1>7, <2>2
<1>10. v = NONE => Satisfied(node, g, answers) = {}
    <2> SUFFICES ASSUME v = NONE PROVE Satisfied(node, g, answers) = {}
        OBVIOUS
    <2>1. ASSUME NEW i \in DOMAIN verdicts PROVE answers[i] = {}
        <3>1. verdicts[i] <= NONE /\ verdicts[i] \in {NONE, UNKNOWN, ALL}
            BY <1>1, <1>4
        <3>2. verdicts[i] = NONE
            BY <3>1 DEF NONE, UNKNOWN, ALL
        <3> QED BY <1>5, <3>2 DEF Agrees
    <2> QED BY <1>7, <2>1
<1> QED BY <1>2, <1>8, <1>9, <1>10 DEF Agrees

\* The verdict on a struct agrees with the rows when those on its operands do.
LEMMA NodeAgrees ==
    ASSUME NEW g, IsRowGroup(g), NEW node, IsNode(node), ValidNode(node, g),
           NEW verdicts, NEW answers, AllAgree(verdicts, answers, g),
           node.type = "NULL" => NullIndexOf(g, node.column) = NullBitsIndex(g, node.column)
    PROVE  Agrees(NodeVerdict(node, g, verdicts), NodeMeaning(node, g, answers), g)
<1>1. PICK v : v = CASE node.type = "AND" -> AndVerdict(verdicts)
                     [] node.type = "OR"  -> OrVerdict(verdicts)
                     [] node.type \notin Operators -> LeafVerdict(node, g)
    OBVIOUS
<1>2. PICK S : S = Satisfied(node, g, answers)
    OBVIOUS
<1>3. Agrees(v, S, g)
    <2>1. CASE node.type = "AND"
        BY <1>1, <1>2, <2>1, AndAgrees DEF Operators
    <2>2. CASE node.type = "OR"
        BY <1>1, <1>2, <2>2, OrAgrees DEF Operators
    <2>3. CASE node.type \in Comparisons
        <3>1. v = LeafVerdict(node, g)
            BY <1>1, <2>3 DEF Comparisons, Operators
        <3> QED BY <1>2, <2>3, <3>1, NumberVerdict, StringVerdict
    <2>4. CASE node.type \in {"TRUE", "NULL", "CUSTOM"}
        <3>1. v = LeafVerdict(node, g)
            BY <1>1, <2>4 DEF Operators
        <3> QED BY <1>2, <2>4, <3>1, OtherVerdict
    <2> QED BY <2>1, <2>2, <2>3, <2>4 DEF IsNode, Operators
<1>4. NodeVerdict(node, g, verdicts) =
          IF g.rows = 0 THEN NONE ELSE IF node.negate THEN -v ELSE v
    BY <1>1 DEF NodeVerdict
<1>5. NodeMeaning(node, g, answers) = IF node.negate THEN (0..(g.rows - 1)) \ S ELSE S
    BY <1>2 DEF NodeMeaning, Satisfied
<1>6. S \subseteq 0..(g.rows - 1)
    BY <1>2 DEF Satisfied
<1>7. CASE g.rows = 0
    <2>1. 0..(g.rows - 1) = {}
        BY <1>7
    <2> QED BY <1>4, <1>5, <1>6, <1>7, <2>1 DEF Agrees, NONE, ALL
<1>8. CASE g.rows # 0 /\ node.negate
    <2>1. v \in {NONE, UNKNOWN, ALL} /\ -v \in {NONE, UNKNOWN, ALL}
        BY <1>3 DEF Agrees, NONE, UNKNOWN, ALL
    <2>2. (-v = NONE => v = ALL) /\ (-v = ALL => v = NONE)
        BY <2>1 DEF NONE, UNKNOWN, ALL
    <2> QED BY <1>3, <1>4, <1>5, <1>8, <2>1, <2>2 DEF Agrees
<1>9. CASE g.rows # 0 /\ ~node.negate
    BY <1>3, <1>4, <1>5, <1>9
<1> QED BY <1>7, <1>8, <1>9

\* The verdict on a predicate agrees with the rows, in any row group it suits.
LEMMA VerdictOfPredicate ==
    ASSUME NEW p, IsTree(p), NEW g, IsRowGroup(g), Valid(p, g),
           \A k \in DOMAIN p : p[k].type = "NULL" =>
               NullIndexOf(g, p[k].column) = NullBitsIndex(g, p[k].column)
    PROVE  Agrees(MatchIndexes(p, g), Meaning(p, g), g)
<1>1. PICK f : /\ \A k \in DOMAIN p : f[k] = NodeVerdict(p[k], g, OfOperands(p, k, f))
               /\ MatchIndexes(p, g) = f[Len(p)]
    BY MatchIndexesIs
<1>2. PICK h : /\ \A k \in DOMAIN p : h[k] = NodeMeaning(p[k], g, OfOperands(p, k, h))
               /\ Meaning(p, g) = h[Len(p)]
    BY MeaningIs
<1> DEFINE X == {k \in DOMAIN p : Agrees(f[k], h[k], g)}
<1>3. Len(p) \in Nat \ {0} /\ DOMAIN p = 1..Len(p)
    BY TreeFacts
<1>4. ASSUME NEW k \in 1..Len(p), 1..(k - 1) \subseteq X PROVE k \in X
    <2>1. /\ IsNode(p[k]) /\ ValidNode(p[k], g)
          /\ p[k].operands \in Seq(1..(k - 1))
          /\ DOMAIN p[k].operands = 1..Len(p[k].operands)
          /\ \A i \in DOMAIN p[k].operands : p[k].operands[i] \in 1..(k - 1)
        BY <1>3, TreeFacts DEF Valid
    <2>2. PICK verdicts, answers : /\ verdicts = OfOperands(p, k, f)
                                   /\ answers = OfOperands(p, k, h)
        OBVIOUS
    <2>3. Len(p[k].operands) \in Nat
        <3>1. PICK s, T : s = p[k].operands /\ s \in Seq(T)
            BY <2>1
        <3> QED BY <3>1
    <2>4. AllAgree(verdicts, answers, g)
        <3>1. /\ DOMAIN verdicts = DOMAIN p[k].operands
              /\ DOMAIN answers = DOMAIN p[k].operands
              /\ verdicts = [i \in DOMAIN verdicts |-> verdicts[i]]
              /\ \A i \in DOMAIN verdicts : /\ verdicts[i] = f[p[k].operands[i]]
                                            /\ answers[i] = h[p[k].operands[i]]
            BY <2>2 DEF OfOperands
        <3>2. \A i \in DOMAIN verdicts : p[k].operands[i] \in X
            BY <1>4, <2>1, <3>1
        <3>3. \A i \in DOMAIN verdicts : Agrees(verdicts[i], answers[i], g)
            BY <3>1, <3>2
        <3>4. \A i \in DOMAIN verdicts : verdicts[i] \in {NONE, UNKNOWN, ALL}
            BY <3>3 DEF Agrees
        <3>5. verdicts \in [1..Len(p[k].operands) -> {NONE, UNKNOWN, ALL}]
            BY <2>1, <3>1, <3>4
        <3> QED BY <2>1, <2>3, <3>1, <3>3, <3>5 DEF AllAgree
    <2>5. p[k].type = "NULL" => NullIndexOf(g, p[k].column) = NullBitsIndex(g, p[k].column)
        BY <1>3
    <2>6. Agrees(NodeVerdict(p[k], g, verdicts), NodeMeaning(p[k], g, answers), g)
        BY <2>1, <2>4, <2>5, NodeAgrees
    <2> QED BY <1>1, <1>2, <1>3, <2>2, <2>6
<1> HIDE DEF X
<1>5. Len(p) \in X
    <2>1. 1..Len(p) \subseteq X
        BY <1>3, <1>4, StrongInduction
    <2> QED BY <1>3, <2>1
<1> QED BY <1>1, <1>2, <1>5 DEF X

------------------------------------------------------------------------------
(* Reordering the operands *)

\* q is p with the operands of its structs in another order.
SameNode(a, b) ==
    /\ DOMAIN a = DOMAIN b
    /\ a.type = b.type /\ a.column = b.column /\ a.column_type = b.column_type
    /\ a.value = b.value /\ a.negate = b.negate
SamePredicate(p, q) ==
    /\ DOMAIN q = DOMAIN p /\ q = [k \in DOMAIN p |-> q[k]]
    /\ \A k \in DOMAIN p : /\ SameNode(p[k], q[k])
                           /\ q[k].operands \in Seq(1..(k - 1))
                           /\ Range(q[k].operands) = Range(p[k].operands)

\* What sorting the operands of a struct leaves alone.
LEMMA ReorderedSame ==
    ASSUME NEW node, IsNode(node), NEW T, node.operands \in Seq(T),
           NEW order \in Bijection(DOMAIN node.operands, DOMAIN node.operands)
    PROVE  /\ SameNode(node, Reordered(node, order))
           /\ Reordered(node, order).operands \in Seq(T)
           /\ Range(Reordered(node, order).operands) = Range(node.operands)
<1>1. PICK s : s = node.operands /\ s \in Seq(T)
    OBVIOUS
<1>2. /\ Len(s) \in Nat /\ DOMAIN s = 1..Len(s)
      /\ \A i \in DOMAIN s : s[i] \in T
    BY <1>1
<1>3. PICK t : t = [i \in DOMAIN s |-> s[order[i]]]
    OBVIOUS
<1>4. /\ \A i \in DOMAIN s : order[i] \in DOMAIN s
      /\ \A j \in DOMAIN s : \E i \in DOMAIN s : order[i] = j
    BY <1>1 DEF Bijection, Injection, Surjection
<1>5. t \in [1..Len(s) -> T]
    BY <1>2, <1>3, <1>4
<1>6. t \in Seq(T)
    BY <1>2, <1>5
<1>7. Range(t) = Range(s)
    <2>1. ASSUME NEW x \in Range(t) PROVE x \in Range(s)
        BY <1>3, <1>4 DEF Range
    <2>2. ASSUME NEW x \in Range(s) PROVE x \in Range(t)
        <3>1. PICK j \in DOMAIN s : x = s[j]
            BY DEF Range
        <3>2. PICK i \in DOMAIN s : order[i] = j
            BY <1>4
        <3>3. i \in DOMAIN t /\ t[i] = x
            BY <1>3, <3>1, <3>2
        <3> QED BY <3>3 DEF Range
    <2> QED BY <2>1, <2>2
<1>8. Reordered(node, order) = [node EXCEPT !.operands = t]
    BY <1>1, <1>3 DEF Reordered
<1>9. DOMAIN node = {"type", "column", "column_type", "value", "operands", "negate"}
    BY DEF IsNode
<1>10. /\ Reordered(node, order).operands = t
       /\ SameNode(node, Reordered(node, order))
    BY <1>8, <1>9 DEF SameNode
<1> QED BY <1>1, <1>6, <1>7, <1>10

\* And sorting those of every operator of a predicate.
LEMMA OptimizedSame ==
    ASSUME NEW p, IsTree(p), NEW g, NEW q \in Optimized(p, g)
    PROVE  SamePredicate(p, q)
<1> DEFINE operators == {k \in DOMAIN p : p[k].type \in Operators}
<1>1. PICK orders :
          /\ \A k \in operators : orders[k] \in Orders(p, g, k)
          /\ q = [k \in DOMAIN p |-> IF k \in operators THEN Reordered(p[k], orders[k])
                                                        ELSE p[k]]
    BY DEF Optimized
<1>2. DOMAIN q = DOMAIN p /\ q = [k \in DOMAIN p |-> q[k]]
    BY <1>1
<1>3. ASSUME NEW k \in DOMAIN p
      PROVE  /\ SameNode(p[k], q[k])
             /\ q[k].operands \in Seq(1..(k - 1))
             /\ Range(q[k].operands) = Range(p[k].operands)
    <2>1. IsNode(p[k]) /\ p[k].operands \in Seq(1..(k - 1))
        BY TreeFacts
    <2>2. CASE k \in operators
        <3>1. orders[k] \in Orders(p, g, k)
            BY <1>1, <2>2
        <3>2. orders[k] \in Bijection(DOMAIN p[k].operands, DOMAIN p[k].operands)
            BY <3>1 DEF Orders
        <3>3. q[k] = Reordered(p[k], orders[k])
            BY <1>1, <2>2
        <3> QED BY <2>1, <3>2, <3>3, ReorderedSame
    <2>3. CASE k \notin operators
        <3>1. q[k] = p[k]
            BY <1>1, <2>3
        <3> QED BY <2>1, <3>1 DEF SameNode
    <2> QED BY <2>2, <2>3
<1> QED BY <1>2, <1>3 DEF SamePredicate

\* A sequence has members exactly when it is not empty.
LEMMA SomeInRange ==
    ASSUME NEW T, NEW s \in Seq(T)
    PROVE  s # <<>> <=> Range(s) # {}
<1>1. CASE s = <<>>
    <2>1. DOMAIN s = {}
        BY <1>1
    <2> QED BY <1>1, <2>1 DEF Range
<1>2. CASE s # <<>>
    <2>1. DOMAIN s # {}
        BY <1>2, SomeMember
    <2> QED BY <1>2, <2>1 DEF Range
<1> QED BY <1>1, <1>2

\* The answers of the operands, as a set.
LEMMA RangeOfAnswers ==
    ASSUME NEW p, NEW k, NEW f
    PROVE  Range(OfOperands(p, k, f)) = {f[j] : j \in Range(p[k].operands)}
<1>1. PICK s, t : s = p[k].operands /\ t = OfOperands(p, k, f)
    OBVIOUS
<1>2. DOMAIN t = DOMAIN s /\ \A i \in DOMAIN s : t[i] = f[s[i]]
    BY <1>1 DEF OfOperands
<1>3. ASSUME NEW x \in Range(t) PROVE x \in {f[j] : j \in Range(s)}
    <2>1. PICK i \in DOMAIN s : x = f[s[i]]
        BY <1>2 DEF Range
    <2>2. s[i] \in Range(s)
        BY DEF Range
    <2> QED BY <2>1, <2>2
<1>4. ASSUME NEW j \in Range(s) PROVE f[j] \in Range(t)
    <2>1. PICK i \in DOMAIN s : j = s[i]
        BY DEF Range
    <2>2. i \in DOMAIN t /\ t[i] = f[j]
        BY <1>2, <2>1
    <2> QED BY <2>2 DEF Range
<1> QED BY <1>1, <1>3, <1>4

\* The answers of operands in another order are the same.
LEMMA SameOperands ==
    ASSUME NEW p, NEW q, NEW k, NEW f, Range(q[k].operands) = Range(p[k].operands)
    PROVE  Range(OfOperands(p, k, f)) = Range(OfOperands(q, k, f))
<1>1. Range(OfOperands(p, k, f)) = {f[j] : j \in Range(p[k].operands)}
    BY RangeOfAnswers
<1>2. Range(OfOperands(q, k, f)) = {f[j] : j \in Range(q[k].operands)}
    BY RangeOfAnswers
<1> QED BY <1>1, <1>2

\* A predicate is still one.
LEMMA SameIsTree ==
    ASSUME NEW p, IsTree(p), NEW q, SamePredicate(p, q)
    PROVE  IsTree(q)
<1>1. Len(p) \in Nat \ {0} /\ DOMAIN p = 1..Len(p)
    BY TreeFacts
<1>2. DOMAIN q = 1..Len(p) /\ q = [k \in 1..Len(p) |-> q[k]]
    BY <1>1 DEF SamePredicate
<1>3. q \in Seq(Range(q)) /\ Len(q) = Len(p) /\ q # <<>>
    <2>1. q \in [1..Len(p) -> Range(q)]
        BY <1>2 DEF Range
    <2>2. q \in Seq(Range(q)) /\ Len(q) = Len(p)
        BY <1>1, <1>2, <2>1
    <2> QED BY <1>1, <2>2
<1>4. ASSUME NEW k \in DOMAIN q
      PROVE  /\ IsNode(q[k])
             /\ q[k].operands \in Seq(1..(k - 1))
             /\ q[k].type \in Operators <=> q[k].operands # <<>>
    <2>1. /\ IsNode(p[k]) /\ SameNode(p[k], q[k])
          /\ p[k].type \in Operators <=> p[k].operands # <<>>
          /\ p[k].operands \in Seq(1..(k - 1))
          /\ q[k].operands \in Seq(1..(k - 1))
          /\ Range(q[k].operands) = Range(p[k].operands)
        BY <1>1, <1>2, TreeFacts DEF SamePredicate
    <2>2. IsNode(q[k])
        BY <2>1 DEF SameNode, IsNode
    <2>3. p[k].operands # <<>> <=> Range(p[k].operands) # {}
        <3>1. PICK s, T : s = p[k].operands /\ s \in Seq(T)
            BY <2>1
        <3> QED BY <3>1, SomeInRange
    <2>4. q[k].operands # <<>> <=> Range(q[k].operands) # {}
        <3>1. PICK s, T : s = q[k].operands /\ s \in Seq(T)
            BY <2>1
        <3> QED BY <3>1, SomeInRange
    <2>5. q[k].type = p[k].type
        BY <2>1 DEF SameNode
    <2> QED BY <2>1, <2>2, <2>3, <2>4, <2>5
<1>5. ASSUME NEW k \in 1..(Len(q) - 1)
      PROVE  \E j \in DOMAIN q : k \in Range(q[j].operands)
    <2>1. PICK j \in DOMAIN p : k \in Range(p[j].operands)
        BY <1>3 DEF IsTree
    <2> QED BY <1>1, <1>2, <2>1 DEF SamePredicate
<1> QED BY <1>3, <1>4, <1>5 DEF IsTree

\* And it still suits the row groups that it did.
LEMMA SameIsValid ==
    ASSUME NEW p, NEW q, SamePredicate(p, q), NEW g, Valid(p, g)
    PROVE  Valid(q, g)
BY DEF SamePredicate, SameNode, Valid, ValidNode

\* A struct means the same whatever the order of its operands.
LEMMA NodeMeaningSame ==
    ASSUME NEW a, NEW b, IsNode(a), SameNode(a, b), NEW s, NEW t, Range(s) = Range(t), NEW g
    PROVE  NodeMeaning(a, g, s) = NodeMeaning(b, g, t)
<1>1. ASSUME NEW row
      PROVE  Satisfies(a, g, s, row) <=> Satisfies(b, g, t, row)
    <2>0. a.type \in {"TRUE", "NULL", "CUSTOM"} \cup Comparisons \cup Operators
        BY DEF IsNode
    <2>1. CASE a.type = "AND"
        <3>1. Satisfies(a, g, s, row) <=> \A m \in Range(s) : row \in m
            BY <2>1 DEF Satisfies, Range, Comparisons
        <3>2. Satisfies(b, g, t, row) <=> \A m \in Range(t) : row \in m
            BY <2>1 DEF Satisfies, Range, Comparisons, SameNode
        <3> QED BY <3>1, <3>2
    <2>2. CASE a.type = "OR"
        <3>1. Satisfies(a, g, s, row) <=> \E m \in Range(s) : row \in m
            BY <2>2 DEF Satisfies, Range, Comparisons
        <3>2. Satisfies(b, g, t, row) <=> \E m \in Range(t) : row \in m
            BY <2>2 DEF Satisfies, Range, Comparisons, SameNode
        <3> QED BY <3>1, <3>2
    <2>3. CASE a.type \notin Operators
        BY <2>0, <2>3 DEF Satisfies, Comparisons, Operators, SameNode
    <2> QED BY <2>1, <2>2, <2>3 DEF Operators
<1>2. a.negate = b.negate
    BY DEF SameNode
<1> QED BY <1>1, <1>2 DEF NodeMeaning

\* And so does the verdict on it.
LEMMA NodeVerdictSame ==
    ASSUME NEW a, NEW b, IsNode(a), SameNode(a, b), NEW s, NEW t, Range(s) = Range(t), NEW g
    PROVE  NodeVerdict(a, g, s) = NodeVerdict(b, g, t)
<1>1. AndVerdict(s) = AndVerdict(t) /\ OrVerdict(s) = OrVerdict(t)
    BY DEF AndVerdict, OrVerdict
<1>2. /\ a.type = b.type /\ a.column = b.column /\ a.value = b.value
      /\ a.negate = b.negate
    BY DEF SameNode
<1>3. LeafVerdict(a, g) = LeafVerdict(b, g)
    BY <1>2 DEF LeafVerdict
<1> QED BY <1>1, <1>2, <1>3 DEF NodeVerdict

\* So that the whole predicate keeps its meaning and its verdicts.
LEMMA SameAnswers ==
    ASSUME NEW p, IsTree(p), NEW q, SamePredicate(p, q), NEW g
    PROVE  Meaning(q, g) = Meaning(p, g) /\ MatchIndexes(q, g) = MatchIndexes(p, g)
<1>1. /\ Len(p) \in Nat \ {0} /\ DOMAIN p = 1..Len(p)
      /\ IsTree(q) /\ DOMAIN q = DOMAIN p
    BY TreeFacts, SameIsTree DEF SamePredicate
<1>2. Len(q) = Len(p)
    <2>1. Len(q) \in Nat \ {0} /\ DOMAIN q = 1..Len(q)
        BY <1>1, TreeFacts
    <2> QED BY <1>1, <2>1
<1>3. PICK f : /\ \A k \in DOMAIN p : f[k] = NodeMeaning(p[k], g, OfOperands(p, k, f))
               /\ Meaning(p, g) = f[Len(p)]
    BY MeaningIs
<1>4. PICK h : /\ \A k \in DOMAIN q : h[k] = NodeMeaning(q[k], g, OfOperands(q, k, h))
               /\ Meaning(q, g) = h[Len(q)]
    BY <1>1, MeaningIs
<1>5. PICK u : /\ \A k \in DOMAIN p : u[k] = NodeVerdict(p[k], g, OfOperands(p, k, u))
               /\ MatchIndexes(p, g) = u[Len(p)]
    BY MatchIndexesIs
<1>6. PICK v : /\ \A k \in DOMAIN q : v[k] = NodeVerdict(q[k], g, OfOperands(q, k, v))
               /\ MatchIndexes(q, g) = v[Len(q)]
    BY <1>1, MatchIndexesIs
<1> DEFINE X == {k \in DOMAIN p : f[k] = h[k] /\ u[k] = v[k]}
<1>7. ASSUME NEW k \in 1..Len(p), 1..(k - 1) \subseteq X PROVE k \in X
    <2>1. /\ IsNode(p[k]) /\ SameNode(p[k], q[k])
          /\ Range(q[k].operands) = Range(p[k].operands)
          /\ \A i \in DOMAIN p[k].operands : p[k].operands[i] \in 1..(k - 1)
        BY <1>1, TreeFacts DEF SamePredicate
    <2>2. \A j \in 1..(k - 1) : f[j] = h[j] /\ u[j] = v[j]
        BY <1>7
    <2>3. /\ OfOperands(p, k, f) = OfOperands(p, k, h)
          /\ OfOperands(p, k, u) = OfOperands(p, k, v)
        BY <1>1, <2>2, OperandsAgree
    <2>4. /\ Range(OfOperands(p, k, h)) = Range(OfOperands(q, k, h))
          /\ Range(OfOperands(p, k, v)) = Range(OfOperands(q, k, v))
        BY <2>1, SameOperands
    <2>5. /\ NodeMeaning(p[k], g, OfOperands(p, k, f)) = NodeMeaning(q[k], g, OfOperands(q, k, h))
          /\ NodeVerdict(p[k], g, OfOperands(p, k, u)) = NodeVerdict(q[k], g, OfOperands(q, k, v))
        BY <2>1, <2>3, <2>4, NodeMeaningSame, NodeVerdictSame
    <2> QED BY <1>1, <1>3, <1>4, <1>5, <1>6, <2>5
<1> HIDE DEF X
<1>8. Len(p) \in X
    <2>1. 1..Len(p) \subseteq X
        BY <1>1, <1>7, StrongInduction
    <2> QED BY <1>1, <2>1
<1> QED BY <1>2, <1>3, <1>4, <1>5, <1>6, <1>8 DEF X

------------------------------------------------------------------------------
(* The reader *)

\* The inductive invariant: the predicate is one that the reader was opened
\* with, but for the order of operands, and once the reader is open it suits the
\* row group being read, although it was checked against the first one only.
Suits ==
    /\ group \in RowGroups
    /\ opened \in BOOLEAN
    /\ IsTree(predicate)
    /\ \E p \in Predicates : SamePredicate(p, predicate)
    /\ opened => Valid(predicate, group)

\* A predicate is the same as itself.
LEMMA SameAsItself ==
    ASSUME NEW p, IsTree(p)
    PROVE  SamePredicate(p, p)
<1>1. p = [k \in DOMAIN p |-> p[k]]
    <2>1. PICK T : p \in Seq(T)
        BY DEF IsTree
    <2> QED BY <2>1
<1>2. \A k \in DOMAIN p : p[k].operands \in Seq(1..(k - 1))
    BY TreeFacts
<1> QED BY <1>1, <1>2 DEF SamePredicate, SameNode

\* Reordered twice, it is the same still.
LEMMA SameTwice ==
    ASSUME NEW p, NEW q, NEW r, SamePredicate(p, q), SamePredicate(q, r)
    PROVE  SamePredicate(p, r)
BY DEF SamePredicate, SameNode

\* A predicate that suits a row group suits those with columns of the same types.
LEMMA ValidInSameTypes ==
    ASSUME NEW p, NEW g, NEW h, SameTypes(h, g), Valid(p, g)
    PROVE  Valid(p, h)
BY DEF SameTypes, Valid, ValidNode

\* It holds of a reader that is about to be opened.
LEMMA InitSuits == Init => Suits
<1> SUFFICES ASSUME Init PROVE Suits
    OBVIOUS
<1>1. IsTree(predicate)
    BY PredicateAssumption DEF Init
<1>2. SamePredicate(predicate, predicate)
    BY <1>1, SameAsItself
<1> QED BY <1>1, <1>2 DEF Init, Suits

\* No step of a reader breaks it.
THEOREM SuitsIsInductive == Suits /\ [Next]_vars => Suits'
<1> SUFFICES ASSUME Suits, [Next]_vars PROVE Suits'
    OBVIOUS
<1>1. CASE Open
    <2>1. SamePredicate(predicate, predicate')
        BY <1>1, OptimizedSame DEF Suits, Open
    <2>2. IsTree(predicate')
        BY <2>1, SameIsTree DEF Suits
    <2>3. Valid(predicate', group)
        BY <1>1, <2>1, SameIsValid DEF Open
    <2>4. \E p \in Predicates : SamePredicate(p, predicate')
        BY <2>1, SameTwice DEF Suits
    <2> QED BY <1>1, <2>2, <2>3, <2>4 DEF Suits, Open
<1>2. CASE Refused
    BY <1>2 DEF Suits, Refused, vars
<1>3. CASE NextGroup
    <2>1. Valid(predicate, group')
        BY <1>3, ValidInSameTypes DEF Suits, NextGroup
    <2> QED BY <1>3, <2>1 DEF Suits, NextGroup
<1>4. CASE UNCHANGED vars
    BY <1>4 DEF Suits, vars
<1> QED BY <1>1, <1>2, <1>3, <1>4 DEF Next

\* An open reader's predicate suits the row group being read.
THEOREM PredicateSuits == Spec => []Suits
<1> QED BY InitSuits, SuitsIsInductive, PTL DEF Spec

------------------------------------------------------------------------------
(* The batches of a row group *)

\* As many rows as there are, up to the width of a mask.
LEMMA CountFacts ==
    ASSUME NEW g, IsRowGroup(g), NEW at \in 0..(g.rows - 1)
    PROVE  /\ BatchCount(g, at) \in 1..Width /\ Width \in Nat
           /\ at \in Nat /\ g.rows \in Nat
           /\ at + BatchCount(g, at) <= g.rows
           /\ BatchCount(g, at) = Width \/ at + BatchCount(g, at) = g.rows
<1>1. Width \in Nat \ {0} /\ g.rows \in Nat /\ at \in Nat /\ at < g.rows
    BY PredicateAssumption DEF IsRowGroup
<1>2. PICK left \in Nat \ {0} : left = g.rows - at
    BY <1>1
<1>3. BatchCount(g, at) = IF Width <= left THEN Width ELSE left
    BY <1>1, <1>2, MinOfTwo DEF BatchCount
<1> QED BY <1>1, <1>2, <1>3

\* A part of a sequence.
LEMMA PartOf ==
    ASSUME NEW T, NEW s \in Seq(T), NEW at \in Nat, NEW n \in Nat, at + n <= Len(s)
    PROVE  /\ SubSeq(s, at + 1, at + n) \in Seq(T)
           /\ Len(SubSeq(s, at + 1, at + n)) = n
           /\ \A i \in 0..(n - 1) : SubSeq(s, at + 1, at + n)[i + 1] = s[at + i + 1]
<1>1. PICK a, b : a = at + 1 /\ b = at + n /\ a \in Int /\ b \in Int
    OBVIOUS
<1>2. \A i \in a..b : s[i] \in T
    BY <1>1
<1>3. /\ SubSeq(s, a, b) \in Seq(T)
      /\ Len(SubSeq(s, a, b)) = IF a <= b THEN b - a + 1 ELSE 0
      /\ \A i \in 1..(b - a + 1) : SubSeq(s, a, b)[i] = s[a + i - 1]
    BY <1>1, <1>2, SubSeqProperties
<1>4. Len(SubSeq(s, a, b)) = n
    BY <1>1, <1>3
<1>5. ASSUME NEW i \in 0..(n - 1) PROVE SubSeq(s, a, b)[i + 1] = s[at + i + 1]
    <2>1. i + 1 \in 1..(b - a + 1) /\ a + (i + 1) - 1 = at + i + 1
        BY <1>1
    <2>2. SubSeq(s, a, b)[i + 1] = s[a + (i + 1) - 1]
        BY <1>3, <2>1
    <2> QED BY <2>1, <2>2
<1> QED BY <1>1, <1>3, <1>4, <1>5

\* A batch has the columns of the row group, from its first row on.
LEMMA BatchFacts ==
    ASSUME NEW g, IsRowGroup(g), NEW at \in 0..(g.rows - 1), NEW b, b = BatchAt(g, at)
    PROVE  /\ IsBatch(b) /\ b.rows = BatchCount(g, at) /\ b.broken = g.broken
           /\ DOMAIN b.columns = DOMAIN g.columns
           /\ \A c \in DOMAIN g.columns :
                  /\ b.columns[c].type = g.columns[c].type
                  /\ \A i \in 0..(b.rows - 1) :
                         /\ b.columns[c].values[i + 1] = g.columns[c].values[at + i + 1]
                         /\ b.columns[c].nulls[i + 1] = g.columns[c].nulls[at + i + 1]
<1>1. PICK n : n = BatchCount(g, at)
    OBVIOUS
<1>2. n \in 1..Width /\ Width \in Nat /\ at \in Nat /\ g.rows \in Nat /\ at + n <= g.rows
    BY <1>1, CountFacts
<1>3. /\ b.rows = n /\ b.broken = g.broken /\ DOMAIN b.columns = DOMAIN g.columns
      /\ \A c \in DOMAIN g.columns :
             /\ b.columns[c].type = g.columns[c].type
             /\ b.columns[c].values = SubSeq(g.columns[c].values, at + 1, at + n)
             /\ b.columns[c].nulls = SubSeq(g.columns[c].nulls, at + 1, at + n)
    BY <1>1 DEF BatchAt
<1>4. ASSUME NEW c \in DOMAIN g.columns
      PROVE  /\ b.columns[c].type \in {"i32", "bit", "str"}
             /\ b.columns[c].values \in Seq(ValuesOf(b.columns[c].type))
             /\ b.columns[c].nulls \in Seq({0, 1})
             /\ Len(b.columns[c].values) = n /\ Len(b.columns[c].nulls) = n
             /\ \A i \in 0..(n - 1) :
                    /\ b.columns[c].values[i + 1] = g.columns[c].values[at + i + 1]
                    /\ b.columns[c].nulls[i + 1] = g.columns[c].nulls[at + i + 1]
    <2>1. PICK values, nulls, T, B : /\ values = g.columns[c].values
                                     /\ nulls = g.columns[c].nulls
                                     /\ T = ValuesOf(g.columns[c].type)
                                     /\ B = {0, 1}
        OBVIOUS
    <2>2. /\ values \in Seq(T) /\ nulls \in Seq(B) /\ n \in Nat
          /\ at + n <= Len(values) /\ at + n <= Len(nulls)
        BY <1>2, <2>1, ColumnFacts
    <2>3. /\ SubSeq(values, at + 1, at + n) \in Seq(T)
          /\ Len(SubSeq(values, at + 1, at + n)) = n
          /\ \A i \in 0..(n - 1) : SubSeq(values, at + 1, at + n)[i + 1] = values[at + i + 1]
        BY <1>2, <2>2, PartOf
    <2>4. /\ SubSeq(nulls, at + 1, at + n) \in Seq(B)
          /\ Len(SubSeq(nulls, at + 1, at + n)) = n
          /\ \A i \in 0..(n - 1) : SubSeq(nulls, at + 1, at + n)[i + 1] = nulls[at + i + 1]
        BY <1>2, <2>2, PartOf
    <2> QED BY <1>3, <2>1, <2>3, <2>4, ColumnFacts
<1>5. IsRowGroup(b)
    BY <1>2, <1>3, <1>4 DEF IsRowGroup
<1>6. b.rows <= Width
    BY <1>2, <1>3
<1> QED BY <1>1, <1>3, <1>4, <1>5, <1>6 DEF IsBatch

\* The answers for a batch are those for the row group, from the first row of the
\* batch on.
Shifted(inBatch, inGroup, at, n) == \A i \in 0..(n - 1) : i \in inBatch <=> at + i \in inGroup

\* So is what a struct means, if what its operands mean is.
LEMMA NodeShifted ==
    ASSUME NEW g, IsRowGroup(g), NEW at \in 0..(g.rows - 1), NEW b, b = BatchAt(g, at),
           NEW node, IsNode(node), ValidNode(node, g),
           NEW s, NEW t, DOMAIN s = DOMAIN t,
           \A k \in DOMAIN s : Shifted(s[k], t[k], at, b.rows)
    PROVE  Shifted(NodeMeaning(node, b, s), NodeMeaning(node, g, t), at, b.rows)
<1>1. SUFFICES ASSUME NEW i \in 0..(b.rows - 1)
               PROVE  i \in NodeMeaning(node, b, s) <=> at + i \in NodeMeaning(node, g, t)
    BY DEF Shifted
<1>2. at + i \in 0..(g.rows - 1)
    <2>1. /\ b.rows = BatchCount(g, at) /\ b.rows \in Nat /\ at \in Nat /\ g.rows \in Nat
          /\ at + b.rows <= g.rows
        BY BatchFacts, CountFacts
    <2> QED BY <2>1
<1>3. PICK c : c = node.column /\ c \in DOMAIN g.columns
    BY DEF ValidNode
<1>4. /\ b.columns[c].values[i + 1] = g.columns[c].values[at + i + 1]
      /\ b.columns[c].nulls[i + 1] = g.columns[c].nulls[at + i + 1]
    BY <1>3, BatchFacts
<1>5. \A k \in DOMAIN s : i \in s[k] <=> at + i \in t[k]
    BY DEF Shifted
<1>6. Satisfies(node, b, s, i) <=> Satisfies(node, g, t, at + i)
    <2>1. CASE node.type = "AND"
        BY <1>5, <2>1 DEF Satisfies, Comparisons
    <2>2. CASE node.type = "OR"
        BY <1>5, <2>2 DEF Satisfies, Comparisons
    <2>3. CASE node.type \in {"TRUE", "NULL", "CUSTOM"} \cup Comparisons
        BY <1>3, <1>4, <2>3 DEF Satisfies, Comparisons
    <2> QED BY <2>1, <2>2, <2>3 DEF IsNode, Operators
<1> QED BY <1>2, <1>6 DEF NodeMeaning

\* A predicate means for a batch what it means for the rows of it.
LEMMA MeaningOfBatch ==
    ASSUME NEW p, IsTree(p), NEW g, IsRowGroup(g), Valid(p, g),
           NEW at \in 0..(g.rows - 1), NEW b, b = BatchAt(g, at)
    PROVE  Shifted(Meaning(p, b), Meaning(p, g), at, b.rows)
<1>1. PICK f : /\ \A k \in DOMAIN p : f[k] = NodeMeaning(p[k], b, OfOperands(p, k, f))
               /\ Meaning(p, b) = f[Len(p)]
    BY MeaningIs
<1>2. PICK h : /\ \A k \in DOMAIN p : h[k] = NodeMeaning(p[k], g, OfOperands(p, k, h))
               /\ Meaning(p, g) = h[Len(p)]
    BY MeaningIs
<1> DEFINE X == {k \in DOMAIN p : Shifted(f[k], h[k], at, b.rows)}
<1>3. Len(p) \in Nat \ {0} /\ DOMAIN p = 1..Len(p)
    BY TreeFacts
<1>4. ASSUME NEW k \in 1..Len(p), 1..(k - 1) \subseteq X PROVE k \in X
    <2>1. /\ IsNode(p[k]) /\ ValidNode(p[k], g)
          /\ \A i \in DOMAIN p[k].operands : p[k].operands[i] \in 1..(k - 1)
        BY <1>3, TreeFacts DEF Valid
    <2>2. PICK s, t : s = OfOperands(p, k, f) /\ t = OfOperands(p, k, h)
        OBVIOUS
    <2>3. /\ DOMAIN s = DOMAIN p[k].operands /\ DOMAIN t = DOMAIN s
          /\ \A i \in DOMAIN s : /\ s[i] = f[p[k].operands[i]]
                                 /\ t[i] = h[p[k].operands[i]]
        BY <2>2 DEF OfOperands
    <2>4. \A i \in DOMAIN s : p[k].operands[i] \in X
        BY <1>4, <2>1, <2>3
    <2>5. \A i \in DOMAIN s : Shifted(s[i], t[i], at, b.rows)
        BY <2>3, <2>4
    <2>6. Shifted(NodeMeaning(p[k], b, s), NodeMeaning(p[k], g, t), at, b.rows)
        BY <2>1, <2>3, <2>5, NodeShifted
    <2> QED BY <1>1, <1>2, <1>3, <2>2, <2>6
<1> HIDE DEF X
<1>5. Len(p) \in X
    <2>1. 1..Len(p) \subseteq X
        BY <1>3, <1>4, StrongInduction
    <2> QED BY <1>3, <2>1
<1> QED BY <1>1, <1>2, <1>5 DEF X

\* The mask of a batch of a row group is exact.
LEMMA MaskOfBatch ==
    ASSUME NEW p, IsTree(p), NEW g, IsRowGroup(g), Valid(p, g), NEW at \in 0..(g.rows - 1)
    PROVE  LET r == MatchRows(p, BatchAt(g, at))
           IN /\ r.ok => /\ r.mask = {i \in 0..(BatchCount(g, at) - 1) : at + i \in Meaning(p, g)}
                         /\ r.count = BatchCount(g, at)
              /\ NoCause(p, BatchAt(g, at)) => r.ok
<1>1. PICK b, r : b = BatchAt(g, at) /\ r = MatchRows(p, b)
    OBVIOUS
<1>2. /\ IsBatch(b) /\ b.rows = BatchCount(g, at) /\ b.broken = g.broken
      /\ DOMAIN b.columns = DOMAIN g.columns
      /\ \A c \in DOMAIN g.columns : b.columns[c].type = g.columns[c].type
    BY <1>1, BatchFacts
<1>3. Valid(p, b)
    BY <1>2, ValidInSameTypes DEF SameTypes
<1>4. Exact(r, Meaning(p, b), b, NoCause(p, b))
    BY <1>1, <1>2, <1>3, MaskOfPredicate
<1>5. Shifted(Meaning(p, b), Meaning(p, g), at, b.rows)
    BY <1>1, MeaningOfBatch
<1>6. Meaning(p, b) = {i \in 0..(b.rows - 1) : at + i \in Meaning(p, g)}
    BY <1>4, <1>5 DEF Exact, Shifted
<1> QED BY <1>1, <1>2, <1>4, <1>6 DEF Exact

\* In an open reader, the answers for the batches of the row group are exact.
LEMMA OpenIsExact ==
    ASSUME NEW at \in Batches(group)
    PROVE  Suits /\ opened =>
               LET r == MatchRows(predicate, BatchAt(group, at))
               IN /\ r.ok => /\ r.mask = {i \in 0..(BatchCount(group, at) - 1) :
                                              at + i \in Meaning(predicate, group)}
                             /\ r.count = BatchCount(group, at)
                  /\ NoCause(predicate, BatchAt(group, at)) => r.ok
<1> SUFFICES ASSUME Suits, opened
             PROVE  LET r == MatchRows(predicate, BatchAt(group, at))
                    IN /\ r.ok => /\ r.mask = {i \in 0..(BatchCount(group, at) - 1) :
                                                   at + i \in Meaning(predicate, group)}
                                  /\ r.count = BatchCount(group, at)
                       /\ NoCause(predicate, BatchAt(group, at)) => r.ok
    OBVIOUS
<1>1. IsTree(predicate) /\ Valid(predicate, group) /\ IsRowGroup(group)
    BY PredicateAssumption DEF Suits
<1>2. at \in 0..(group.rows - 1)
    BY DEF Batches
<1> QED BY <1>1, <1>2, MaskOfBatch

\* The mask of every batch is exactly the rows of it that satisfy the predicate,
\* for predicates of any depth, batches of any width and row groups of any length.
THEOREM MasksExact == Spec => []RowMasksAreExact
<1>1. Suits => RowMasksAreExact
    <2> SUFFICES ASSUME Suits, opened, NEW at \in Batches(group)
                 PROVE  LET r == MatchRows(predicate, BatchAt(group, at))
                        IN r.ok => /\ r.mask = {i \in 0..(r.count - 1) :
                                                    at + i \in Meaning(predicate, group)}
                                   /\ r.count = BatchCount(group, at)
        BY DEF RowMasksAreExact
    <2> QED BY OpenIsExact
<1> QED BY <1>1, PredicateSuits, PTL

\* A validated predicate fails on a batch only where one of its structs reads a
\* column that cannot be read, or has a match_rows that fails on it, in every row
\* group of the file.
THEOREM FailuresHaveCauses == Spec => []FailuresHaveACause
<1>1. Suits => FailuresHaveACause
    BY OpenIsExact DEF FailuresHaveACause, NoCause
<1> QED BY <1>1, PredicateSuits, PTL

\* No predicate of the reader's asks for nulls, or the index of the null bits is
\* that of the null bits: not so in a file.
NullsAreIndexed ==
    \/ \A p \in Predicates : \A k \in DOMAIN p : p[k].type # "NULL"
    \/ \A g \in RowGroups : \A c \in DOMAIN g.columns : NullIndexOf(g, c) = NullBitsIndex(g, c)

\* The verdict of an open reader's predicate on the row group agrees with the rows.
LEMMA OpenAgrees ==
    ASSUME NullsAreIndexed
    PROVE  Suits /\ opened => Agrees(MatchIndexes(predicate, group), Meaning(predicate, group), group)
<1> SUFFICES ASSUME Suits, opened
             PROVE  Agrees(MatchIndexes(predicate, group), Meaning(predicate, group), group)
    OBVIOUS
<1>1. IsTree(predicate) /\ Valid(predicate, group) /\ IsRowGroup(group)
    BY PredicateAssumption DEF Suits
<1>2. ASSUME NEW k \in DOMAIN predicate, predicate[k].type = "NULL"
      PROVE  NullIndexOf(group, predicate[k].column) = NullBitsIndex(group, predicate[k].column)
    <2>1. PICK p \in Predicates : SamePredicate(p, predicate)
        BY DEF Suits
    <2>2. k \in DOMAIN p /\ p[k].type = "NULL"
        BY <1>2, <2>1 DEF SamePredicate, SameNode
    <2>3. predicate[k].column \in DOMAIN group.columns /\ group \in RowGroups
        BY <1>1 DEF Valid, ValidNode, Suits
    <2> QED BY <2>2, <2>3 DEF NullsAreIndexed
<1> QED BY <1>1, <1>2, VerdictOfPredicate

\* A row group is skipped only when no row of it matches, and taken whole only
\* when every row does.
THEOREM VerdictsAgree ==
    ASSUME NullsAreIndexed
    PROVE  Spec => []VerdictsAgreeWithRows
<1>1. Suits => VerdictsAgreeWithRows
    BY OpenAgrees DEF Agrees, VerdictsAgreeWithRows
<1> QED BY <1>1, PredicateSuits, PTL

------------------------------------------------------------------------------
(* What a row cursor takes for granted *)

\* The row group as the row cursor of module RowCursor knows it.
AsRead == [rows    |-> group.rows,
           matches |-> Meaning(predicate, group),
           verdict |-> IF MatchIndexes(predicate, group) = NONE THEN "NONE"
                       ELSE IF MatchIndexes(predicate, group) = ALL THEN "ALL" ELSE "UNKNOWN"]

\* Only the row group matters here, not where a cursor over it is.
Cursor == INSTANCE RowCursor WITH
              Batch <- Width, Columns <- {}, None <- <<>>, row_group <- AsRead,
              group_position <- 0, initialized <- FALSE, read <- <<>>, first <- <<>>,
              row_mask <- {}, position <- Width, cursor_error <- FALSE

\* The row group that a predicate makes is one of those the row cursor is for, and
\* the mask of a batch is the one it expects.
GroupAsExpected ==
    opened => /\ AsRead \in Cursor!RowGroups
              /\ \A at \in Batches(group) :
                     LET r == MatchRows(predicate, BatchAt(group, at))
                     IN r.ok => /\ r.mask = Cursor!BatchMatches(at)
                                /\ r.count = Cursor!BatchCount(at)

\* The indexes rule out a row group without rows.
LEMMA EmptyIsNone ==
    ASSUME NEW p, IsTree(p), NEW g, g.rows = 0
    PROVE  MatchIndexes(p, g) = NONE
<1>1. PICK f : /\ \A k \in DOMAIN p : f[k] = NodeVerdict(p[k], g, OfOperands(p, k, f))
               /\ MatchIndexes(p, g) = f[Len(p)]
    BY MatchIndexesIs
<1>2. Len(p) \in DOMAIN p
    BY TreeFacts
<1> QED BY <1>1, <1>2 DEF NodeVerdict

\* The rows that match are rows of the row group.
LEMMA MeaningInRows ==
    ASSUME NEW p, IsTree(p), NEW g
    PROVE  Meaning(p, g) \subseteq 0..(g.rows - 1)
<1>1. PICK f : /\ \A k \in DOMAIN p : f[k] = NodeMeaning(p[k], g, OfOperands(p, k, f))
               /\ Meaning(p, g) = f[Len(p)]
    BY MeaningIs
<1>2. Len(p) \in DOMAIN p
    BY TreeFacts
<1> QED BY <1>1, <1>2 DEF NodeMeaning

\* What RowCursor, and Reader over it, take for granted of a row group and of the
\* masks of its batches is what a validated and optimized predicate gives.
THEOREM PredicateGivesRowGroups ==
    ASSUME NullsAreIndexed
    PROVE  Spec => []GroupAsExpected
<1>1. Suits => GroupAsExpected
    <2> SUFFICES ASSUME Suits, opened PROVE GroupAsExpected
        BY DEF GroupAsExpected
    <2>1. IsTree(predicate) /\ IsRowGroup(group)
        BY PredicateAssumption DEF Suits
    <2>2. AsRead \in Cursor!RowGroups
        <3>1. PICK rows, matches, verdict :
                  /\ rows = group.rows
                  /\ matches = Meaning(predicate, group)
                  /\ verdict = MatchIndexes(predicate, group)
            OBVIOUS
        <3>2. rows \in Nat /\ matches \subseteq 0..(rows - 1)
            BY <2>1, <3>1, MeaningInRows DEF IsRowGroup
        <3>3. /\ verdict \in {NONE, UNKNOWN, ALL}
              /\ verdict = NONE => matches = {}
              /\ verdict = ALL => matches = 0..(rows - 1)
            BY <3>1, OpenAgrees DEF Agrees
        <3>4. rows = 0 => verdict = NONE
            BY <2>1, <3>1, EmptyIsNone
        <3>5. matches \in SUBSET Nat
            BY <3>2
        <3>6. AsRead = [rows |-> rows, matches |-> matches,
                        verdict |-> IF verdict = NONE THEN "NONE"
                                    ELSE IF verdict = ALL THEN "ALL" ELSE "UNKNOWN"]
            BY <3>1 DEF AsRead
        <3> QED BY <3>2, <3>3, <3>4, <3>5, <3>6 DEF Cursor!RowGroups
    <2>3. ASSUME NEW at \in Batches(group)
          PROVE  LET r == MatchRows(predicate, BatchAt(group, at))
                 IN r.ok => /\ r.mask = Cursor!BatchMatches(at)
                            /\ r.count = Cursor!BatchCount(at)
        <3>1. Cursor!BatchCount(at) = BatchCount(group, at)
            <4>1. {AsRead.rows - at, Width} = {Width, group.rows - at}
                BY DEF AsRead
            <4> QED BY <4>1 DEF Cursor!BatchCount, BatchCount, Cursor!Min, Min
        <3>2. Cursor!BatchMatches(at) = {i \in 0..(BatchCount(group, at) - 1) :
                                             at + i \in Meaning(predicate, group)}
            BY <3>1 DEF Cursor!BatchMatches, AsRead
        <3> QED BY <3>1, <3>2, OpenIsExact
    <2> QED BY <2>2, <2>3 DEF GroupAsExpected
<1> QED BY <1>1, PredicateSuits, PTL

------------------------------------------------------------------------------

\* Sorting the operands by their cost in the first row group changes the answers
\* in none.
THEOREM OptimizeKeeps == Spec => OptimizeKeepsAnswers
<1>1. Suits /\ [Next]_vars =>
          [opened' /\ ~opened =>
               \A g \in {g \in RowGroups : SameTypes(g, group)} :
                   /\ Meaning(predicate', g) = Meaning(predicate, g)
                   /\ MatchIndexes(predicate', g) = MatchIndexes(predicate, g)]_vars
    <2> SUFFICES ASSUME Suits, [Next]_vars, opened' /\ ~opened, NEW g
                 PROVE  /\ Meaning(predicate', g) = Meaning(predicate, g)
                        /\ MatchIndexes(predicate', g) = MatchIndexes(predicate, g)
        OBVIOUS
    <2>1. Open
        BY DEF Next, Refused, NextGroup, vars
    <2>2. SamePredicate(predicate, predicate') /\ IsTree(predicate)
        BY <2>1, OptimizedSame DEF Suits, Open
    <2> QED BY <2>2, SameAnswers
<1> QED BY <1>1, PredicateSuits, PTL DEF Spec, OptimizeKeepsAnswers
===============================================================================
