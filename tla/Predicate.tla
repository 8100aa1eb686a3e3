------------------------------- MODULE Predicate -------------------------------
(***************************************************************************)
(* Predicates over the rows of a row group (lib/predicate.c): the mask of  *)
(* matching rows of a batch (cx_index_match_rows), the verdict of the      *)
(* indexes on a whole row group (cx_index_match_indexes), the check made   *)
(* when a reader is opened (cx_predicate_valid), and the reordering of     *)
(* operands by cost made then, once, on the strength of the first row      *)
(* group (cx_predicate_optimize).                                          *)
(*                                                                         *)
(* A batch of a row group is like a row group of its own, of no more rows  *)
(* than a mask has bits.  A mask is the set of its bits.  Three column     *)
(* types stand for the six: "i32" for the numbers, "bit", whose batches    *)
(* are masks themselves, and "str", of which the index knows only the      *)
(* lengths.                                                                *)
(***************************************************************************)
EXTENDS IndexMatch, Sequences, SequencesExt, Totals

CONSTANTS
    Width,        \* bits of a mask, and rows of a batch, CX_BATCH_SIZE (64)
    RowGroups,    \* row groups of the file, as in Group below
    Predicates,   \* predicates a reader is opened with
    NullIndexOf(_, _)  \* the index of the null bits of a column of a group

VARIABLES
    group,        \* the row group being read
    predicate,    \* the reader's predicate
    opened        \* has cx_reader_new_impl validated and optimized it?

vars == <<group, predicate, opened>>

(* A row group: [rows    |-> number of rows,                               *)
(*               columns |-> sequence of [type, values, nulls],            *)
(*               broken  |-> columns that cannot be decompressed]          *)
(* A predicate is the sequence of its structs, [type, column, column_type, *)
(* value, operands, negate], each after its operands, the root at the end; *)
(* operands point at structs by their place in it.                         *)
(* The value compared with a string is [str, case_sensitive, location],    *)
(* and that of a custom predicate [rows, fails, index, cost]: the values   *)
(* that the caller's match_rows takes and those it fails on, if it has a   *)
(* match_index, and what it costs.                                         *)
(* A string is a sequence of letters, -n being n in upper case.            *)

Operators == {"AND", "OR"}
Comparisons == {"EQ", "LT", "GT", "CONTAINS"}

ValuesOf(type) == CASE type = "i32" -> Int
                    [] type = "bit" -> {0, 1}
                    [] type = "str" -> Seq(Int)

IsRowGroup(g) ==
    /\ g.rows \in Nat
    /\ \A c \in DOMAIN g.columns :
           LET column == g.columns[c]
           IN /\ column.type \in {"i32", "bit", "str"}
              /\ column.values \in Seq(ValuesOf(column.type))
              /\ column.nulls \in Seq({0, 1})
              /\ Len(column.values) = g.rows /\ Len(column.nulls) = g.rows

\* What cx_predicate_new_<type>_<op> and the like make, and comparisons that do
\* not suit their type, which cx_predicate_valid refuses.  A match_index is for
\* numbers here.
IsNode(node) ==
    /\ DOMAIN node = {"type", "column", "column_type", "value", "operands", "negate"}
    /\ node.type \in {"TRUE", "NULL", "CUSTOM"} \cup Comparisons \cup Operators
    /\ node.negate \in BOOLEAN
    /\ node.type \in Comparisons =>
           /\ node.column_type = "i32" => node.value \in Int
           /\ node.column_type = "bit" /\ node.type = "EQ" => node.value \in {0, 1}
           /\ node.column_type = "str" => /\ node.value.str \in Seq(Int)
                                          /\ node.value.location \in {"ANY", "START", "END"}
    /\ node.type = "CUSTOM" /\ node.value.index =>
           node.column_type # "str" /\ node.value.rows \subseteq Int

\* An operator has operands (cx_predicate_new_operator makes none without), and
\* a struct is an operand of another, but for the root.
IsTree(p) ==
    /\ p \in Seq(Range(p)) /\ p # <<>>
    /\ \A k \in DOMAIN p :
           /\ IsNode(p[k])
           /\ p[k].operands \in Seq(1..(k - 1))
           /\ p[k].type \in Operators <=> p[k].operands # <<>>
    /\ \A k \in 1..(Len(p) - 1) : \E j \in DOMAIN p : k \in Range(p[j].operands)

ASSUME PredicateAssumption ==
    /\ Width \in Nat \ {0} /\ NaN \notin Int
    /\ \A g \in RowGroups : IsRowGroup(g)
    /\ \A p \in Predicates : IsTree(p)

\* The answers of the operands of struct k, of the answers of all.
OfOperands(p, k, answers) ==
    [i \in DOMAIN p[k].operands |-> answers[p[k].operands[i]]]

\* cx_row_group_cursor_batch_count, and what the cursor of a row group reads
\* there: a batch of each column.
BatchCount(g, at) == Min({Width, g.rows - at})
BatchAt(g, at) ==
    LET last == at + BatchCount(g, at)
    IN [rows    |-> BatchCount(g, at),
        columns |-> [c \in DOMAIN g.columns |->
                        [type   |-> g.columns[c].type,
                         values |-> SubSeq(g.columns[c].values, at + 1, last),
                         nulls  |-> SubSeq(g.columns[c].nulls, at + 1, last)]],
        broken  |-> g.broken]

\* The rows at which the batches begin.
Batches(g) == {at \in 0..(g.rows - 1) : at % Width = 0}

\* cx_index_new, on the values and on the null bits of a column.
IndexOf(values, maximum) == [count |-> Len(values),
                             min |-> Min({maximum} \cup Range(values)),
                             max |-> Max({0} \cup Range(values))]
ColumnIndex(g, c) ==
    LET column == g.columns[c]
    IN IF column.type = "str"
       THEN IndexOf([i \in DOMAIN column.values |-> Len(column.values[i])], 2147483647)
       ELSE IndexOf(column.values, IF column.type = "bit" THEN 1 ELSE 2147483647)

\* cx_row_group_null_index of a row group made in memory.
NullBitsIndex(g, c) == IndexOf(g.columns[c].nulls, 1)

\* ... and of one read from a file: cx_row_group_writer_put stores the index of
\* the values with the null bits, and its first byte is read as a bit.
LowByteBit(v) == IF v % 256 # 0 THEN 1 ELSE 0
StoredNullIndex(g, c) ==
    LET index == ColumnIndex(g, c)
    IN [count |-> index.count,
        min |-> LowByteBit(index.min), max |-> LowByteBit(index.max)]

------------------------------------------------------------------------------
(* cx_predicate_valid *)

\* Variant: numbers and bits are compared alike.
ValidAnyOrder(node, g) ==
    /\ node.column \in DOMAIN g.columns
    /\ node.type \notin Operators \cup {"TRUE", "NULL"} =>
           node.column_type = g.columns[node.column].type

ValidNode(node, g) ==
    /\ node.column \in DOMAIN g.columns
    /\ node.type \notin Operators \cup {"TRUE", "NULL"} =>
           node.column_type = g.columns[node.column].type
    /\ node.type \in {"LT", "GT"} => g.columns[node.column].type # "bit"
    /\ node.type = "CONTAINS" => g.columns[node.column].type = "str"

\* The operands of an operator have to be valid too, and theirs.
Valid(p, g) == \A k \in DOMAIN p : ValidNode(p[k], g)

------------------------------------------------------------------------------
(* cx_index_match_rows *)

FullMask == 0..(Width - 1)

Cap(mask, count) == mask \cap 0..(count - 1)

\* What a call gives back: whether it succeeded, the mask and *count, which is
\* -1 where it would be left uninitialized.
Result(mask, count) == [ok |-> TRUE, mask |-> mask, count |-> count]
Failure == [ok |-> FALSE, mask |-> {}, count |-> -1]

\* One turn of the comparison loops of lib/match.c.
Compare(type, x, v) == CASE type = "EQ" -> Equal(x, v)
                         [] type = "LT" -> Below(x, v)
                         [] type = "GT" -> Below(v, x)

\* The loops over strings: strcmp, strstr and the like, or strcasecmp and its
\* kind, on strings as they are or in lower case.
Folded(s) == [i \in DOMAIN s |-> IF s[i] < 0 THEN -s[i] ELSE s[i]]
StrBelow(a, b) ==
    \E n \in 0..(Len(b) - 1) :
        /\ n <= Len(a) /\ SubSeq(a, 1, n) = SubSeq(b, 1, n)
        /\ n < Len(a) => a[n + 1] < b[n + 1]
StrContains(a, b, location) ==
    CASE location = "ANY"   -> \E i \in 1..(Len(a) + 1) : IsPrefix(b, SubSeq(a, i, Len(a)))
      [] location = "START" -> IsPrefix(b, a)
      [] location = "END"   -> IsSuffix(b, a)
CompareStr(type, x, value) ==
    LET a == IF value.case_sensitive THEN x ELSE Folded(x)
        b == IF value.case_sensitive THEN value.str ELSE Folded(value.str)
    IN CASE type = "EQ" -> a = b
         [] type = "LT" -> StrBelow(a, b)
         [] type = "GT" -> StrBelow(b, a)
         [] type = "CONTAINS" -> StrContains(a, b, value.location)

\* Bits have no order; an operand of another type is an assertion.
Unsupported(node, g) ==
    \/ node.type \in {"LT", "GT"} /\ g.columns[node.column].type = "bit"
    \/ node.type = "CONTAINS" /\ g.columns[node.column].type # "str"
    \/ node.column_type # g.columns[node.column].type

\* A batch of bits is a mask already, and is inverted to look for zeros.
LeafMask(node, g) ==
    LET value(i) == g.columns[node.column].values[i + 1]
        matching(type, v) == {i \in 0..(g.rows - 1) : Compare(type, value(i), v)}
    IN CASE node.type = "CUSTOM" -> {i \in 0..(g.rows - 1) : value(i) \in node.value.rows}
         [] node.type # "CUSTOM" /\ node.column_type = "str" ->
                {i \in 0..(g.rows - 1) : CompareStr(node.type, value(i), node.value)}
         [] node.type = "EQ" /\ node.column_type = "bit" /\ node.value = 0 ->
                Cap(FullMask \ matching("EQ", 1), g.rows)
         [] OTHER -> matching(node.type, node.value)

\* The caller's match_rows is given the whole batch, and may fail on it.
CallerFails(node, g) ==
    /\ node.type = "CUSTOM"
    /\ \E i \in 0..(g.rows - 1) : g.columns[node.column].values[i + 1] \in node.value.fails

\* The loops over the operands end at one that fails, or once the mask cannot
\* change any more; *count is what the last of them has set.
AndRows(results) ==
    LET mask(n) == {i \in FullMask : \A k \in 1..n : i \in results[k].mask}
        last == Min({n \in DOMAIN results :
                        ~results[n].ok \/ mask(n) = {} \/ n = Len(results)})
    IN IF results[last].ok THEN Result(mask(last), results[last].count) ELSE Failure

\* Variant: an OR that stops at the first operand with a match.
OrRowsUntilMatch(results) ==
    LET mask(n) == {i \in FullMask : \E k \in 1..n : i \in results[k].mask}
        last == Min({n \in DOMAIN results :
                        ~results[n].ok \/ mask(n) # {} \/ n = Len(results)})
    IN IF results[last].ok THEN Result(mask(last), results[last].count) ELSE Failure

OrRows(results) ==
    LET mask(n) == {i \in FullMask : \E k \in 1..n : i \in results[k].mask}
        last == Min({n \in DOMAIN results :
                        ~results[n].ok \/ mask(n) = FullMask \/ n = Len(results)})
    IN IF results[last].ok THEN Result(mask(last), results[last].count) ELSE Failure

Positive(node, g, results) ==
    CASE node.type = "TRUE" -> Result(Cap(FullMask, g.rows), g.rows)
      [] node.type = "NULL" ->
             IF node.column \in g.broken THEN Failure
             ELSE Result({i \in 0..(g.rows - 1) : g.columns[node.column].nulls[i + 1] = 1},
                         g.rows)
      [] node.type = "AND" -> AndRows(results)
      [] node.type = "OR"  -> OrRows(results)
      [] node.type \in Comparisons \cup {"CUSTOM"} ->
             IF node.column \in g.broken \/ Unsupported(node, g) \/ CallerFails(node, g)
             THEN Failure
             ELSE Result(LeafMask(node, g), g.rows)

\* The answer of a struct, from those of its operands.
NodeRows(node, g, results) ==
    LET r == Positive(node, g, results)
    IN IF r.ok /\ node.negate THEN Result(Cap(FullMask \ r.mask, r.count), r.count) ELSE r

MatchRows(p, g) ==
    LET rows[k \in DOMAIN p] == NodeRows(p[k], g, OfOperands(p, k, rows))
    IN rows[Len(p)]

------------------------------------------------------------------------------
(* cx_index_match_indexes *)

\* Variant: the verdict of an OR.
AndVerdictOfOr(verdicts) == Max({NONE} \cup Range(verdicts))

\* The loops end early at a verdict that no other can lower, or raise.
AndVerdict(verdicts) == Min({ALL} \cup Range(verdicts))
OrVerdict(verdicts)  == Max({NONE} \cup Range(verdicts))

\* A match_index of the caller's that does what it is for: it decides when the
\* bounds leave no doubt.
CallersVerdict(index, values) ==
    LET possible == {x \in values : index.min <= x /\ x <= index.max}
    IN IF possible = {} THEN NONE
       ELSE IF index.min = index.max THEN ALL ELSE UNKNOWN

LeafVerdict(node, g) ==
    LET index == ColumnIndex(g, node.column)
        type  == g.columns[node.column].type
    IN CASE node.type = "EQ" /\ type = "bit" -> MatchBitEq(index, node.value)
         [] node.type = "EQ" /\ type = "i32" -> MatchEq(index, node.value)
         [] node.type = "LT" /\ type = "i32" -> MatchLt(index, node.value)
         [] node.type = "GT" /\ type = "i32" -> MatchGt(index, node.value)
         [] node.type = "EQ" /\ type = "str" -> MatchStrEq(index, Len(node.value.str))
         [] node.type = "CONTAINS" -> MatchStrContains(index, Len(node.value.str))
         [] node.type \in {"LT", "GT"} /\ type # "i32" -> UNKNOWN
         [] node.type = "NULL" -> MatchBitEq(NullIndexOf(g, node.column), 1)
         [] node.type = "TRUE" -> ALL
         [] node.type = "CUSTOM" -> IF node.value.index THEN CallersVerdict(index, node.value.rows)
                                 ELSE UNKNOWN

NodeVerdict(node, g, verdicts) ==
    LET verdict == CASE node.type = "AND" -> AndVerdict(verdicts)
                     [] node.type = "OR"  -> OrVerdict(verdicts)
                     [] node.type \notin Operators -> LeafVerdict(node, g)
    IN IF g.rows = 0 THEN NONE
       ELSE IF node.negate THEN -verdict ELSE verdict

MatchIndexes(p, g) ==
    LET verdict[k \in DOMAIN p] == NodeVerdict(p[k], g, OfOperands(p, k, verdict))
    IN verdict[Len(p)]

------------------------------------------------------------------------------
(* cx_predicate_optimize *)

ColumnCost(type) == CASE type = "bit" -> 1 [] type = "i32" -> 8 [] type = "str" -> 128

\* cx_predicate_cost of each struct.
Costs(p, g) ==
    LET cost[k \in DOMAIN p] ==
            CASE p[k].type = "TRUE" -> 0
              [] p[k].type = "NULL" -> ColumnCost("bit")
              [] p[k].type \in Operators -> Total(OfOperands(p, k, cost))
              [] p[k].type = "CUSTOM" /\ p[k].value.cost >= 0 -> p[k].value.cost
              [] OTHER -> ColumnCost(g.columns[p[k].column].type)
    IN cost

\* Variant: an operand may be taken twice, and another forgotten.
OrdersWithRepeats(p, g, k) ==
    LET places == DOMAIN p[k].operands
        cost   == OfOperands(p, k, Costs(p, g))
    IN {order \in [places -> places] :
            \A i, j \in places : i < j => cost[order[i]] <= cost[order[j]]}

\* qsort_r is not stable: any order of the operands in which costs do not fall.
Orders(p, g, k) ==
    LET places == DOMAIN p[k].operands
        cost   == OfOperands(p, k, Costs(p, g))
    IN {order \in Bijection(places, places) :
            \A i, j \in places : i < j => cost[order[i]] <= cost[order[j]]}

\* Every operator has its array of operands sorted.
Reordered(node, order) ==
    [node EXCEPT !.operands = [i \in DOMAIN node.operands |-> node.operands[order[i]]]]

Optimized(p, g) ==
    LET operators == {k \in DOMAIN p : p[k].type \in Operators}
        choices   == {orders \in [operators -> UNION {Orders(p, g, k) : k \in operators}] :
                          \A k \in operators : orders[k] \in Orders(p, g, k)}
    IN {[k \in DOMAIN p |-> IF k \in operators THEN Reordered(p[k], orders[k]) ELSE p[k]]
        : orders \in choices}

------------------------------------------------------------------------------
(* A reader is opened with a predicate and goes from row group to row group *)

Init == /\ group \in RowGroups
        /\ predicate \in Predicates
        /\ opened = FALSE

\* cx_reader_new_impl gives up when the predicate does not suit the first row
\* group, and optimizes it otherwise.
Open == /\ ~opened
        /\ Valid(predicate, group)
        /\ predicate' \in Optimized(predicate, group)
        /\ opened' = TRUE
        /\ UNCHANGED group

Refused == /\ ~opened /\ ~Valid(predicate, group)
           /\ UNCHANGED vars

\* The columns of all row groups of a file have the same types.
SameTypes(g, h) == /\ DOMAIN g.columns = DOMAIN h.columns
                   /\ \A c \in DOMAIN g.columns : g.columns[c].type = h.columns[c].type

NextGroup == /\ opened
             /\ group' \in {g \in RowGroups : SameTypes(g, group)}
             /\ UNCHANGED <<predicate, opened>>

Next == Open \/ Refused \/ NextGroup

Spec == Init /\ [][Next]_vars

------------------------------------------------------------------------------
(* Properties *)

\* What a predicate means for a row of a row group, or of a batch, counted from 0.
Satisfies(node, g, answers, row) ==
    LET x == g.columns[node.column].values[row + 1]
        strings == node.type \in Comparisons /\ node.column_type = "str"
    IN CASE node.type = "TRUE"   -> TRUE
         [] node.type = "NULL"   -> g.columns[node.column].nulls[row + 1] = 1
         [] strings -> CompareStr(node.type, x, node.value)
         [] node.type = "EQ" /\ ~strings -> x = node.value
         [] node.type = "LT" /\ ~strings -> x < node.value
         [] node.type = "GT" /\ ~strings -> x > node.value
         [] node.type = "CUSTOM" -> x \in node.value.rows
         [] node.type = "AND" -> \A i \in DOMAIN answers : row \in answers[i]
         [] node.type = "OR"  -> \E i \in DOMAIN answers : row \in answers[i]

NodeMeaning(node, g, answers) ==
    {row \in 0..(g.rows - 1) : IF node.negate THEN ~Satisfies(node, g, answers, row)
                                              ELSE Satisfies(node, g, answers, row)}

Meaning(p, g) ==
    LET meaning[k \in DOMAIN p] == NodeMeaning(p[k], g, OfOperands(p, k, meaning))
    IN meaning[Len(p)]

\* The mask of every batch is exactly the rows of it that satisfy the predicate,
\* with no bit beyond the rows of the batch, through negations, short-circuits
\* and reordered operands; and the count is set even when operands are skipped.
RowMasksAreExact ==
    opened => \A at \in Batches(group) :
        LET r == MatchRows(predicate, BatchAt(group, at))
        IN r.ok => /\ r.mask = {i \in 0..(r.count - 1) : at + i \in Meaning(predicate, group)}
                   /\ r.count = BatchCount(group, at)

\* A struct cannot answer for a batch: its column cannot be read, or it is the
\* caller's own and refuses.
HasCause(node, b) ==
    \/ node.type \notin Operators \cup {"TRUE"} /\ node.column \in b.broken
    \/ CallerFails(node, b)

\* A validated predicate fails on a batch only because one of its structs reads a
\* column that cannot be read, or has a match_rows that fails on this batch: never
\* by a type it does not support, a column it does not read, or a row group that
\* is not the one it was validated on.
FailuresHaveACause ==
    opened => \A at \in Batches(group) :
        LET b == BatchAt(group, at)
        IN MatchRows(predicate, b).ok \/ \E k \in DOMAIN predicate : HasCause(predicate[k], b)

\* The verdict of the indexes agrees with the rows: a row group is skipped only
\* when no row matches, and taken whole only when every row does.
VerdictsAgreeWithRows ==
    opened =>
        /\ MatchIndexes(predicate, group) = NONE => Meaning(predicate, group) = {}
        /\ MatchIndexes(predicate, group) = ALL =>
               Meaning(predicate, group) = 0..(group.rows - 1)

\* Reordering the operands changes neither the rows a predicate selects in any
\* row group nor what the indexes say, although it was decided on one of them.
OptimizeKeepsAnswers ==
    [][opened' /\ ~opened =>
           \A g \in {g \in RowGroups : SameTypes(g, group)} :
               /\ Meaning(predicate', g) = Meaning(predicate, g)
               /\ MatchIndexes(predicate', g) = MatchIndexes(predicate, g)]_vars
==============================================================================
