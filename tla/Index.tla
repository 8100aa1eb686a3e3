--------------------------------- MODULE Index ---------------------------------
(***************************************************************************)
(* The index of a column (lib/index.c): cx_index_new scans the column once *)
(* and keeps its number of rows and the bounds of its values;              *)
(* cx_index_match_<type>_<op> tell from the index alone whether all, none  *)
(* or some of the rows match.                                              *)
(*                                                                         *)
(* The six types differ only in their values: the integers of a width, the *)
(* bits 0 and 1, the lengths of strings, and floating point numbers, where *)
(* one value, NaN, compares with nothing.                                  *)
(***************************************************************************)
EXTENDS IndexMatch, Sequences

CONSTANTS
    Values,      \* the values of the column's type
    MaxValue,    \* where the minimum starts: INT32_MAX, FLT_MAX, ...
    BatchSize,   \* values a column cursor hands out at once (64)
    MaxRows      \* bound on the length of the column

ASSUME IndexAssumption ==
    /\ Values \ {NaN} \subseteq Int
    /\ NaN \notin Int
    /\ MaxValue \in Int
    /\ BatchSize \in Nat \ {0}
    /\ MaxRows \in Nat

VARIABLES
    column,      \* the values put so far
    pc,          \* "put", "scan" while cx_index_new runs, then "done"
    scanned,     \* values the loops have gone through
    count,       \* index->count, which is ahead of them by the current batch
    min, max     \* index->min and index->max

vars == <<column, pc, scanned, count, min, max>>

Init == /\ column = <<>>
        /\ pc = "put"
        /\ scanned = 0 /\ count = 0
        /\ min = MaxValue
        /\ max = 0

Put(v) == /\ pc = "put" /\ Len(column) < MaxRows
          /\ column' = Append(column, v)
          /\ UNCHANGED <<pc, scanned, count, min, max>>

New == /\ pc = "put"
       /\ pc' = "scan"
       /\ UNCHANGED <<column, scanned, count, min, max>>

\* The cursor is valid: the next batch is counted before it is looked at.
NextBatch == /\ pc = "scan" /\ scanned = count /\ count < Len(column)
             /\ count' = IF count + BatchSize < Len(column)
                         THEN count + BatchSize ELSE Len(column)
             /\ UNCHANGED <<column, pc, scanned, min, max>>

\* Variant: a value is taken unless it compares lower, which NaN does not.
TakeUnlessBelow(value) ==
    /\ max' = IF ~Below(value, max) THEN value ELSE max
    /\ min' = IF Below(value, min) THEN value ELSE min

Take(value) == /\ max' = IF Below(max, value) THEN value ELSE max
               /\ min' = IF Below(value, min) THEN value ELSE min

Update == /\ pc = "scan" /\ scanned < count
          /\ Take(column[scanned + 1])
          /\ scanned' = scanned + 1
          /\ UNCHANGED <<column, pc, count>>

Built == /\ pc = "scan" /\ scanned = count /\ count = Len(column)
         /\ pc' = "done"
         /\ UNCHANGED <<column, scanned, count, min, max>>

\* The row group of the column is refused: the index is freed, the column stays
\* and may grow before it is indexed again.
Discard == /\ pc = "done"
           /\ pc' = "put"
           /\ scanned' = 0 /\ count' = 0
           /\ min' = MaxValue /\ max' = 0
           /\ UNCHANGED column

Done == pc = "done" /\ UNCHANGED vars

Next == \/ \E v \in Values : Put(v)
        \/ New \/ NextBatch \/ Update \/ Built \/ Discard \/ Done

Spec == Init /\ [][Next]_vars

------------------------------------------------------------------------------
(* Properties *)

\* Every variable keeps its type.
TypeOK == /\ column \in Seq(Values)
          /\ pc \in {"put", "scan", "done"}
          /\ scanned \in Nat /\ count \in Nat
          /\ min \in Int /\ max \in Int

TheIndex == [count |-> count, min |-> min, max |-> max]

\* A verdict about the rows that satisfy Match(_) is sound when NONE means no
\* row does and ALL means every row does.
Sound(verdict, matches) ==
    /\ verdict = NONE => matches = {}
    /\ verdict = ALL  => matches = DOMAIN column

Rows(Match(_)) == {i \in DOMAIN column : Match(column[i])}

ColumnOf(values) == \A i \in DOMAIN column : column[i] \in values

\* A finished index never rules out a row that matches nor takes in one that
\* does not, for any operator and any operand: a row group that is skipped, or
\* counted without being read, is skipped or counted rightly (the masks and the
\* verdicts of test/predicate.c:312-345 go together).
VerdictsAreSound ==
    pc = "done" =>
        \A v \in Values :
            /\ Sound(MatchEq(TheIndex, v), Rows(LAMBDA x : Equal(x, v)))
            /\ Sound(MatchLt(TheIndex, v), Rows(LAMBDA x : Below(x, v)))
            /\ Sound(MatchGt(TheIndex, v), Rows(LAMBDA x : Below(v, x)))

\* It is so of every column without NaN: of negative values, for which the
\* maximum starts too high, of one value, of none.
NumericVerdictsAreSound == ColumnOf(Values \ {NaN}) => VerdictsAreSound

\* The half of it that also holds of floating point values with NaN among
\* them: a row group that is skipped has no row that matches.
SkippedGroupsHaveNoMatch ==
    pc = "done" =>
        \A v \in Values :
            /\ MatchEq(TheIndex, v) = NONE => Rows(LAMBDA x : Equal(x, v)) = {}
            /\ MatchLt(TheIndex, v) = NONE => Rows(LAMBDA x : Below(x, v)) = {}
            /\ MatchGt(TheIndex, v) = NONE => Rows(LAMBDA x : Below(v, x)) = {}

\* The verdicts on a column of bits are sound, and its count is the number of
\* rows, whatever the last batch holds.
BitVerdictsAreSound ==
    pc = "done" /\ ColumnOf({0, 1}) =>
        /\ count = Len(column)
        /\ \A v \in {0, 1} :
               Sound(MatchBitEq(TheIndex, v), Rows(LAMBDA x : x = v))

\* Of a column of the lengths of strings: a string that is equal to another is
\* as long, and one that contains another is at least as long, so that a row
\* group is skipped only when no string can match.
LengthVerdictsAreSound ==
    pc = "done" /\ ColumnOf(Nat) =>
        \A length \in Values \cap Nat :
            /\ Sound(MatchStrEq(TheIndex, length), Rows(LAMBDA x : x = length))
            /\ Sound(MatchStrContains(TheIndex, length),
                     Rows(LAMBDA x : x >= length))
==============================================================================
