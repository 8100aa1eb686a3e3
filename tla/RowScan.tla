------------------------------- MODULE RowScan -------------------------------
(***************************************************************************)
(* What a cx_reader promises: the matching rows of the file one by one, in *)
(* the order of the file, then "end"; or, at any moment, "error" and       *)
(* nothing but "error" until the reader is rewound.  Counting answers the  *)
(* number of matching rows and uses the scan up, or answers in place.      *)
(***************************************************************************)
EXTENDS Integers, FiniteSets

VARIABLES rows,     \* the matching rows, as pairs <<row group, row>>
          passed,   \* those handed out since the last rewind, or counted
          failed,   \* cx_reader_error
          answer    \* of the last call

vars == <<rows, passed, failed, answer>>

Before(x, y) == x[1] < y[1] \/ (x[1] = y[1] /\ x[2] < y[2])
Remaining == rows \ passed

Init == /\ IsFiniteSet(rows)
        /\ passed = {} /\ failed = FALSE /\ answer = <<"none">>

NextRow == /\ ~failed
           /\ \E x \in Remaining :
                /\ \A y \in Remaining \ {x} : Before(x, y)
                /\ passed' = passed \cup {x}
                /\ answer' = <<"row", x>>
           /\ UNCHANGED <<rows, failed>>

NextEnd == /\ ~failed /\ Remaining = {}
           /\ answer' = <<"end">>
           /\ UNCHANGED <<rows, passed, failed>>

Fail == /\ failed' = TRUE /\ answer' = <<"error">>
        /\ UNCHANGED <<rows, passed>>

Count == /\ answer' = <<"count", Cardinality(rows)>>
         /\ \/ passed' = passed
            \/ ~failed /\ passed' = rows
         /\ UNCHANGED <<rows, failed>>

Rewind == /\ passed' = {} /\ failed' = FALSE /\ answer' = <<"none">>
          /\ UNCHANGED rows

Next == NextRow \/ NextEnd \/ Fail \/ Count \/ Rewind

Spec == Init /\ [][Next]_vars
==============================================================================
