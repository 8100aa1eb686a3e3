--------------------------- MODULE MCRowGroupWriter ---------------------------
(* RowGroupWriter for TLC: a row group with one row and one with none, and   *)
(* the sets of faults the runs choose from.                                  *)
EXTENDS RowGroupWriter

CONSTANTS full, empty

SameMetadata == Permutations(Metadata)

MCRowsIn == [g \in Groups |-> IF g = full THEN 1 ELSE 0]

AnyFault == {"name", "metadata", "header", "column", "columnHeaders", "strings",
             "groupHeaders", "descriptors", "footer", "truncate", "sync", "close",
             "seek"}
HeaderFaults == {"columnHeaders"}
NoFaults     == {}
===============================================================================
