------------------------------- MODULE MCReader -------------------------------
(* Reader for TLC: files of up to two row groups of up to three rows, and of   *)
(* one row group of up to five.                                                *)
EXTENDS Reader

GroupsUpTo(n) ==
    UNION { { [rows |-> k, matches |-> m, verdict |-> v] :
              m \in SUBSET (0..(k - 1)),
              v \in {"NONE", "UNKNOWN", "ALL"} } : k \in 0..n }

Possible(g) == /\ g.verdict = "NONE" => g.matches = {}
               /\ g.verdict = "ALL" => g.matches = 0..(g.rows - 1)
               /\ g.rows = 0 => g.verdict = "NONE"

SmallFiles == LET G == { g \in GroupsUpTo(5) : Possible(g) }
                  H == { g \in GroupsUpTo(3) : Possible(g) }
              IN { <<>> } \cup { <<g>> : g \in G } \cup (H \X H)
==============================================================================
