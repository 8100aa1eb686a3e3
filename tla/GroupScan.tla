------------------------------ MODULE GroupScan ------------------------------
(***************************************************************************)
(* What cx_reader_query promises its caller, with no threads in sight: the *)
(* row groups are visited in any order, each at most once; the call        *)
(* answers "true" only when every row group was visited whole, "false"     *)
(* only when one was lost or when the call gave up before visiting any;    *)
(* and nothing is visited once it has answered.  A call that gives up on a *)
(* scan it has begun answers nothing one could rely on.                    *)
(***************************************************************************)
EXTENDS Integers

VARIABLES groupCount,  \* row groups in the open file, fixed while it is open
          visited,     \* groups whose rows have reached the caller's data
          lost,        \* groups that could not be read
          outcome      \* "pending", then what the call returned, or "abandoned"

vars == <<groupCount, visited, lost, outcome>>

Groups == 0..(groupCount - 1)

Init == /\ groupCount \in Nat
        /\ visited = {}
        /\ lost = {}
        /\ outcome = "pending"

\* A group is visited whole, or lost, at most once and never both.
Fresh(g) == outcome = "pending" /\ g \notin visited \cup lost

Visit(g) == /\ Fresh(g)
            /\ visited' = visited \cup {g}
            /\ UNCHANGED <<groupCount, lost, outcome>>

Lose(g) == /\ Fresh(g)
           /\ lost' = lost \cup {g}
           /\ UNCHANGED <<groupCount, visited, outcome>>

\* Some rows of a group may be visited before it turns out that the others
\* cannot be.
VisitPart(g) == /\ outcome = "pending" /\ g \in lost
                /\ visited' = visited \cup {g}
                /\ UNCHANGED <<groupCount, lost, outcome>>

ReturnTrue == /\ outcome = "pending"
              /\ visited = Groups
              /\ outcome' = "true"
              /\ UNCHANGED <<groupCount, visited, lost>>

ReturnFalse == /\ outcome = "pending"
               /\ lost # {} \/ visited = {}
               /\ outcome' = "false"
               /\ UNCHANGED <<groupCount, visited, lost>>

Abandon == /\ outcome = "pending"
           /\ outcome' = "abandoned"
           /\ UNCHANGED <<groupCount, visited, lost>>

Next == \/ \E g \in Groups : Visit(g) \/ Lose(g) \/ VisitPart(g)
        \/ ReturnTrue
        \/ ReturnFalse
        \/ Abandon

Spec == Init /\ [][Next]_vars
==============================================================================
