------------------------------ MODULE IndexMatch ------------------------------
(***************************************************************************)
(* What an index [count, min, max] of a column tells of its rows without   *)
(* reading them (cx_index_match_<type>_<op> of lib/index.c): all of them   *)
(* match, none does, or it cannot tell.  The functions of the numeric      *)
(* types are the same but for the type.                                    *)
(***************************************************************************)
EXTENDS Integers

CONSTANT NaN   \* of the floating point values, the one that compares with none

\* Comparison of C values: none holds of NaN.
Below(a, b) == a # NaN /\ b # NaN /\ a < b
Equal(a, b) == a # NaN /\ b # NaN /\ a = b

\* enum cx_index_match

NONE    == -1
UNKNOWN == 0
ALL     == 1

\* Variant: the maximum taken as exclusive.
MatchEqExclusive(index, v) ==
    IF Below(v, index.min) \/ ~Below(v, index.max) THEN NONE
    ELSE IF Equal(index.min, v) /\ Equal(index.max, v) THEN ALL
    ELSE UNKNOWN

MatchEq(index, v) ==
    IF Below(v, index.min) \/ Below(index.max, v) THEN NONE
    ELSE IF Equal(index.min, v) /\ Equal(index.max, v) THEN ALL
    ELSE UNKNOWN

\* Variant: the maximum taken as exclusive.
MatchLtExclusive(index, v) ==
    IF Below(v, index.min) \/ Equal(v, index.min) THEN NONE
    ELSE IF ~Below(v, index.max) THEN ALL
    ELSE UNKNOWN

MatchLt(index, v) ==
    IF Below(v, index.min) \/ Equal(v, index.min) THEN NONE
    ELSE IF Below(index.max, v) THEN ALL
    ELSE UNKNOWN

MatchGt(index, v) ==
    IF Below(v, index.min) THEN ALL
    ELSE IF Below(index.max, v) \/ Equal(index.max, v) THEN NONE
    ELSE UNKNOWN

\* Variant: the minimum is not looked at.
MatchBitEqOnMax(index, v) ==
    IF index.max = 1 THEN (IF v = 1 THEN ALL ELSE NONE)
    ELSE (IF v = 1 THEN NONE ELSE ALL)

\* Bits are the numbers 0 and 1.
MatchBitEq(index, v) ==
    IF index.min = 1 /\ index.max = 1 THEN (IF v = 1 THEN ALL ELSE NONE)
    ELSE IF index.min = 0 /\ index.max = 0 THEN (IF v = 1 THEN NONE ELSE ALL)
    ELSE UNKNOWN

\* Of strings the index knows only the lengths.
MatchStrEq(index, length) ==
    IF index.min > length \/ index.max < length THEN NONE ELSE UNKNOWN

\* Variant: the shortest string instead of the longest.
MatchStrContainsOnMin(index, length) ==
    IF index.min < length THEN NONE ELSE UNKNOWN

MatchStrContains(index, length) ==
    IF index.max < length THEN NONE ELSE UNKNOWN
==============================================================================
