------------------------------ MODULE MCPredicate ------------------------------
(* Predicate for TLC: a column of numbers with nulls, or of strings, and a     *)
(* column of bits, in row groups of up to three rows, and predicates up to     *)
(* three levels deep.                                                          *)
EXTENDS Predicate

\* A leaf, and an operator over two predicates.
Leaf(type, column, column_type, value, negate) ==
    << [type |-> type, column |-> column, column_type |-> column_type,
        value |-> value, operands |-> <<>>, negate |-> negate] >>
Moved(p, n) ==
    [k \in DOMAIN p |->
        [p[k] EXCEPT !.operands = [i \in DOMAIN p[k].operands |-> p[k].operands[i] + n]]]
Operation(type, p, q, negate) ==
    p \o Moved(q, Len(p))
      \o << [type |-> type, column |-> 1, column_type |-> "bit", value |-> 0,
             operands |-> <<Len(p), Len(p) + Len(q)>>, negate |-> negate] >>

\* Custom predicates without functions, with one of them, which fails where there
\* is a 1, with both.
Custom(rows, fails, index, cost) ==
    [rows |-> rows, fails |-> fails, index |-> index, cost |-> cost]
CustomValues == {Custom({}, {}, FALSE, -1), Custom({0}, {1}, FALSE, 0), Custom({0}, {}, TRUE, 9)}

Leaves(negate) ==
    {Leaf("TRUE", 1, "bit", 0, negate)}
    \cup {Leaf("CUSTOM", 1, "i32", value, negate) : value \in CustomValues}
    \cup {Leaf(type, 1, "i32", v, negate) : type \in {"EQ", "LT", "GT"}, v \in {0, 1}}
    \cup {Leaf("EQ", 2, "bit", v, negate) : v \in {0, 1}}
NullLeaves(negate) == {Leaf("NULL", c, "bit", 0, negate) : c \in {1, 2}}
WrongLeaves == {Leaf("LT", 2, "bit", 0, FALSE), Leaf("EQ", 2, "i32", 0, FALSE),
                Leaf("TRUE", 3, "bit", 0, FALSE), Leaf("CONTAINS", 1, "i32", 0, FALSE)}

AnyLeaf == UNION {Leaves(n) \cup NullLeaves(n) : n \in BOOLEAN}

Pairs(type, left, right) ==
    {Operation(type, p, q, n) : p \in left, q \in right, n \in BOOLEAN}

FewLeaves == {Leaf("EQ", 1, "i32", 0, FALSE), Leaf("EQ", 2, "bit", 0, FALSE),
              Leaf("NULL", 1, "bit", 0, FALSE)}
Flat == AnyLeaf \cup WrongLeaves
        \cup UNION {Pairs(type, FewLeaves \cup NullLeaves(TRUE), AnyLeaf)
                    : type \in {"AND", "OR"}}

\* Operators under operators, of a few leaves.
Deep == UNION {Pairs(outer, FewLeaves, Pairs(inner, FewLeaves, FewLeaves))
               : outer \in {"AND", "OR"}, inner \in {"AND", "OR"}}

\* The empty string, "b", "B" and "aB".
Strings == {<<>>, <<2>>, <<-2>>, <<1, -2>>}
Str(s, case_sensitive, location) ==
    [str |-> s, case_sensitive |-> case_sensitive, location |-> location]
StrLeaf(type, s, case_sensitive, location, negate) ==
    Leaf(type, 1, "str", Str(s, case_sensitive, location), negate)
StrLeaves ==
    {StrLeaf(type, s, cs, "ANY", n) :
        type \in {"EQ", "LT", "GT"}, s \in Strings, cs \in BOOLEAN, n \in BOOLEAN}
    \cup {StrLeaf("CONTAINS", s, cs, l, n) : s \in Strings, cs \in BOOLEAN,
              l \in {"ANY", "START", "END"}, n \in BOOLEAN}
FewStrLeaves == {StrLeaf("CONTAINS", <<2>>, cs, "END", n) : cs \in BOOLEAN, n \in BOOLEAN}
                \cup {StrLeaf("EQ", <<>>, TRUE, "ANY", FALSE)}
StrPredicates ==
    StrLeaves \cup UNION {Pairs(type, FewStrLeaves, FewStrLeaves \cup Leaves(FALSE))
                          : type \in {"AND", "OR"}}

AnyPredicate   == Flat \cup Deep \cup StrPredicates
NullPredicates == UNION {NullLeaves(n) : n \in BOOLEAN}

Column(type, values, nulls) == [type |-> type, values |-> values, nulls |-> nulls]
GroupsOf(n, numbers, nulls) ==
    {[rows |-> n, broken |-> {},
      columns |-> <<Column("i32", v, k), Column("bit", w, [i \in 1..n |-> 0])>>] :
        v \in [1..n -> numbers], w \in [1..n -> {0, 1}], k \in nulls}
\* One row group has a column that cannot be decompressed.
BrokenGroup == [rows |-> 1, broken |-> {1},
                columns |-> <<Column("i32", <<1>>, <<0>>), Column("bit", <<1>>, <<0>>)>>]
StrGroups(n, bits) ==
    {[rows |-> n, broken |-> {},
      columns |-> <<Column("str", v, [i \in 1..n |-> 0]), Column("bit", bits, [i \in 1..n |-> 0])>>] :
        v \in [1..n -> Strings]}
EmptyGroup == GroupsOf(0, {0}, {<<>>})
FewNulls   == {<<0, 0>>, <<0, 1>>}
\* Two batches, the second of them short.
LongGroups == {[rows |-> 3, broken |-> {},
                columns |-> <<Column("i32", v, <<0, 0, 1>>), Column("bit", w, <<0, 0, 0>>)>>] :
                   v \in {<<0, 1, 0>>, <<1, 1, 0>>}, w \in {<<1, 1, 0>>, <<0, 1, 1>>}}
AnyGroup   == LongGroups \cup GroupsOf(2, {0, 1}, FewNulls)
              \cup GroupsOf(1, {-1, 0, 1}, {<<0>>, <<1>>})
              \cup EmptyGroup \cup {BrokenGroup}
              \cup StrGroups(2, <<0, 1>>) \cup StrGroups(1, <<1>>)
==============================================================================
