----------------------------- MODULE WriterProofs -----------------------------
(***************************************************************************)
(* Proofs about Writer, for any number of columns, rows, row group sizes   *)
(* and failures.  What is in the way is that a column is two sequences,    *)
(* stored one after the other, and that a failure between the two leaves   *)
(* the column askew for good.                                              *)
(***************************************************************************)
EXTENDS Writer, TLAPS, SequenceTheorems, SequenceLemmas

Cell == (1..MaxRows) \cup {Null}
ColumnData == [values : Seq(Nat), nulls : Seq(BOOLEAN)]
RowGroup == [Columns -> ColumnData]
Group == [columns : RowGroup, refused : BOOLEAN]

InPut == pc \in {"put:flush", "put:ensure", "put:value", "put:null"}

\* The types, and what a call in progress is about.
Types ==
    /\ row_group_size \in RowGroupSizes /\ row_order \in RowOrders
    /\ column_count \in Nat /\ descriptors \in Nat
    /\ column_count <= descriptors /\ descriptors <= MaxColumns
    /\ columns # None => columns \in RowGroup /\ column_count > 0
    /\ position \in Nat
    /\ header_written \in BOOLEAN /\ footer_written \in BOOLEAN
    /\ written \in Seq(Group)
    /\ pc \in {"idle", "put:flush", "put:ensure", "put:value", "put:null",
               "finish:flush", "finish:file"}
    /\ given \in [1..MaxColumns -> Seq(Cell)]
    /\ final # None => final \in [1..MaxColumns -> Seq(Cell)]
    /\ failed \subseteq Faults /\ faults \in 0..MaxFaults

CallInv ==
    /\ InPut => /\ call = <<call[1], call[2]>> /\ call[1] \in Columns
                /\ call[2] \in Cell
                /\ Len(given[call[1]]) < MaxRows
    /\ ~InPut => call = <<>>
    /\ pc = "put:flush" => position = row_group_size
    /\ pc = "put:ensure" => columns = None
    /\ pc \in {"put:value", "put:null"} => columns # None
    /\ pc = "finish:file" => columns = None

\* A file that has row groups has a header, which fixes the columns.
HeaderInv ==
    /\ written # <<>> \/ footer_written => header_written
    /\ final # None => footer_written
    /\ "name" \notin failed => column_count = descriptors

Ahead(column) == Len(column.values) - Len(column.nulls)

\* The cells of a column up to its last null bit.
Cellwise(column) == [k \in 1..Len(column.nulls) |->
    IF column.nulls[k] THEN Null ELSE column.values[k]]

\* A value of column i waits for its null bit.
Pending(i) == pc = "put:null" /\ call[1] = i

Stored(cell) == IF cell = Null THEN Unit ELSE cell

\* A column holds the cells that are given and not written, as long as it has no
\* value that lost its null bit.
ColumnInv(i) ==
    /\ Len(given[i]) = Len(WrittenCells(i)) + Len(columns[i].nulls)
    /\ Ahead(columns[i]) >= 0
    /\ Pending(i) =>
           /\ Ahead(columns[i]) >= 1
           /\ columns[i].values[Len(columns[i].values)] = Stored(call[2])
    /\ "null" \notin failed => Ahead(columns[i]) = IF Pending(i) THEN 1 ELSE 0
    /\ Ahead(columns[i]) = (IF Pending(i) THEN 1 ELSE 0) =>
           given[i] = WrittenCells(i) \o Cellwise(columns[i])

DataInv ==
    /\ \A i \in 1..MaxColumns :
           /\ Len(given[i]) <= MaxRows
           /\ i \notin Columns => given[i] = <<>>
    /\ \A i \in Columns :
           /\ IsPrefix(WrittenCells(i), given[i])
           /\ Len(WrittenCells(i)) = Len(WrittenCells(1))
           /\ columns = None => given[i] = WrittenCells(i)
           /\ columns # None => ColumnInv(i)
    /\ position = IF columns = None THEN 0 ELSE Len(columns[1].nulls)

FinalInv == final # None => \A i \in Columns : WrittenCells(i) = final[i]

\* A row group that is counted was handed over with the cells that come after those
\* of the accepted ones before it.
GroupsInv == \A k \in DOMAIN written : \A i \in Columns :
    IsPrefix(CellsIn(SubSeq(written, 1, k - 1), i) \o Decode(written[k].columns[i]),
             given[i])

\* An accepted row group that is not full is the last, and the file is being
\* finished.
FullInv == "finish" \notin failed =>
    \A g \in DOMAIN written :
        \/ written[g].refused
        \/ RowsIn(written[g].columns) = row_group_size
        \/ g = Len(written) /\ (pc = "finish:file" \/ footer_written)

Inv == Types /\ CallInv /\ HeaderInv /\ DataInv /\ FinalInv /\ GroupsInv /\ FullInv

------------------------------------------------------------------------------
(* Prefixes, and what a column's two sequences make together. *)

\* What is a prefix of a sequence is one of any continuation of it.
LEMMA PrefixGrows ==
    ASSUME NEW S, NEW s \in Seq(S), NEW t \in Seq(S), NEW u \in Seq(S),
           IsPrefix(s, t)
    PROVE  IsPrefix(s, t \o u)
<1>1. SubSeq(t \o u, 1, Len(s)) = SubSeq(t, 1, Len(s))
    <2>1. CASE Len(s) = 0
        BY <2>1, SubSeqEmpty
    <2>2. CASE Len(s) # 0
        BY <2>2, SubSeqOfConcat1 DEF IsPrefix
    <2> QED BY <2>1, <2>2
<1>2. Len(s) <= Len(t \o u)
    BY DEF IsPrefix
<1> QED BY <1>1, <1>2 DEF IsPrefix

\* A sequence is a prefix of its continuation.
LEMMA PrefixOfConcat ==
    ASSUME NEW S, NEW s \in Seq(S), NEW t \in Seq(S)
    PROVE  IsPrefix(s, s \o t)
<1>1. IsPrefix(s, s)
    BY DEF IsPrefix
<1> QED BY <1>1, PrefixGrows

Value == Nat \cup {Null}

\* A column decodes to as many cells as it has values.
LEMMA DecodeType ==
    ASSUME NEW column \in ColumnData
    PROVE  /\ Decode(column) \in Seq(Value)
           /\ Len(Decode(column)) = Len(column.values)
<1>1. /\ DOMAIN column.values = 1..Len(column.values)
      /\ Len(column.values) \in Nat
      /\ \A k \in 1..Len(column.values) : column.values[k] \in Nat
    BY DEF ColumnData
<1>2. Decode(column) \in [1..Len(column.values) -> Value]
    BY <1>1 DEF Decode, Value
<1> QED BY <1>1, <1>2

\* As long as there are as many of both, the cells are those a reader makes.
LEMMA CellwiseIsDecode ==
    ASSUME NEW column \in ColumnData, Ahead(column) = 0
    PROVE  Cellwise(column) = Decode(column)
<1>1. /\ DOMAIN column.values = 1..Len(column.values)
      /\ Len(column.values) = Len(column.nulls)
    BY DEF ColumnData, Ahead
<1> QED BY <1>1 DEF Cellwise, Decode

\* A column has as many whole cells as null bits.
LEMMA CellwiseType ==
    ASSUME NEW column \in ColumnData, Ahead(column) >= 0
    PROVE  /\ Cellwise(column) \in Seq(Value)
           /\ Len(Cellwise(column)) = Len(column.nulls)
<1>1. /\ Len(column.nulls) \in Nat
      /\ \A k \in 1..Len(column.nulls) : column.values[k] \in Nat
    BY DEF ColumnData, Ahead
<1>2. Cellwise(column) \in [1..Len(column.nulls) -> Value]
    BY <1>1 DEF Cellwise, Value
<1> QED BY <1>1, <1>2

\* A value is appended: no cell is there yet.
LEMMA ValueAppended ==
    ASSUME NEW column \in ColumnData, Ahead(column) >= 0, NEW value \in Nat,
           NEW after, after = [column EXCEPT !.values = Append(@, value)]
    PROVE  /\ after \in ColumnData
           /\ after.nulls = column.nulls
           /\ after.values[Len(after.values)] = value
           /\ Ahead(after) = Ahead(column) + 1
           /\ Cellwise(after) = Cellwise(column)
<1>1. /\ after = [values |-> Append(column.values, value), nulls |-> column.nulls]
      /\ column.values \in Seq(Nat) /\ column.nulls \in Seq(BOOLEAN)
      /\ Append(column.values, value) \in Seq(Nat)
      /\ after \in ColumnData
    <2>1. /\ column = [values |-> column.values, nulls |-> column.nulls]
          /\ column.values \in Seq(Nat) /\ column.nulls \in Seq(BOOLEAN)
        BY DEF ColumnData
    <2>2. Append(column.values, value) \in Seq(Nat)
        BY <2>1, AppendProperties
    <2>3. after = [values |-> Append(column.values, value), nulls |-> column.nulls]
        BY <2>1
    <2> QED BY <2>1, <2>2, <2>3 DEF ColumnData
<1>2. /\ Len(after.values) = Len(column.values) + 1
      /\ after.values[Len(after.values)] = value
      /\ \A k \in 1..Len(column.values) : after.values[k] = column.values[k]
    BY <1>1
<1>3. Ahead(after) = Ahead(column) + 1
    BY <1>1, <1>2 DEF Ahead
<1>4. \A k \in 1..Len(column.nulls) : after.values[k] = column.values[k]
    BY <1>1, <1>2 DEF Ahead
<1>5. Cellwise(after) = Cellwise(column)
    BY <1>1, <1>4 DEF Cellwise
<1> QED BY <1>1, <1>2, <1>3, <1>5

\* A null bit is appended: with the value that waits for it, it is a cell.
LEMMA NullBitAppended ==
    ASSUME NEW column \in ColumnData, Ahead(column) >= 1, NEW bit \in BOOLEAN,
           NEW after, after = [column EXCEPT !.nulls = Append(@, bit)]
    PROVE  /\ after \in ColumnData
           /\ Len(after.nulls) = Len(column.nulls) + 1
           /\ Ahead(after) = Ahead(column) - 1
           /\ Ahead(column) = 1 =>
                  Cellwise(after) = Append(Cellwise(column),
                      IF bit THEN Null ELSE column.values[Len(column.values)])
<1>1. /\ after = [values |-> column.values, nulls |-> Append(column.nulls, bit)]
      /\ column.values \in Seq(Nat) /\ column.nulls \in Seq(BOOLEAN)
      /\ Append(column.nulls, bit) \in Seq(BOOLEAN)
      /\ after \in ColumnData
    <2>1. /\ column = [values |-> column.values, nulls |-> column.nulls]
          /\ column.values \in Seq(Nat) /\ column.nulls \in Seq(BOOLEAN)
        BY DEF ColumnData
    <2>2. Append(column.nulls, bit) \in Seq(BOOLEAN)
        BY <2>1, AppendProperties
    <2>3. after = [values |-> column.values, nulls |-> Append(column.nulls, bit)]
        BY <2>1
    <2> QED BY <2>1, <2>2, <2>3 DEF ColumnData
<1>2. /\ Len(after.nulls) = Len(column.nulls) + 1
      /\ after.nulls[Len(after.nulls)] = bit
      /\ \A k \in 1..Len(column.nulls) : after.nulls[k] = column.nulls[k]
    BY <1>1
<1>3. /\ Ahead(after) = Ahead(column) - 1
      /\ Ahead(column) \in Int /\ Ahead(column) >= 0 /\ Ahead(after) >= 0
    <2>1. /\ Len(column.values) \in Nat /\ Len(column.nulls) \in Nat
          /\ after.values = column.values
        BY <1>1
    <2>2. /\ Ahead(column) = Len(column.values) - Len(column.nulls)
          /\ Ahead(after) = Len(column.values) - (Len(column.nulls) + 1)
        BY <1>2, <2>1 DEF Ahead
    <2> QED BY <2>1, <2>2
<1>4. ASSUME Ahead(column) = 1
      PROVE  Cellwise(after) = Append(Cellwise(column),
                 IF bit THEN Null ELSE column.values[Len(column.values)])
    <2> DEFINE n == Len(column.nulls)
               cell == IF bit THEN Null ELSE column.values[Len(column.values)]
               s == Cellwise(after)
               t == Append(Cellwise(column), cell)
    <2>1. Len(column.values) = n + 1 /\ n \in Nat
        BY <1>1, <1>4 DEF Ahead
    <2>2. cell \in Value
        BY <1>1, <2>1 DEF Value
    <2>3. Cellwise(column) \in Seq(Value) /\ Len(Cellwise(column)) = n
        BY <1>3, CellwiseType
    <2>4. s \in Seq(Value) /\ Len(s) = n + 1
        <3>1. Len(after.nulls) = n + 1
            BY <1>2
        <3> HIDE DEF n
        <3> QED BY <1>1, <1>3, <3>1, CellwiseType
    <2>5. /\ t \in Seq(Value) /\ Len(t) = n + 1 /\ t[n + 1] = cell
          /\ \A k \in 1..n : t[k] = Cellwise(column)[k]
        BY <2>2, <2>3, AppendProperties
    <2>6. s[n + 1] = cell
        BY <1>1, <1>2, <2>1 DEF Cellwise
    <2>7. ASSUME NEW k \in 1..n PROVE s[k] = Cellwise(column)[k]
        BY <1>1, <1>2, <2>1 DEF Cellwise
    <2> HIDE DEF s, t, n, cell
    <2>8. \A k \in 1..(n + 1) : s[k] = t[k]
        BY <2>1, <2>5, <2>6, <2>7
    <2>9. s = t
        BY <2>4, <2>5, <2>8, SeqEqual
    <2> QED BY <2>9 DEF s, t, cell
<1> QED BY <1>1, <1>2, <1>3, <1>4

------------------------------------------------------------------------------
(* The cells of the row groups that are written. *)

\* A row group holds a sequence of cells in each column, or none if it was refused.
LEMMA HeldType ==
    ASSUME NEW group \in Group, NEW i \in Columns
    PROVE  Held(group, i) \in Seq(Value)
<1>1. group.columns[i] \in ColumnData /\ group.refused \in BOOLEAN
    BY DEF Group, RowGroup
<1>2. Decode(group.columns[i]) \in Seq(Value)
    BY <1>1, DecodeType
<1> QED BY <1>2, EmptySeq DEF Held

\* Decoding one column of every row group gives a sequence of sequences of cells.
LEMMA DecodedGroups ==
    ASSUME NEW groups \in Seq(Group), NEW i \in Columns
    PROVE  [g \in DOMAIN groups |-> Held(groups[g], i)] \in Seq(Seq(Value))
<1>1. DOMAIN groups = 1..Len(groups) /\ Len(groups) \in Nat
    OBVIOUS
<1>2. ASSUME NEW g \in 1..Len(groups) PROVE Held(groups[g], i) \in Seq(Value)
    <2>1. groups[g] \in Group
        BY ElementOfSeq
    <2> QED BY <2>1, HeldType
<1>3. [g \in DOMAIN groups |-> Held(groups[g], i)] \in [1..Len(groups) -> Seq(Value)]
    BY <1>1, <1>2
<1> QED BY <1>1, <1>3

\* Row groups hold sequences of cells.
LEMMA CellsType ==
    ASSUME NEW groups \in Seq(Group), NEW i \in Columns
    PROVE  CellsIn(groups, i) \in Seq(Value)
BY DecodedGroups, FlattenType DEF CellsIn

\* No row groups hold no cells.
LEMMA NoCells == ASSUME NEW i PROVE CellsIn(<<>>, i) = <<>>
<1>1. [g \in DOMAIN <<>> |-> Held(<<>>[g], i)] = <<>>
    OBVIOUS
<1>2. FlattenSeq(<<>>) = <<>>
    BY DEF FlattenSeq
<1> QED BY <1>1, <1>2 DEF CellsIn

\* A row group that is counted adds the cells it holds, in every column.
LEMMA CellsAppend ==
    ASSUME NEW groups \in Seq(Group), NEW group \in Group, NEW i \in Columns
    PROVE  CellsIn(Append(groups, group), i) = CellsIn(groups, i) \o Held(group, i)
<1> DEFINE before == [g \in DOMAIN groups |-> Held(groups[g], i)]
           more == Append(groups, group)
           after == [g \in DOMAIN more |-> Held(more[g], i)]
           n == Len(groups)
<1>1. before \in Seq(Seq(Value))
    BY DecodedGroups
<1>2. /\ more \in Seq(Group) /\ Len(more) = n + 1 /\ n \in Nat
      /\ more[n + 1] = group /\ \A g \in 1..n : more[g] = groups[g]
    BY AppendProperties
<1>3. Held(group, i) \in Seq(Value)
    BY HeldType
<1>4. after \in Seq(Seq(Value))
    <2> HIDE DEF more
    <2> QED BY <1>2, DecodedGroups
<1>5. DOMAIN groups = 1..n /\ DOMAIN more = 1..(n + 1)
    <2> HIDE DEF more
    <2> QED BY <1>2
<1>6. Len(before) = n /\ Len(after) = n + 1
    <2> HIDE DEF more
    <2> QED BY <1>1, <1>2, <1>4, <1>5
<1> DEFINE appended == Append(before, Held(group, i))
<1>7. /\ appended \in Seq(Seq(Value)) /\ Len(appended) = n + 1
      /\ appended[n + 1] = Held(group, i)
      /\ \A g \in 1..n : appended[g] = before[g]
    <2> HIDE DEF before, n
    <2> QED BY <1>1, <1>2, <1>3, <1>6, AppendProperties
<1>8. \A g \in 1..(n + 1) : after[g] = appended[g]
    <2>1. ASSUME NEW g \in 1..n PROVE after[g] = appended[g]
        <3>1. after[g] = Held(more[g], i) /\ before[g] = Held(groups[g], i)
            BY <1>2, <1>5
        <3> QED BY <1>2, <1>7, <3>1
    <2>2. after[n + 1] = Held(more[n + 1], i)
        BY <1>2, <1>5
    <2>3. after[n + 1] = appended[n + 1]
        BY <1>2, <1>7, <2>2
    <2> HIDE DEF after, appended, n
    <2> QED BY <1>2, <2>1, <2>3
<1>9. after = appended
    <2> HIDE DEF after, appended, n
    <2> QED BY <1>4, <1>6, <1>7, <1>8, SeqEqual
<1>10. FlattenSeq(appended) = FlattenSeq(before) \o Held(group, i)
    <2> HIDE DEF before
    <2> QED BY <1>1, <1>3, FlattenAppend
<1> QED BY <1>9, <1>10 DEF CellsIn

------------------------------------------------------------------------------
(* The types, and the call in progress. *)

USE DEF settings, callVars, faultVars, vars, Columns

\* What fails is one of the faults, and is counted.
LEMMA FaultTypes ==
    ASSUME Types, NEW what, MayFail(what)
    PROVE  failed' \subseteq Faults /\ faults' \in 0..MaxFaults
BY WriterAssumption DEF Types, MayFail

\* A row group is never taken for none.
LEMMA GroupIsNotNone == ASSUME Types, NEW group \in RowGroup PROVE group # None
<1>1. column_count \in 0..MaxColumns
    BY WriterAssumption DEF Types
<1>2. None \notin [1..column_count -> ColumnData]
    BY <1>1, WriterAssumption DEF ColumnData
<1> QED BY <1>2 DEF RowGroup

\* What StoreValue and StoreNull do to the column of the call.
LEMMA ValueStored ==
    ASSUME Types, CallInv, StoreValue, pc' # "idle"
    PROVE  LET c == call[1] IN
           /\ columns # None /\ c \in Columns /\ columns[c] \in ColumnData
           /\ Stored(call[2]) \in Nat
           /\ columns'[c] = [columns[c] EXCEPT !.values = Append(@, Stored(call[2]))]
           /\ \A i \in Columns : i # c => columns'[i] = columns[i]
           /\ columns' \in RowGroup /\ columns' # None
           /\ pc' = "put:null" /\ UNCHANGED <<call, failed>>
<1> DEFINE c == call[1]
           value == Stored(call[2])
           after == [columns[c] EXCEPT !.values = Append(@, value)]
<1>1. /\ columns # None /\ columns \in RowGroup /\ c \in Columns
      /\ columns[c] \in ColumnData
    BY DEF StoreValue, CallInv, InPut, Types, RowGroup
<1>2. /\ columns' = [columns EXCEPT ![c] = after]
      /\ pc' = "put:null" /\ UNCHANGED <<call, failed>>
    BY DEF StoreValue, Stored, Goto, Return
<1>3. value \in Nat
    BY WriterAssumption DEF StoreValue, CallInv, InPut, Stored, Cell, Unit
<1>4. after \in ColumnData
    <2> HIDE DEF value
    <2>1. Append(columns[c].values, value) \in Seq(Nat)
        BY <1>1, <1>3, AppendProperties DEF ColumnData
    <2> QED BY <1>1, <2>1 DEF ColumnData
<1>5. /\ columns' \in RowGroup /\ columns'[c] = after
      /\ \A i \in Columns : i # c => columns'[i] = columns[i]
    <2> HIDE DEF after, c
    <2> QED BY <1>1, <1>2, <1>4 DEF RowGroup
<1>6. columns' # None
    BY <1>5, GroupIsNotNone
<1> QED BY <1>1, <1>2, <1>3, <1>5, <1>6

\* The null bit of the call is stored, in its column alone, and the cell is given.
LEMMA NullStored ==
    ASSUME Types, CallInv, StoreNull
    PROVE  LET c == call[1] IN
           /\ columns # None /\ c \in Columns /\ columns[c] \in ColumnData
           /\ call[2] \in Cell /\ given[c] \in Seq(Cell)
           /\ columns'[c] = [columns[c] EXCEPT !.nulls = Append(@, call[2] = Null)]
           /\ \A i \in Columns : i # c => columns'[i] = columns[i]
           /\ columns' \in RowGroup /\ columns' # None
           /\ given'[c] = Append(given[c], call[2])
           /\ \A i \in 1..MaxColumns : i # c => given'[i] = given[i]
           /\ given' \in [1..MaxColumns -> Seq(Cell)]
<1> DEFINE c == call[1]
           bit == call[2] = Null
           after == [columns[c] EXCEPT !.nulls = Append(@, bit)]
<1>1. /\ columns # None /\ columns \in RowGroup /\ c \in Columns
      /\ columns[c] \in ColumnData /\ call[2] \in Cell
    BY DEF StoreNull, CallInv, InPut, Types, RowGroup
<1>2. columns' = [columns EXCEPT ![c] = after]
    BY DEF StoreNull
<1>3. bit \in BOOLEAN
    OBVIOUS
<1>4. after \in ColumnData
    <2> HIDE DEF bit
    <2>1. Append(columns[c].nulls, bit) \in Seq(BOOLEAN)
        BY <1>1, <1>3, AppendProperties DEF ColumnData
    <2> QED BY <1>1, <2>1 DEF ColumnData
<1>5. /\ columns' \in RowGroup /\ columns'[c] = after
      /\ \A i \in Columns : i # c => columns'[i] = columns[i]
    <2> HIDE DEF after, c
    <2> QED BY <1>1, <1>2, <1>4 DEF RowGroup
<1>6. columns' # None
    BY <1>5, GroupIsNotNone
<1>7. /\ c \in 1..MaxColumns /\ given[c] \in Seq(Cell)
      /\ given' = [given EXCEPT ![c] = Append(given[c], call[2])]
    BY <1>1, WriterAssumption DEF Types, StoreNull
<1>8. Append(given[c], call[2]) \in Seq(Cell)
    BY <1>1, <1>7, AppendProperties
<1>9. /\ given'[c] = Append(given[c], call[2])
      /\ \A i \in 1..MaxColumns : i # c => given'[i] = given[i]
      /\ given' \in [1..MaxColumns -> Seq(Cell)]
    BY <1>7, <1>8 DEF Types
<1> QED BY <1>1, <1>5, <1>6, <1>7, <1>9

\* The buffered columns are counted, whether they are accepted or refused.
Counted(refused) ==
    written' = Append(written, [columns |-> columns, refused |-> refused])

\* They are a row group, the last one then, and the others stay.
LEMMA GroupCounted ==
    ASSUME Types, columns # None, NEW refused \in BOOLEAN, Counted(refused)
    PROVE  /\ [columns |-> columns, refused |-> refused] \in Group
           /\ written \in Seq(Group) /\ written' \in Seq(Group)
           /\ Len(written) \in Nat /\ Len(written') = Len(written) + 1
           /\ DOMAIN written = 1..Len(written)
           /\ DOMAIN written' = 1..(Len(written) + 1)
           /\ written'[Len(written) + 1].columns = columns
           /\ written'[Len(written) + 1].refused = refused
           /\ \A k \in 1..Len(written) : written'[k] = written[k]
<1>1. PICK group : group = [columns |-> columns, refused |-> refused]
    OBVIOUS
<1>2. group \in Group /\ written \in Seq(Group) /\ written' = Append(written, group)
    BY <1>1 DEF Types, Group, Counted
<1>3. /\ Append(written, group) \in Seq(Group)
      /\ Len(Append(written, group)) = Len(written) + 1
      /\ Append(written, group)[Len(written) + 1] = group
      /\ \A k \in 1..Len(written) : Append(written, group)[k] = written[k]
    BY <1>2, AppendProperties
<1>4. written' \in Seq(Group) /\ Len(written') = Len(written) + 1
    BY <1>2, <1>3
<1>5. Len(written) \in Nat /\ DOMAIN written = 1..Len(written)
      /\ DOMAIN written' = 1..(Len(written) + 1)
    BY <1>2, <1>4
<1>6. /\ written'[Len(written) + 1] = group /\ group.columns = columns
      /\ group.refused = refused
      /\ \A k \in 1..Len(written) : written'[k] = written[k]
    BY <1>1, <1>2, <1>3
<1> QED BY <1>1, <1>2, <1>4, <1>5, <1>6

\* Every step keeps the types.
LEMMA TypesInductive == Types /\ CallInv /\ HeaderInv /\ [Next]_vars => Types'
<1> SUFFICES ASSUME Types, CallInv, HeaderInv, [Next]_vars PROVE Types'
    OBVIOUS
<1>1. CASE AddColumn
    <2>1. columns' = None /\ columns' = columns
        BY <1>1 DEF AddColumn
    <2>2. written' \in Seq(Group')
        <3>1. written' = <<>>
            BY <1>1 DEF AddColumn, HeaderInv
        <3> QED BY <3>1, EmptySeq
    <2>3. /\ column_count' \in Nat /\ descriptors' \in Nat
          /\ column_count' <= descriptors' /\ descriptors' <= MaxColumns
          /\ failed' \subseteq Faults /\ faults' \in 0..MaxFaults
        BY <1>1, FaultTypes, WriterAssumption DEF AddColumn, Types
    <2> QED BY <1>1, <2>1, <2>2, <2>3 DEF AddColumn, Types
<1>2. ASSUME NEW i \in Columns, NEW cell \in Cells(i), Put(i, cell)
      PROVE  Types'
    BY <1>2 DEF Types, Put, RowGroup, Group
<1>3. CASE Finish
    BY <1>3 DEF Types, Finish, RowGroup, Group
<1>4. CASE Flush
    <2>1. written' \in Seq(Group)
        <3>1. CASE columns = None
            BY <1>4, <3>1 DEF Flush, Types
        <3>2. CASE columns # None
            <4>1. Counted(FALSE)
                BY <1>4, <3>2 DEF Flush, Counted
            <4> QED BY <3>2, <4>1, GroupCounted
        <3> QED BY <3>1, <3>2
    <2>2. columns' # None => columns' \in RowGroup /\ column_count > 0
        BY <1>4 DEF Flush, Types
    <2>3. position' \in Nat /\ header_written' \in BOOLEAN
        <3>1. CASE columns = None
            BY <1>4, <3>1 DEF Flush, Types
        <3>2. CASE columns # None
            BY <1>4, <3>2 DEF Flush
        <3> QED BY <3>1, <3>2
    <2>4. RowGroup' = RowGroup /\ Group' = Group
        BY <1>4 DEF Flush, RowGroup, Group
    <2>5. pc' \in {"put:ensure", "finish:file"}
        BY <1>4 DEF Flush, Goto
    <2> QED BY <1>4, <2>1, <2>2, <2>3, <2>4, <2>5 DEF Types, Flush
<1>5. CASE FlushFails
    <2>1. header_written' \in BOOLEAN
        BY <1>5 DEF FlushFails, Types
    <2>2. failed' \subseteq Faults /\ faults' \in 0..MaxFaults
        BY <1>5, FaultTypes DEF FlushFails, Types
    <2>3. written' \in Seq(Group)
        <3>1. CASE UNCHANGED written
            BY <3>1 DEF Types
        <3>2. CASE Counted(TRUE)
            BY <1>5, <3>2, GroupCounted DEF FlushFails
        <3> QED BY <1>5, <3>1, <3>2 DEF FlushFails, Counted
    <2>4. RowGroup' = RowGroup /\ Group' = Group
        BY <1>5 DEF FlushFails, RowGroup, Group
    <2> QED BY <1>5, <2>1, <2>2, <2>3, <2>4 DEF FlushFails, Types, Return
<1>6. CASE Ensure
    <2>1. columns' # None => columns' \in RowGroup /\ column_count > 0
        <3>1. <<>> \in Seq(Nat) /\ <<>> \in Seq(BOOLEAN)
            OBVIOUS
        <3>2. column_count > 0
            BY <1>6 DEF Ensure, CallInv, InPut, Types
        <3>3. CASE columns' = columns
            BY <3>3 DEF Types
        <3>4. CASE columns' = [i \in Columns |-> [values |-> <<>>, nulls |-> <<>>]]
            BY <3>1, <3>2, <3>4 DEF RowGroup, ColumnData
        <3> QED BY <1>6, <3>3, <3>4 DEF Ensure
    <2>2. failed' \subseteq Faults /\ faults' \in 0..MaxFaults
        BY <1>6, FaultTypes DEF Ensure, Types
    <2>3. RowGroup' = RowGroup /\ Group' = Group
        BY <1>6 DEF Ensure, RowGroup, Group
    <2>4. pc' \in {"put:value", "idle"}
        BY <1>6 DEF Ensure, Goto, Return
    <2> QED BY <1>6, <2>1, <2>2, <2>3, <2>4 DEF Ensure, Types
<1>7. CASE StoreValue
    <2>1. columns # None /\ column_count > 0
        BY <1>7 DEF StoreValue, CallInv, Types
    <2>2. columns' \in RowGroup
        <3>1. CASE pc' = "idle"
            BY <1>7, <2>1, <3>1 DEF StoreValue, Types, Goto
        <3>2. CASE pc' # "idle"
            BY <1>7, <3>2, ValueStored
        <3> QED BY <3>1, <3>2
    <2>3. failed' \subseteq Faults /\ faults' \in 0..MaxFaults
        BY <1>7, FaultTypes DEF StoreValue, Types
    <2>4. RowGroup' = RowGroup /\ Group' = Group
        BY <1>7 DEF StoreValue, RowGroup, Group
    <2>5. pc' \in {"put:null", "idle"}
        BY <1>7 DEF StoreValue, Goto, Return
    <2> QED BY <1>7, <2>1, <2>2, <2>3, <2>4, <2>5 DEF StoreValue, Types
<1>8. CASE StoreNull
    <2>1. columns # None /\ column_count > 0
        BY <1>8 DEF StoreNull, CallInv, Types
    <2>2. columns' \in RowGroup
        BY <1>8, NullStored
    <2>3. given' \in [1..MaxColumns -> Seq(Cell)]
        BY <1>8, NullStored
    <2>4. position' \in Nat
        BY <1>8 DEF StoreNull, Types
    <2>5. RowGroup' = RowGroup /\ Group' = Group
        BY <1>8 DEF StoreNull, RowGroup, Group
    <2> QED BY <1>8, <2>1, <2>2, <2>3, <2>4, <2>5 DEF StoreNull, Types, Return
<1>9. CASE NullFails
    <2>1. failed' \subseteq Faults /\ faults' \in 0..MaxFaults
        BY <1>9, FaultTypes DEF NullFails, Types
    <2> QED BY <1>9, <2>1 DEF NullFails, Types, RowGroup, Group, Return
<1>10. CASE FinishFile
    <2>1. header_written' \in BOOLEAN /\ footer_written' \in BOOLEAN
        BY <1>10 DEF FinishFile, Types
    <2>2. failed' \subseteq Faults /\ faults' \in 0..MaxFaults
        BY <1>10, FaultTypes DEF FinishFile, Types
    <2>3. final' # None => final' \in [1..MaxColumns -> Seq(Cell)]
        BY <1>10 DEF FinishFile, Types
    <2> QED BY <1>10, <2>1, <2>2, <2>3 DEF FinishFile, Types, RowGroup, Group, Return
<1>11. CASE UNCHANGED vars
    BY <1>11 DEF Types, RowGroup, Group
<1> QED
    BY <1>1, <1>2, <1>3, <1>4, <1>5, <1>6, <1>7, <1>8, <1>9, <1>10, <1>11
    DEF Next, Call, InCall

\* Every step leaves the call in progress at a step that fits its state.
LEMMA CallInductive == Types /\ CallInv /\ [Next]_vars => CallInv'
<1> SUFFICES ASSUME Types, CallInv, [Next]_vars PROVE CallInv'
    OBVIOUS
<1>1. CASE AddColumn
    BY <1>1 DEF AddColumn, CallInv, InPut
<1>2. ASSUME NEW i \in Columns, NEW cell \in Cells(i), Put(i, cell)
      PROVE  CallInv'
    <2>1. i \in 1..MaxColumns
        BY WriterAssumption DEF Types
    <2>2. Len(given[i]) \in Nat /\ Len(given[i]) < MaxRows
        BY <1>2, <2>1 DEF Types, Put
    <2>3. cell \in Cell
        BY <2>2, WriterAssumption DEF Cells, Cell
    <2>4. call' = <<i, cell>> /\ call'[1] = i /\ call'[2] = cell
        BY <1>2 DEF Put
    <2>5. /\ call' = <<call'[1], call'[2]>> /\ call'[1] \in Columns'
          /\ call'[2] \in Cell /\ Len(given'[call'[1]]) < MaxRows
        BY <1>2, <2>2, <2>3, <2>4 DEF Put
    <2>6. /\ pc' = "put:flush" => position' = row_group_size'
          /\ pc' = "put:ensure" => columns' = None
          /\ pc' = "put:value" => columns' # None
          /\ pc' \in {"put:flush", "put:ensure", "put:value"}
        BY <1>2 DEF Put
    <2> QED BY <2>5, <2>6 DEF CallInv, InPut
<1>3. CASE Finish
    BY <1>3 DEF Finish, CallInv, InPut
<1>4. CASE Flush
    BY <1>4 DEF Flush, Goto, CallInv, InPut
<1>5. CASE FlushFails
    BY <1>5 DEF FlushFails, Return, CallInv, InPut
<1>6. CASE Ensure
    <2>1. CASE pc' = "idle"
        <3>1. call' = <<>>
            BY <1>6, <2>1 DEF Ensure, Goto, Return
        <3> QED BY <2>1, <3>1 DEF CallInv, InPut
    <2>2. CASE pc' # "idle"
        <3>1. /\ pc' = "put:value" /\ UNCHANGED <<call, given, column_count>>
              /\ columns' = [i \in Columns |-> [values |-> <<>>, nulls |-> <<>>]]
            BY <1>6, <2>2 DEF Ensure, Goto, Return
        <3>2. columns' \in RowGroup
            BY <3>1, EmptySeq DEF RowGroup, ColumnData
        <3>3. columns' # None
            BY <3>2, GroupIsNotNone
        <3> QED BY <1>6, <3>1, <3>3 DEF Ensure, CallInv, InPut
    <2> QED BY <2>1, <2>2
<1>7. CASE StoreValue
    <2>1. CASE pc' = "idle"
        <3>1. call' = <<>>
            BY <1>7, <2>1 DEF StoreValue, Goto, Return
        <3> QED BY <2>1, <3>1 DEF CallInv, InPut
    <2>2. CASE pc' # "idle"
        <3>1. pc' = "put:null" /\ UNCHANGED <<call, given, column_count>>
            BY <1>7, <2>2 DEF StoreValue, Goto, Return
        <3>2. columns' # None
            BY <1>7, <2>2, ValueStored
        <3> QED BY <1>7, <3>1, <3>2 DEF StoreValue, CallInv, InPut
    <2> QED BY <2>1, <2>2
<1>8. CASE StoreNull
    BY <1>8 DEF StoreNull, Return, CallInv, InPut
<1>9. CASE NullFails
    BY <1>9 DEF NullFails, Return, CallInv, InPut
<1>10. CASE FinishFile
    BY <1>10 DEF FinishFile, Return, CallInv, InPut
<1>11. CASE UNCHANGED vars
    BY <1>11 DEF CallInv, InPut
<1> QED
    BY <1>1, <1>2, <1>3, <1>4, <1>5, <1>6, <1>7, <1>8, <1>9, <1>10, <1>11
    DEF Next, Call, InCall

\* The header comes before the row groups and the footer, and stays.
LEMMA HeaderInductive == Types /\ CallInv /\ HeaderInv /\ [Next]_vars => HeaderInv'
<1> SUFFICES ASSUME Types, CallInv, HeaderInv, [Next]_vars PROVE HeaderInv'
    OBVIOUS
<1>1. CASE AddColumn
    BY <1>1 DEF AddColumn, HeaderInv, MayFail, Types
<1>2. ASSUME NEW i \in Columns, NEW cell \in Cells(i), Put(i, cell)
      PROVE  HeaderInv'
    BY <1>2 DEF Put, HeaderInv
<1>3. CASE Finish
    BY <1>3 DEF Finish, HeaderInv
<1>4. CASE Flush
    BY <1>4 DEF Flush, HeaderInv
<1>5. CASE FlushFails
    <2>1. header_written => header_written'
        BY <1>5, Zenon DEF FlushFails
    <2>2. failed \subseteq failed'
        BY <1>5 DEF FlushFails, MayFail
    <2>3. UNCHANGED written \/ header_written'
        BY <1>5 DEF FlushFails
    <2> QED BY <1>5, <2>1, <2>2, <2>3 DEF FlushFails, HeaderInv
<1>6. CASE Ensure
    BY <1>6 DEF Ensure, HeaderInv, MayFail
<1>7. CASE StoreValue
    BY <1>7 DEF StoreValue, HeaderInv, MayFail
<1>8. CASE StoreNull
    BY <1>8 DEF StoreNull, HeaderInv
<1>9. CASE NullFails
    BY <1>9 DEF NullFails, HeaderInv, MayFail
<1>10. CASE FinishFile
    <2>1. header_written => header_written'
        BY <1>10, Zenon DEF FinishFile
    <2>2. failed \subseteq failed' /\ UNCHANGED <<column_count, descriptors, written>>
        BY <1>10 DEF FinishFile, MayFail
    <2>3. CASE UNCHANGED <<footer_written, final>>
        BY <2>1, <2>2, <2>3 DEF HeaderInv
    <2>4. CASE header_written' = TRUE /\ footer_written' = TRUE
        BY <2>2, <2>4 DEF HeaderInv
    <2> QED BY <1>10, <2>3, <2>4 DEF FinishFile
<1>11. CASE UNCHANGED vars
    BY <1>11 DEF HeaderInv
<1> QED
    BY <1>1, <1>2, <1>3, <1>4, <1>5, <1>6, <1>7, <1>8, <1>9, <1>10, <1>11
    DEF Next, Call, InCall

\* A row group is flushed when it is full, or in finish.
LEMMA FullInductive == Types /\ CallInv /\ DataInv /\ FullInv /\ [Next]_vars => FullInv'
<1> SUFFICES ASSUME Types, CallInv, DataInv, FullInv, [Next]_vars,
                    "finish" \notin failed',
                    NEW g \in DOMAIN written'
             PROVE  \/ written'[g].refused
                    \/ RowsIn(written'[g].columns) = row_group_size'
                    \/ g = Len(written') /\ (pc' = "finish:file" \/ footer_written')
    BY DEF FullInv, RowsIn
<1>1. CASE UNCHANGED <<written, row_group_size, footer_written>> /\ pc # "finish:file"
           /\ failed \subseteq failed'
    BY <1>1 DEF FullInv
<1>2. CASE AddColumn
    BY <1>1, <1>2 DEF AddColumn, MayFail
<1>3. CASE \E i \in Columns : \E cell \in Cells(i) : Put(i, cell)
    BY <1>1, <1>3 DEF Put
<1>4. CASE Finish
    BY <1>1, <1>4 DEF Finish
<1>5. CASE Flush
    <2>1. CASE columns = None
        BY <1>1, <1>5, <2>1 DEF Flush
    <2>2. CASE columns # None
        <3>1. /\ Acceptable /\ Counted(FALSE)
              /\ pc \in {"put:flush", "finish:flush"}
              /\ pc = "finish:flush" => pc' = "finish:file"
              /\ UNCHANGED <<row_group_size, failed>>
            BY <1>5, <2>2 DEF Flush, Goto, Counted
        <3>2. columns \in RowGroup /\ column_count > 0
            BY <2>2 DEF Types
        <3>3. /\ DOMAIN written' = 1..(Len(written) + 1) /\ Len(written) \in Nat
              /\ DOMAIN written = 1..Len(written)
              /\ Len(written') = Len(written) + 1
              /\ written'[Len(written) + 1].columns = columns
              /\ \A k \in 1..Len(written) : written'[k] = written[k]
            BY <2>2, <3>1, GroupCounted
        <3>4. CASE g = Len(written) + 1
            <4>1. CASE pc = "finish:flush"
                BY <3>1, <3>3, <3>4, <4>1
            <4>2. CASE pc = "put:flush"
                <5>1. position = row_group_size /\ position = Len(columns[1].nulls)
                    BY <2>2, <4>2 DEF CallInv, DataInv
                <5>2. 1 \in Columns
                    BY <3>2 DEF Types
                <5>3. RowsIn(columns) = Len(columns[1].nulls)
                    BY <3>1, <5>2 DEF Acceptable, RowsIn
                <5> QED BY <3>1, <3>3, <3>4, <5>1, <5>3
            <4> QED BY <3>1, <4>1, <4>2
        <3>5. CASE g # Len(written) + 1
            <4>1. g \in DOMAIN written /\ written'[g] = written[g]
                BY <3>3, <3>5
            <4>2. ~footer_written /\ pc # "finish:file"
                BY <3>1 DEF Acceptable
            <4> QED BY <3>1, <4>1, <4>2 DEF FullInv
        <3> QED BY <3>4, <3>5
    <2> QED BY <2>1, <2>2
<1>6. CASE FlushFails
    <2>1. CASE UNCHANGED written
        BY <1>1, <1>6, <2>1 DEF FlushFails, MayFail
    <2>2. CASE Acceptable /\ Counted(TRUE)
        <3>1. /\ columns # None /\ failed \subseteq failed'
              /\ UNCHANGED <<row_group_size, footer_written>>
              /\ ~footer_written /\ pc # "finish:file"
            BY <1>6, <2>2 DEF FlushFails, MayFail, Acceptable
        <3>2. /\ DOMAIN written' = 1..(Len(written) + 1) /\ Len(written) \in Nat
              /\ DOMAIN written = 1..Len(written)
              /\ written'[Len(written) + 1].refused
              /\ \A k \in 1..Len(written) : written'[k] = written[k]
            BY <2>2, <3>1, GroupCounted
        <3>3. CASE g = Len(written) + 1
            BY <3>2, <3>3
        <3>4. CASE g # Len(written) + 1
            <4>1. g \in DOMAIN written /\ written'[g] = written[g]
                BY <3>2, <3>4
            <4> QED BY <3>1, <4>1 DEF FullInv
        <3> QED BY <3>3, <3>4
    <2> QED BY <1>6, <2>1, <2>2 DEF FlushFails, Counted
<1>7. CASE Ensure
    BY <1>1, <1>7 DEF Ensure, MayFail
<1>8. CASE StoreValue
    BY <1>1, <1>8 DEF StoreValue, MayFail
<1>9. CASE StoreNull
    BY <1>1, <1>9 DEF StoreNull
<1>10. CASE NullFails
    BY <1>1, <1>10 DEF NullFails, MayFail
<1>11. CASE FinishFile
    BY <1>11 DEF FinishFile, MayFail, FullInv
<1>12. CASE UNCHANGED vars
    BY <1>12 DEF FullInv
<1> QED
    BY <1>2, <1>3, <1>4, <1>5, <1>6, <1>7, <1>8, <1>9, <1>10, <1>11, <1>12
    DEF Next, Call, InCall

------------------------------------------------------------------------------
(* What is written and what is buffered is what was given. *)

\* The parts of DataInv: the cells given, and each column.
GivenInv(i) == /\ Len(given[i]) <= MaxRows
               /\ i \notin Columns => given[i] = <<>>

WrittenInv(i) == /\ IsPrefix(WrittenCells(i), given[i])
                 /\ Len(WrittenCells(i)) = Len(WrittenCells(1))
                 /\ columns = None => given[i] = WrittenCells(i)
                 /\ columns # None => ColumnInv(i)

PositionInv == position = IF columns = None THEN 0 ELSE Len(columns[1].nulls)

\* The invariant of the data, in its parts.
LEMMA DataParts ==
    DataInv <=> /\ \A i \in 1..MaxColumns : GivenInv(i)
                /\ \A i \in Columns : WrittenInv(i)
                /\ PositionInv
BY DEF DataInv, GivenInv, WrittenInv, PositionInv

\* The column of an index that the types know.
LEMMA ColumnTypes ==
    ASSUME Types, NEW i \in Columns
    PROVE  /\ i \in 1..MaxColumns /\ 1 \in Columns
           /\ given[i] \in Seq(Cell) /\ given[i] \in Seq(Value)
           /\ WrittenCells(i) \in Seq(Value)
           /\ columns # None => columns[i] \in ColumnData
<1>1. i \in 1..MaxColumns /\ 1 \in Columns
    BY WriterAssumption DEF Types
<1>2. Cell \subseteq Value
    BY WriterAssumption DEF Cell, Value
<1>3. given[i] \in Seq(Cell)
    BY <1>1 DEF Types
<1>4. given[i] \in Seq(Value)
    BY <1>2, <1>3, SeqMonotonic
<1>5. WrittenCells(i) \in Seq(Value)
    BY CellsType DEF Types, WrittenCells
<1>6. columns # None => columns[i] \in ColumnData
    BY DEF Types, RowGroup
<1> QED BY <1>1, <1>3, <1>4, <1>5, <1>6

\* A column whose cells, given and written, do not change in a step.
LEMMA ColumnStays ==
    ASSUME Types, NEW i \in Columns, WrittenInv(i), columns # None, columns' # None,
           WrittenCells(i)' = WrittenCells(i), WrittenCells(1)' = WrittenCells(1),
           given'[i] = given[i], columns'[i] = columns[i],
           failed \subseteq failed',
           Pending(i)' => Pending(i) /\ call' = call,
           Pending(i) /\ ~Pending(i)' => "null" \in failed'
    PROVE  WrittenInv(i)'
<1>1. columns[i] \in ColumnData /\ Ahead(columns[i]) \in Int
    <2>1. columns[i] \in ColumnData
        BY ColumnTypes
    <2> QED BY <2>1 DEF Ahead, ColumnData
<1>2. ColumnInv(i) /\ IsPrefix(WrittenCells(i), given[i])
      /\ Len(WrittenCells(i)) = Len(WrittenCells(1))
    BY DEF WrittenInv
<1>3. /\ Len(given'[i]) = Len(WrittenCells(i)') + Len(columns'[i].nulls)
      /\ Ahead(columns'[i]) >= 0
    BY <1>2 DEF ColumnInv
<1>4. Pending(i)' =>
          /\ Ahead(columns'[i]) >= 1
          /\ columns'[i].values[Len(columns'[i].values)] = Stored(call'[2])
    BY <1>2 DEF ColumnInv
<1>5. "null" \notin failed' => Ahead(columns'[i]) = IF Pending(i)' THEN 1 ELSE 0
    BY <1>2 DEF ColumnInv
<1>6. Ahead(columns'[i]) = (IF Pending(i)' THEN 1 ELSE 0) =>
          given'[i] = WrittenCells(i)' \o Cellwise(columns'[i])
    BY <1>1, <1>2 DEF ColumnInv
<1>7. ColumnInv(i)'
    BY <1>3, <1>4, <1>5, <1>6 DEF ColumnInv
<1> QED BY <1>2, <1>7 DEF WrittenInv

\* A step that stores nothing, and after which the accepted row groups hold what
\* they did, leaves the data as it is.
LEMMA SameCells ==
    ASSUME Types, DataInv,
           UNCHANGED <<column_count, columns, position, given>>,
           \A i \in Columns : WrittenCells(i)' = WrittenCells(i),
           failed \subseteq failed',
           \A i \in Columns :
               /\ Pending(i)' => Pending(i) /\ call' = call
               /\ Pending(i) /\ ~Pending(i)' => "null" \in failed'
    PROVE  DataInv'
<1>1. \A i \in 1..MaxColumns : GivenInv(i)'
    BY DataParts DEF GivenInv
<1>2. \A i \in Columns : WrittenCells(i)' = WrittenCells(i)
    OBVIOUS
<1>3. ASSUME NEW i \in Columns PROVE WrittenInv(i)'
    <2>1. WrittenInv(i) /\ 1 \in Columns
        BY ColumnTypes, DataParts
    <2>2. CASE columns = None
        BY <1>2, <2>1, <2>2 DEF WrittenInv
    <2>3. CASE columns # None
        BY <1>2, <2>1, <2>3, ColumnStays
    <2> QED BY <2>2, <2>3
<1>4. PositionInv'
    BY DataParts DEF PositionInv
<1>5. Columns' = Columns
    OBVIOUS
<1> QED BY <1>1, <1>3, <1>4, <1>5 DEF DataInv, GivenInv, WrittenInv, PositionInv

\* So does one that counts no row group.
LEMMA NothingStored ==
    ASSUME Types, DataInv,
           UNCHANGED <<column_count, columns, position, written, given>>,
           failed \subseteq failed',
           \A i \in Columns :
               /\ Pending(i)' => Pending(i) /\ call' = call
               /\ Pending(i) /\ ~Pending(i)' => "null" \in failed'
    PROVE  DataInv'
<1>1. \A i \in Columns : WrittenCells(i)' = WrittenCells(i)
    BY DEF WrittenCells
<1> QED BY <1>1, SameCells

\* Acceptable says that the buffered columns have what was given and is not written.
LEMMA BufferedIsGiven ==
    ASSUME Types, DataInv, columns # None, Acceptable, pc # "put:null", NEW i \in Columns
    PROVE  /\ given[i] = WrittenCells(i) \o Decode(columns[i])
           /\ Len(given[i]) = Len(WrittenCells(i)) + Len(columns[1].values)
<1>1. columns[i] \in ColumnData
    BY ColumnTypes
<1>2. /\ Len(columns[i].values) = Len(columns[i].nulls)
      /\ Len(columns[i].values) = Len(columns[1].values)
    BY DEF Acceptable
<1>3. Ahead(columns[i]) = 0
    BY <1>1, <1>2 DEF Ahead, ColumnData
<1>4. ~Pending(i) /\ ColumnInv(i)
    BY DataParts DEF Pending, WrittenInv
<1>5. given[i] = WrittenCells(i) \o Cellwise(columns[i])
    BY <1>3, <1>4 DEF ColumnInv
<1>6. Cellwise(columns[i]) = Decode(columns[i])
    BY <1>1, <1>3, CellwiseIsDecode
<1> QED BY <1>2, <1>4, <1>5, <1>6 DEF ColumnInv

\* A row group that is counted adds its cells to those written if it was accepted.
LEMMA CountedCells ==
    ASSUME Types, columns # None, NEW refused \in BOOLEAN, Counted(refused),
           UNCHANGED column_count, NEW i \in Columns
    PROVE  WrittenCells(i)' = IF refused THEN WrittenCells(i)
                              ELSE WrittenCells(i) \o Decode(columns[i])
<1>1. PICK group \in Group : group = [columns |-> columns, refused |-> refused]
    BY GroupCounted
<1>2. written \in Seq(Group) /\ written' = Append(written, group)
    BY <1>1 DEF Types, Counted
<1>3. CellsIn(Append(written, group), i) = CellsIn(written, i) \o Held(group, i)
    BY <1>2, CellsAppend
<1>4. WrittenCells(i)' = WrittenCells(i) \o Held(group, i)
    BY <1>2, <1>3 DEF WrittenCells
<1>5. WrittenCells(i) \o <<>> = WrittenCells(i)
    BY ColumnTypes, ConcatEmptySeq
<1> QED BY <1>1, <1>4, <1>5 DEF Held

\* A column that is added is empty, and comes before all cells.
LEMMA AddColumnData == Inv /\ AddColumn => DataInv'
<1> SUFFICES ASSUME Inv, AddColumn PROVE DataInv'
    OBVIOUS
<1>1. /\ written = <<>> /\ columns = None
      /\ UNCHANGED <<columns, position, written, given>>
      /\ column_count' \in Nat /\ column_count <= column_count'
      /\ column_count' <= MaxColumns
    BY WriterAssumption DEF Inv, AddColumn, HeaderInv, Types
<1>2. Types /\ DataInv
    BY DEF Inv
<1>3. \A i : WrittenCells(i) = <<>> /\ WrittenCells(i)' = <<>>
    BY <1>1, NoCells DEF WrittenCells
<1>4. \A i \in 1..MaxColumns : given[i] = <<>>
    BY <1>1, <1>2, <1>3, DataParts DEF GivenInv, WrittenInv
<1>5. IsPrefix(<<>>, <<>>)
    BY DEF IsPrefix
<1>6. \A i \in 1..MaxColumns : GivenInv(i)'
    BY <1>1, <1>2, <1>4, DataParts DEF GivenInv
<1>7. ASSUME NEW i \in Columns' PROVE WrittenInv(i)'
    <2>1. i \in 1..MaxColumns
        BY <1>1, WriterAssumption
    <2>2. given'[i] = <<>> /\ columns' = None
        BY <1>1, <1>4, <2>1
    <2> QED BY <1>3, <1>5, <2>2 DEF WrittenInv
<1>8. PositionInv'
    BY <1>1, <1>2, DataParts DEF PositionInv
<1> QED BY <1>6, <1>7, <1>8 DEF DataInv, GivenInv, WrittenInv, PositionInv

\* The columns that are allocated are empty.
LEMMA EnsureData == Inv /\ Ensure => DataInv'
<1> SUFFICES ASSUME Inv, Ensure PROVE DataInv'
    OBVIOUS
<1>0. Types /\ CallInv /\ DataInv
    BY DEF Inv
<1>1. CASE UNCHANGED columns
    BY <1>0, <1>1, NothingStored DEF Ensure, Goto, Return, MayFail, Pending
<1>2. CASE columns' = [i \in Columns |-> [values |-> <<>>, nulls |-> <<>>]]
    <2>1. /\ columns = None
          /\ UNCHANGED <<position, written, given, column_count>>
          /\ pc' \in {"put:value", "idle"}
        BY <1>0 DEF Ensure, CallInv, Goto, Return
    <2>2. \A i : WrittenCells(i)' = WrittenCells(i)
        BY <2>1 DEF WrittenCells
    <2>3. columns' # None
        <3>1. columns' \in RowGroup
            BY <1>2, EmptySeq DEF RowGroup, ColumnData
        <3> QED BY <1>0, <3>1, GroupIsNotNone
    <2>4. ASSUME NEW i \in Columns PROVE WrittenInv(i)'
        <3>1. WrittenInv(i) /\ given[i] = WrittenCells(i)
            BY <1>0, <2>1, DataParts DEF WrittenInv
        <3>2. /\ columns'[i] = [values |-> <<>>, nulls |-> <<>>]
              /\ Len(columns'[i].nulls) = 0 /\ Ahead(columns'[i]) = 0
            BY <1>2 DEF Ahead
        <3>3. Cellwise(columns'[i]) = <<>>
            BY <3>2 DEF Cellwise
        <3>4. ~Pending(i)'
            BY <2>1 DEF Pending
        <3>5. WrittenCells(i) \in Seq(Value)
            BY <1>0, ColumnTypes
        <3>6. WrittenCells(i) \o <<>> = WrittenCells(i)
            BY <3>5, ConcatEmptySeq
        <3>7. /\ Len(given'[i]) = Len(WrittenCells(i)') + Len(columns'[i].nulls)
              /\ Len(WrittenCells(i)') \in Nat
            BY <2>1, <2>2, <3>1, <3>2, <3>5
        <3>8. ColumnInv(i)'
            <4>1. given'[i] = WrittenCells(i)' \o Cellwise(columns'[i])
                BY <2>1, <2>2, <3>1, <3>3, <3>6
            <4> QED BY <3>2, <3>4, <3>7, <4>1 DEF ColumnInv
        <3> QED BY <2>1, <2>2, <2>3, <3>1, <3>8 DEF WrittenInv
    <2>5. \A i \in 1..MaxColumns : GivenInv(i)'
        BY <1>0, <2>1, DataParts DEF GivenInv
    <2>6. PositionInv'
        <3>1. 1 \in Columns
            BY <1>0 DEF Ensure, CallInv, InPut, Types
        <3>2. Len(columns'[1].nulls) = 0
            BY <1>2, <3>1
        <3>3. position = 0
            BY <1>0, <2>1, DataParts DEF PositionInv
        <3> QED BY <2>1, <2>3, <3>2, <3>3 DEF PositionInv
    <2>7. Columns' = Columns
        BY <2>1
    <2> QED BY <2>4, <2>5, <2>6, <2>7 DEF DataInv, GivenInv, WrittenInv, PositionInv
<1> QED BY <1>1, <1>2 DEF Ensure

\* The row group goes from the columns to the file: Acceptable says that each
\* of its columns has what was given.
LEMMA FlushData == Inv /\ Flush => DataInv'
<1> SUFFICES ASSUME Inv, Flush PROVE DataInv'
    OBVIOUS
<1>0. Types /\ CallInv /\ DataInv
    BY DEF Inv
<1>1. CASE columns = None
    BY <1>0, <1>1, NothingStored DEF Flush, Goto, Pending
<1>2. CASE columns # None
    <2>1. /\ Acceptable /\ Counted(FALSE)
          /\ columns' = None /\ position' = 0
          /\ UNCHANGED <<given, column_count>>
          /\ pc \in {"put:flush", "finish:flush"}
        BY <1>2 DEF Flush, Counted
    <2>2. ASSUME NEW i \in Columns
          PROVE  /\ WrittenCells(i)' = given[i]
                 /\ Len(WrittenCells(i)') = Len(WrittenCells(i)) + Len(columns[1].values)
        <3>1. /\ given[i] = WrittenCells(i) \o Decode(columns[i])
              /\ Len(given[i]) = Len(WrittenCells(i)) + Len(columns[1].values)
            BY <1>0, <1>2, <2>1, BufferedIsGiven
        <3>2. WrittenCells(i)' = WrittenCells(i) \o Decode(columns[i])
            BY <1>0, <1>2, <2>1, CountedCells
        <3> QED BY <3>1, <3>2
    <2>3. ASSUME NEW i \in Columns PROVE WrittenInv(i)'
        <3>1. 1 \in Columns /\ given[i] \in Seq(Value)
            BY <1>0, ColumnTypes
        <3>2. Len(WrittenCells(i)) = Len(WrittenCells(1))
            BY <1>0, DataParts DEF WrittenInv
        <3>3. Len(WrittenCells(i)') = Len(WrittenCells(1)')
            BY <2>2, <3>1, <3>2
        <3>4. IsPrefix(given[i], given[i])
            BY <3>1 DEF IsPrefix
        <3>5. WrittenCells(i)' = given'[i] /\ IsPrefix(WrittenCells(i)', given'[i])
            BY <2>1, <2>2, <3>4
        <3> QED BY <2>1, <3>3, <3>5 DEF WrittenInv
    <2>4. \A i \in 1..MaxColumns : GivenInv(i)'
        BY <1>0, <2>1, DataParts DEF GivenInv
    <2>5. PositionInv'
        BY <2>1 DEF PositionInv
    <2>6. Columns' = Columns
        BY <2>1
    <2> QED BY <2>3, <2>4, <2>5, <2>6 DEF DataInv, GivenInv, WrittenInv, PositionInv
<1> QED BY <1>1, <1>2

\* A value waits for its null bit: the cells are as they were.
LEMMA StoreValueData == Inv /\ StoreValue => DataInv'
<1> SUFFICES ASSUME Inv, StoreValue PROVE DataInv'
    OBVIOUS
<1>0. Types /\ CallInv /\ DataInv
    BY DEF Inv
<1>1. CASE pc' = "idle"
    <2>1. UNCHANGED columns /\ failed \subseteq failed'
        BY <1>1 DEF StoreValue, Goto, MayFail
    <2> QED BY <1>0, <1>1, <2>1, NothingStored DEF StoreValue, Pending
<1>2. CASE pc' # "idle"
    <2>0. PICK c : c = call[1]
        OBVIOUS
    <2>1. /\ columns # None /\ c \in Columns /\ columns[c] \in ColumnData
          /\ Stored(call[2]) \in Nat
          /\ columns'[c] = [columns[c] EXCEPT !.values = Append(@, Stored(call[2]))]
          /\ \A i \in Columns : i # c => columns'[i] = columns[i]
          /\ columns' # None
          /\ pc' = "put:null" /\ UNCHANGED <<call, failed>>
        BY <1>0, <1>2, <2>0, ValueStored
    <2>2. UNCHANGED <<position, given, written, column_count>> /\ pc = "put:value"
        BY DEF StoreValue
    <2>3. \A i : WrittenCells(i)' = WrittenCells(i)
        BY <2>2 DEF WrittenCells
    <2>4. WrittenInv(c) /\ ColumnInv(c)
        BY <1>0, <2>1, DataParts DEF WrittenInv
    <2>5. /\ columns'[c].nulls = columns[c].nulls
          /\ columns'[c].values[Len(columns'[c].values)] = Stored(call[2])
          /\ Ahead(columns'[c]) = Ahead(columns[c]) + 1
          /\ Cellwise(columns'[c]) = Cellwise(columns[c])
        <3>1. Ahead(columns[c]) >= 0
            BY <2>4 DEF ColumnInv
        <3> QED BY <2>1, <3>1, ValueAppended
    <2>6. WrittenInv(c)'
        <3>1. Ahead(columns[c]) \in Int
            BY <2>1 DEF Ahead, ColumnData
        <3>2. ~Pending(c) /\ Pending(c)'
            BY <2>0, <2>1, <2>2 DEF Pending
        <3>0. /\ Len(given[c]) = Len(WrittenCells(c)) + Len(columns[c].nulls)
              /\ Ahead(columns[c]) >= 0
              /\ Ahead(columns[c]) = 0 =>
                     given[c] = WrittenCells(c) \o Cellwise(columns[c])
            BY <2>4, <3>2 DEF ColumnInv
        <3>3. /\ Len(given'[c]) = Len(WrittenCells(c)') + Len(columns'[c].nulls)
              /\ Ahead(columns'[c]) >= 1 /\ Ahead(columns'[c]) >= 0
            <4>1. Ahead(columns'[c]) >= 1 /\ Ahead(columns'[c]) >= 0
                BY <2>5, <3>0, <3>1
            <4> QED BY <2>2, <2>3, <2>5, <3>0, <4>1
        <3>4. "null" \notin failed' => Ahead(columns'[c]) = 1
            BY <2>1, <2>4, <2>5, <3>2 DEF ColumnInv
        <3>5. Ahead(columns'[c]) = 1 =>
                  given'[c] = WrittenCells(c)' \o Cellwise(columns'[c])
            <4>1. Ahead(columns'[c]) = 1 => Ahead(columns[c]) = 0
                BY <2>5, <3>1
            <4> QED BY <2>2, <2>3, <2>5, <3>0, <4>1
        <3>6. ColumnInv(c)'
            BY <2>1, <2>5, <3>2, <3>3, <3>4, <3>5 DEF ColumnInv
        <3> QED BY <2>1, <2>2, <2>3, <2>4, <3>6 DEF WrittenInv
    <2>7. ASSUME NEW i \in Columns, i # c PROVE WrittenInv(i)'
        <3>1. ~Pending(i) /\ ~Pending(i)'
            BY <2>0, <2>1, <2>2, <2>7 DEF Pending
        <3>2. WrittenInv(i)
            BY <1>0, DataParts
        <3> QED BY <1>0, <2>1, <2>2, <2>3, <2>7, <3>1, <3>2, ColumnStays
    <2>8. \A i \in 1..MaxColumns : GivenInv(i)'
        BY <1>0, <2>2, DataParts DEF GivenInv
    <2>9. PositionInv'
        <3>1. columns'[1].nulls = columns[1].nulls
            BY <1>0, <2>1, <2>5, ColumnTypes
        <3> QED BY <1>0, <2>1, <2>2, <3>1, DataParts DEF PositionInv
    <2>10. Columns' = Columns
        BY <2>2
    <2>11. \A i \in Columns : WrittenInv(i)'
        BY <2>6, <2>7
    <2> QED BY <2>8, <2>9, <2>10, <2>11
            DEF DataInv, GivenInv, WrittenInv, PositionInv
<1> QED BY <1>1, <1>2

\* The value that waited has its null bit, and is a cell: the one of the call.
LEMMA StoreNullData == Inv /\ StoreNull => DataInv'
<1> SUFFICES ASSUME Inv, StoreNull PROVE DataInv'
    OBVIOUS
<1>0. Types /\ CallInv /\ DataInv
    BY DEF Inv
<1>1. PICK c, cell : c = call[1] /\ cell = call[2]
    OBVIOUS
<1>2. /\ columns # None /\ c \in Columns /\ columns[c] \in ColumnData
      /\ cell \in Cell /\ given[c] \in Seq(Cell)
      /\ columns'[c] = [columns[c] EXCEPT !.nulls = Append(@, cell = Null)]
      /\ \A i \in Columns : i # c => columns'[i] = columns[i]
      /\ columns' # None
      /\ given'[c] = Append(given[c], cell)
      /\ \A i \in 1..MaxColumns : i # c => given'[i] = given[i]
    BY <1>0, <1>1, NullStored
<1>3. /\ UNCHANGED <<written, column_count, failed>>
      /\ pc = "put:null" /\ pc' = "idle"
      /\ position' = position + (IF c = 1 THEN 1 ELSE 0)
    BY <1>1 DEF StoreNull, Return
<1>4. \A i : WrittenCells(i)' = WrittenCells(i)
    BY <1>3 DEF WrittenCells
<1>5. WrittenInv(c) /\ ColumnInv(c) /\ Pending(c)
    BY <1>0, <1>1, <1>2, <1>3, DataParts DEF WrittenInv, Pending
<1>6. /\ Len(given[c]) = Len(WrittenCells(c)) + Len(columns[c].nulls)
      /\ Ahead(columns[c]) >= 1
      /\ columns[c].values[Len(columns[c].values)] = Stored(cell)
      /\ "null" \notin failed => Ahead(columns[c]) = 1
      /\ Ahead(columns[c]) = 1 =>
             given[c] = WrittenCells(c) \o Cellwise(columns[c])
    BY <1>1, <1>5 DEF ColumnInv
<1>7. /\ Len(columns'[c].nulls) = Len(columns[c].nulls) + 1
      /\ Ahead(columns'[c]) = Ahead(columns[c]) - 1
      /\ Ahead(columns[c]) = 1 =>
             Cellwise(columns'[c]) = Append(Cellwise(columns[c]),
                 IF cell = Null THEN Null ELSE Stored(cell))
    <2>1. PICK bit \in BOOLEAN : bit = (cell = Null)
        OBVIOUS
    <2>2. columns'[c] = [columns[c] EXCEPT !.nulls = Append(@, bit)]
        BY <1>2, <2>1
    <2>3. /\ Len(columns'[c].nulls) = Len(columns[c].nulls) + 1
          /\ Ahead(columns'[c]) = Ahead(columns[c]) - 1
          /\ Ahead(columns[c]) = 1 =>
                 Cellwise(columns'[c]) = Append(Cellwise(columns[c]),
                     IF bit THEN Null ELSE columns[c].values[Len(columns[c].values)])
        BY <1>2, <1>6, <2>2, NullBitAppended
    <2> QED BY <1>6, <2>1, <2>3
<1>8. /\ WrittenCells(c) \in Seq(Value) /\ given[c] \in Seq(Value)
      /\ cell \in Value /\ Ahead(columns[c]) \in Int
      /\ Len(columns[c].nulls) \in Nat
    <2>1. cell \in Value
        BY <1>2, WriterAssumption DEF Cell, Value
    <2>2. Ahead(columns[c]) \in Int /\ Len(columns[c].nulls) \in Nat
        BY <1>2 DEF Ahead, ColumnData
    <2> QED BY <1>0, <1>2, <2>1, <2>2, ColumnTypes
<1>9. WrittenInv(c)'
    <2>1. Len(given'[c]) = Len(WrittenCells(c)') + Len(columns'[c].nulls)
        <3>1. Len(given'[c]) = Len(given[c]) + 1
            BY <1>2, <1>8, AppendProperties
        <3>2. PICK w \in Seq(Value), n \in Nat :
                  w = WrittenCells(c) /\ n = Len(columns[c].nulls)
            BY <1>8
        <3>3. /\ Len(w) \in Nat /\ Len(given[c]) = Len(w) + n
              /\ WrittenCells(c)' = w /\ Len(columns'[c].nulls) = n + 1
            BY <1>4, <1>6, <1>7, <1>8, <3>2
        <3> QED BY <3>1, <3>2, <3>3
    <2>2. /\ Ahead(columns'[c]) >= 0
          /\ "null" \notin failed' => Ahead(columns'[c]) = 0
        BY <1>3, <1>6, <1>7, <1>8
    <2>3. ASSUME Ahead(columns'[c]) = 0
          PROVE  given'[c] = WrittenCells(c)' \o Cellwise(columns'[c])
        <3>1. Ahead(columns[c]) = 1
            BY <1>7, <1>8, <2>3
        <3>2. Cellwise(columns'[c]) = Append(Cellwise(columns[c]), cell)
            BY <1>7, <3>1 DEF Stored
        <3>3. Cellwise(columns[c]) \in Seq(Value)
            BY <1>2, <3>1, CellwiseType
        <3>4. PICK w, u : w = WrittenCells(c) /\ u = Cellwise(columns[c])
            OBVIOUS
        <3>5. w \in Seq(Value) /\ u \in Seq(Value) /\ given[c] = w \o u
            BY <1>6, <1>8, <3>1, <3>3, <3>4
        <3>6. Append(w \o u, cell) = (w \o u) \o <<cell>>
            BY <1>8, <3>5, ConcatProperties, AppendIsConcat
        <3>7. Append(u, cell) = u \o <<cell>> /\ <<cell>> \in Seq(Value)
            BY <1>8, <3>5, AppendIsConcat
        <3>8. (w \o u) \o <<cell>> = w \o (u \o <<cell>>)
            BY <3>5, <3>7, ConcatAssociative
        <3> QED BY <1>2, <1>4, <3>2, <3>4, <3>5, <3>6, <3>7, <3>8
    <2>4. ~Pending(c)'
        BY <1>3 DEF Pending
    <2>5. ColumnInv(c)'
        BY <2>1, <2>2, <2>3, <2>4 DEF ColumnInv
    <2>6. IsPrefix(WrittenCells(c), Append(given[c], cell))
        <3>1. Append(given[c], cell) = given[c] \o <<cell>> /\ <<cell>> \in Seq(Value)
            BY <1>8, AppendIsConcat
        <3> QED BY <1>5, <1>8, <3>1, PrefixGrows DEF WrittenInv
    <2>7. Len(WrittenCells(c)) = Len(WrittenCells(1))
        BY <1>5 DEF WrittenInv
    <2> QED BY <1>2, <1>4, <2>5, <2>6, <2>7 DEF WrittenInv
<1>10. ASSUME NEW i \in Columns, i # c PROVE WrittenInv(i)'
    <2>1. ~Pending(i) /\ ~Pending(i)'
        BY <1>1, <1>3, <1>10 DEF Pending
    <2>2. WrittenInv(i)
        BY <1>0, DataParts
    <2>3. i \in 1..MaxColumns
        BY <1>0, ColumnTypes
    <2>4. given'[i] = given[i] /\ columns'[i] = columns[i] /\ failed \subseteq failed'
        BY <1>2, <1>3, <1>10, <2>3
    <2> QED BY <1>0, <1>2, <1>4, <2>1, <2>2, <2>4, ColumnStays
<1>11. ASSUME NEW i \in 1..MaxColumns PROVE GivenInv(i)'
    <2>1. CASE i = c
        <3>1. Len(given'[c]) = Len(given[c]) + 1 /\ Len(given[c]) \in Nat
            BY <1>2, <1>8, AppendProperties
        <3>2. Len(given[c]) < MaxRows
            BY <1>0, <1>1, <1>3 DEF CallInv, InPut
        <3> QED BY <1>2, <1>3, <2>1, <3>1, <3>2, WriterAssumption DEF GivenInv
    <2>2. CASE i # c
        BY <1>0, <1>2, <1>3, <2>2, DataParts DEF GivenInv
    <2> QED BY <2>1, <2>2
<1>12. PositionInv'
    <2>1. position = Len(columns[1].nulls)
        BY <1>0, <1>2, DataParts DEF PositionInv
    <2>2. CASE c = 1
        BY <1>2, <1>3, <1>7, <2>1, <2>2 DEF PositionInv
    <2>3. CASE c # 1
        <3>1. columns'[1] = columns[1] /\ Len(columns[1].nulls) \in Nat
            <4>1. 1 \in Columns /\ columns[1] \in ColumnData
                BY <1>0, <1>2, ColumnTypes
            <4>2. columns'[1] = columns[1]
                BY <1>2, <2>3, <4>1
            <4> QED BY <4>1, <4>2 DEF ColumnData
        <3> QED BY <1>2, <1>3, <2>1, <2>3, <3>1 DEF PositionInv
    <2> QED BY <2>2, <2>3
<1>13. Columns' = Columns
    BY <1>3
<1>14. \A i \in Columns : WrittenInv(i)'
    BY <1>9, <1>10
<1> QED BY <1>11, <1>12, <1>13, <1>14 DEF DataInv, GivenInv, WrittenInv, PositionInv

\* Every step keeps the data where the caller put it.
LEMMA DataInductive == Inv /\ [Next]_vars => DataInv'
<1> SUFFICES ASSUME Inv, [Next]_vars PROVE DataInv'
    OBVIOUS
<1>0. Types /\ DataInv
    BY DEF Inv
<1>1. CASE \E i \in Columns : \E cell \in Cells(i) : Put(i, cell)
    <2>1. pc = "idle" /\ pc' # "put:null"
        BY <1>1 DEF Put
    <2> QED BY <1>0, <1>1, <2>1, NothingStored DEF Put, Pending
<1>2. CASE Finish
    BY <1>0, <1>2, NothingStored DEF Finish, Pending
<1>3. CASE FlushFails
    <2>1. failed \subseteq failed'
        BY <1>3 DEF FlushFails, MayFail
    <2>2. \A i \in Columns : WrittenCells(i)' = WrittenCells(i)
        <3>1. CASE UNCHANGED written
            BY <3>1 DEF WrittenCells
        <3>2. CASE Counted(TRUE)
            BY <1>0, <1>3, <3>2, CountedCells DEF FlushFails
        <3> QED BY <1>3, <3>1, <3>2 DEF FlushFails, Counted
    <2> QED BY <1>0, <1>3, <2>1, <2>2, SameCells DEF FlushFails, Return, Pending
<1>4. CASE NullFails
    <2>1. failed \subseteq failed' /\ "null" \in failed'
        BY <1>4 DEF NullFails, MayFail
    <2> QED BY <1>0, <1>4, <2>1, NothingStored DEF NullFails, Return, Pending
<1>5. CASE FinishFile
    <2>1. failed \subseteq failed'
        BY <1>5 DEF FinishFile, MayFail
    <2> QED BY <1>0, <1>5, <2>1, NothingStored DEF FinishFile, Return, Pending
<1>6. CASE UNCHANGED vars
    BY <1>0, <1>6, NothingStored DEF Pending
<1> QED
    BY <1>1, <1>2, <1>3, <1>4, <1>5, <1>6, AddColumnData, FlushData, EnsureData,
       StoreValueData, StoreNullData
    DEF Next, Call, InCall

\* What finish has answered true for stays in the file.
LEMMA FinalInductive == Inv /\ [Next]_vars => FinalInv'
<1> SUFFICES ASSUME Inv, [Next]_vars, final' # None, NEW i \in Columns'
             PROVE  WrittenCells(i)' = final'[i]
    BY DEF FinalInv
<1>1. Types /\ CallInv /\ HeaderInv /\ DataInv /\ FinalInv
    BY DEF Inv
<1>2. CASE UNCHANGED <<written, final, column_count>>
    BY <1>1, <1>2 DEF FinalInv, WrittenCells
<1>3. CASE FinishFile
    <2>1. CASE footer_written
        BY <1>2, <1>3, <2>1 DEF FinishFile
    <2>2. CASE ~footer_written
        <3>1. CASE UNCHANGED final
            BY <1>2, <1>3, <3>1 DEF FinishFile
        <3>2. CASE ~UNCHANGED final
            <4>1. final' = given /\ UNCHANGED <<written, column_count>>
                BY <1>3, <2>2, <3>2 DEF FinishFile
            <4>2. columns = None
                BY <1>1, <1>3 DEF FinishFile, CallInv
            <4>3. given[i] = WrittenCells(i)
                BY <1>1, <4>1, <4>2, DataParts DEF WrittenInv
            <4> QED BY <4>1, <4>3 DEF WrittenCells
        <3> QED BY <3>1, <3>2
    <2> QED BY <2>1, <2>2
<1>4. CASE AddColumn
    BY <1>1, <1>4 DEF AddColumn, HeaderInv
<1>5. CASE Flush
    <2>1. CASE columns = None
        BY <1>2, <1>5, <2>1 DEF Flush
    <2>2. CASE columns # None
        BY <1>1, <1>5, <2>2 DEF Flush, HeaderInv, Acceptable
    <2> QED BY <2>1, <2>2
<1>6. CASE FlushFails
    <2>1. CASE UNCHANGED written
        BY <1>2, <1>6, <2>1 DEF FlushFails
    <2>2. CASE Acceptable
        BY <1>1, <1>6, <2>2 DEF FlushFails, HeaderInv, Acceptable
    <2> QED BY <1>6, <2>1, <2>2 DEF FlushFails
<1> QED
    BY <1>2, <1>3, <1>4, <1>5, <1>6
    DEF Next, Call, InCall, Put, Finish, Ensure, StoreValue, StoreNull, NullFails

\* What is counted stays, and what is given grows, so that the row groups go on
\* where they did.
LEMMA GroupsInductive == Inv /\ [Next]_vars => GroupsInv'
<1> SUFFICES ASSUME Inv, [Next]_vars, NEW k \in DOMAIN written', NEW i \in Columns'
             PROVE  IsPrefix(CellsIn(SubSeq(written', 1, k - 1), i)
                                 \o Decode(written'[k].columns[i]), given'[i])
    BY DEF GroupsInv, CellsIn, Held, Decode
<1>1. Types /\ CallInv /\ HeaderInv /\ DataInv /\ GroupsInv
    BY DEF Inv
<1>2. CASE UNCHANGED <<written, column_count, given>>
    BY <1>1, <1>2 DEF GroupsInv
<1>3. CASE AddColumn
    <2>1. written' = <<>>
        BY <1>1, <1>3 DEF AddColumn, HeaderInv
    <2> QED BY <2>1
<1>4. CASE StoreNull
    <2>1. UNCHANGED <<written, column_count>>
        BY <1>4 DEF StoreNull
    <2>2. i \in Columns /\ k \in DOMAIN written /\ i \in 1..MaxColumns
        BY <1>1, <2>1, ColumnTypes
    <2>3. PICK s, t : /\ t = given[i]
                      /\ s = CellsIn(SubSeq(written, 1, k - 1), i)
                                 \o Decode(written[k].columns[i])
        OBVIOUS
    <2>4. s \in Seq(Value) /\ t \in Seq(Value) /\ IsPrefix(s, t)
        <3>1. SubSeq(written, 1, k - 1) \in Seq(Group) /\ written[k] \in Group
            BY <1>1, <2>2 DEF Types
        <3>2. CellsIn(SubSeq(written, 1, k - 1), i) \in Seq(Value)
            BY <2>2, <3>1, CellsType
        <3>3. Decode(written[k].columns[i]) \in Seq(Value)
            BY <2>2, <3>1, DecodeType DEF Group, RowGroup
        <3>4. s \in Seq(Value)
            BY <2>3, <3>2, <3>3, ConcatProperties
        <3> QED BY <1>1, <2>2, <2>3, <3>4, ColumnTypes DEF GroupsInv
    <2>5. CASE given'[i] = given[i]
        BY <2>1, <2>3, <2>4, <2>5
    <2>6. CASE i = call[1]
        <3>1. given'[i] = Append(t, call[2]) /\ call[2] \in Cell
            BY <1>1, <1>4, <2>3, <2>6, NullStored
        <3>2. call[2] \in Value
            BY <3>1, WriterAssumption DEF Cell, Value
        <3>3. given'[i] = t \o <<call[2]>> /\ <<call[2]>> \in Seq(Value)
            BY <2>4, <3>1, <3>2, AppendIsConcat
        <3>4. IsPrefix(s, given'[i])
            BY <2>4, <3>3, PrefixGrows
        <3> QED BY <2>1, <2>3, <3>4
    <2>7. i # call[1] => given'[i] = given[i]
        BY <1>1, <1>4, <2>2, NullStored
    <2> QED BY <2>5, <2>6, <2>7
<1>5. ASSUME NEW refused \in BOOLEAN, Counted(refused), Acceptable, columns # None,
             pc # "put:null", UNCHANGED <<column_count, given>>
      PROVE  IsPrefix(CellsIn(SubSeq(written', 1, k - 1), i)
                          \o Decode(written'[k].columns[i]), given'[i])
    <2>1. i \in Columns
        BY <1>5
    <2>2. PICK w, v \in Seq(Group), n \in Nat : w = written /\ v = written' /\ n = Len(w)
        BY <1>1, <1>5, GroupCounted DEF Types
    <2>3. /\ k \in 1..(n + 1) /\ DOMAIN w = 1..n /\ Len(v) = n + 1
          /\ v[n + 1].columns = columns
          /\ \A j \in 1..n : v[j] = w[j]
        BY <1>1, <1>5, <2>2, GroupCounted
    <2>4. SubSeq(v, 1, k - 1) = SubSeq(w, 1, k - 1)
        <3>1. \A j \in 1..(k - 1) : v[j] = w[j]
            BY <2>3
        <3>2. SubSeq(v, 1, k - 1) = [j \in 1..(k - 1) |-> v[j]]
            BY <2>2, <2>3
        <3>3. SubSeq(w, 1, k - 1) = [j \in 1..(k - 1) |-> w[j]]
            BY <2>2, <2>3
        <3> QED BY <3>1, <3>2, <3>3
    <2>5. CASE k = n + 1
        <3>1. SubSeq(w, 1, k - 1) = w
            BY <2>2, <2>5, SubSeqFull
        <3>2. given[i] = WrittenCells(i) \o Decode(columns[i])
            BY <1>1, <1>5, <2>1, BufferedIsGiven
        <3>3. CellsIn(SubSeq(v, 1, k - 1), i) \o Decode(v[k].columns[i]) = given[i]
            BY <2>2, <2>3, <2>4, <2>5, <3>1, <3>2 DEF WrittenCells
        <3>4. IsPrefix(given[i], given[i])
            BY <1>1, <2>1, ColumnTypes DEF IsPrefix
        <3> QED BY <1>5, <2>2, <3>3, <3>4
    <2>6. CASE k # n + 1
        <3>1. k \in DOMAIN written /\ v[k] = w[k]
            BY <2>2, <2>3, <2>6
        <3> QED BY <1>1, <1>5, <2>1, <2>2, <2>4, <3>1 DEF GroupsInv
    <2> QED BY <2>5, <2>6
<1>6. CASE Flush
    <2>1. CASE columns = None
        BY <1>2, <1>6, <2>1 DEF Flush
    <2>2. CASE columns # None
        <3>1. /\ Counted(FALSE) /\ Acceptable /\ pc # "put:null"
              /\ UNCHANGED <<column_count, given>>
            BY <1>6, <2>2 DEF Flush, Counted
        <3> QED BY <1>5, <2>2, <3>1
    <2> QED BY <2>1, <2>2
<1>7. CASE FlushFails
    <2>1. CASE UNCHANGED written
        BY <1>2, <1>7, <2>1 DEF FlushFails
    <2>2. CASE Counted(TRUE) /\ Acceptable
        <3>1. /\ columns # None /\ pc # "put:null"
              /\ UNCHANGED <<column_count, given>>
            BY <1>7 DEF FlushFails
        <3> QED BY <1>5, <2>2, <3>1
    <2> QED BY <1>7, <2>1, <2>2 DEF FlushFails, Counted
<1> QED
    BY <1>2, <1>3, <1>4, <1>6, <1>7
    DEF Next, Call, InCall, Put, Finish, Ensure, StoreValue, NullFails, FinishFile

------------------------------------------------------------------------------
(* The invariant, and the properties that follow from it. *)

\* The invariant holds at first.
LEMMA Initially == Init => Inv
<1> SUFFICES ASSUME Init PROVE Inv
    OBVIOUS
<1>1. Types
    <2>1. given \in [1..MaxColumns -> Seq(Cell)] /\ written \in Seq(Group)
        BY EmptySeq DEF Init
    <2>2. faults \in 0..MaxFaults /\ failed \subseteq Faults
        BY WriterAssumption DEF Init
    <2>3. /\ column_count \in Nat /\ descriptors \in Nat
          /\ column_count <= descriptors /\ descriptors <= MaxColumns
        BY WriterAssumption DEF Init
    <2> QED BY <2>1, <2>2, <2>3 DEF Init, Types
<1>2. \A i \in 1..MaxColumns : GivenInv(i)
    BY WriterAssumption, EmptySeq DEF Init, GivenInv
<1>3. /\ CallInv /\ HeaderInv /\ FinalInv /\ GroupsInv /\ FullInv
      /\ PositionInv /\ Columns = {}
    BY DEF Init, CallInv, InPut, HeaderInv, FinalInv, GroupsInv, FullInv, PositionInv
<1> QED BY <1>1, <1>2, <1>3, DataParts DEF Inv

\* The invariant is preserved by every step.
LEMMA Inductive == Inv /\ [Next]_vars => Inv'
BY TypesInductive, CallInductive, HeaderInductive, DataInductive, FinalInductive,
   GroupsInductive, FullInductive
DEF Inv

\* The invariant is one of the writer.
THEOREM Invariance == Spec => []Inv
<1> QED BY Initially, Inductive, PTL DEF Spec

\* Every variable of the writer keeps its type, what is counted, given and finished
\* among them, and there are never more rows in memory than a column was given.
THEOREM TypeCorrect == Spec => []TypeOK
<1>1. Inv => TypeOK
    <2> SUFFICES ASSUME Inv PROVE TypeOK
        OBVIOUS
    <2>1. Types /\ DataInv
        BY DEF Inv
    <2>2. position \in 0..MaxRows
        <3>1. CASE columns = None
            BY <2>1, <3>1, DataParts, WriterAssumption DEF PositionInv
        <3>2. CASE columns # None
            <4>1. 1 \in Columns
                BY <2>1, <3>2 DEF Types
            <4>2. /\ 1 \in 1..MaxColumns /\ given[1] \in Seq(Cell)
                  /\ WrittenCells(1) \in Seq(Value)
                BY <2>1, <4>1, ColumnTypes
            <4>3. ColumnInv(1) /\ GivenInv(1) /\ PositionInv
                BY <2>1, <3>2, <4>1, <4>2, DataParts DEF WrittenInv
            <4>4. /\ Len(given[1]) = Len(WrittenCells(1)) + position
                  /\ Len(given[1]) <= MaxRows
                BY <3>2, <4>3 DEF ColumnInv, GivenInv, PositionInv
            <4>5. Len(given[1]) \in Nat /\ Len(WrittenCells(1)) \in Nat /\ position \in Nat
                BY <2>1, <4>2 DEF Types
            <4> QED BY <4>4, <4>5, WriterAssumption
        <3> QED BY <3>1, <3>2
    <2>3. written \in Seq([columns : [Columns -> [values : Seq(Nat), nulls : Seq(BOOLEAN)]],
                            refused : BOOLEAN])
        BY <2>1 DEF Types, Group, RowGroup, ColumnData
    <2>4. IF pc \in {"idle", "finish:flush", "finish:file"} THEN call = <<>>
          ELSE call \in Columns \X ((1..MaxRows) \cup {Null})
        BY <2>1 DEF Inv, Types, CallInv, InPut, Cell
    <2>5. /\ given \in [1..MaxColumns -> Seq((1..MaxRows) \cup {Null})]
          /\ final # None => final \in [1..MaxColumns -> Seq((1..MaxRows) \cup {Null})]
        BY <2>1 DEF Types, Cell
    <2> QED BY <2>1, <2>2, <2>3, <2>4, <2>5, WriterAssumption
            DEF Types, TypeOK, RowGroup, ColumnData
<1> QED BY <1>1, Invariance, PTL

\* Whatever fails and is called again, the accepted row groups hold in every column
\* a prefix of the cells that the caller was told are accepted, of the same length
\* in all, and every row group that is counted goes on where they did before it.
THEOREM WrittenIsGiven == Spec => []WrittenRowsAreTheCallers
<1>1. Inv => WrittenRowsAreTheCallers
    BY DEF Inv, DataInv, GroupsInv, WrittenRowsAreTheCallers
<1> QED BY <1>1, Invariance, PTL

\* When finish has returned true every accepted cell is in an accepted row group.
THEOREM FinishedIsComplete == Spec => []FinishedHoldsEverything
<1>1. Inv => FinishedHoldsEverything
    BY DEF Inv, FinalInv, FinishedHoldsEverything
<1> QED BY <1>1, Invariance, PTL

\* No accepted row group but the last is short of row_group_size rows, or has more.
THEOREM GroupsAreFull == Spec => []RowGroupsAreFull
<1>1. Inv => RowGroupsAreFull
    <2> SUFFICES ASSUME Inv, "finish" \notin failed, NEW g \in DOMAIN written,
                        NEW h \in DOMAIN written, g < h, ~written[g].refused
                 PROVE  RowsIn(written[g].columns) = row_group_size
        BY DEF RowGroupsAreFull
    <2>1. written \in Seq(Group)
        BY DEF Inv, Types
    <2>2. g # Len(written)
        BY <2>1
    <2> QED BY <2>2 DEF Inv, FullInv
<1> QED BY <1>1, Invariance, PTL

\* The buffered columns can be written exactly when every column was given as many
\* cells, unless a null bit or a name could not be stored.
THEOREM FlushableAtRowBoundaries == Spec => []FlushableExactlyAtRowBoundaries
<1>1. Inv => FlushableExactlyAtRowBoundaries
    <2> SUFFICES ASSUME Inv, pc = "idle", columns # None, ~footer_written,
                        failed \cap {"null", "name"} = {}
                 PROVE  Acceptable <=> \A i \in Columns : Len(given[i]) = Len(given[1])
        BY DEF FlushableExactlyAtRowBoundaries
    <2>1. Types /\ HeaderInv /\ DataInv
        BY DEF Inv
    <2>2. column_count = descriptors
        BY <2>1 DEF HeaderInv
    <2>3. 1 \in Columns
        BY <2>1 DEF Types
    <2>4. PICK w \in Nat : w = Len(WrittenCells(1))
        <3>1. WrittenCells(1) \in Seq(Value)
            BY <2>1, <2>3, ColumnTypes
        <3> QED BY <3>1
    <2>5. ASSUME NEW i \in Columns
          PROVE  /\ Len(columns[i].values) = Len(columns[i].nulls)
                 /\ Len(given[i]) = w + Len(columns[i].values)
                 /\ Len(columns[i].values) \in Nat
        <3>1. columns[i] \in ColumnData
            BY <2>1, ColumnTypes
        <3>2. ColumnInv(i) /\ Len(WrittenCells(i)) = w
            BY <2>1, <2>4, DataParts DEF WrittenInv
        <3>3. Ahead(columns[i]) = 0
            BY <3>2 DEF ColumnInv, Pending
        <3>4. /\ Len(columns[i].values) \in Nat /\ Len(columns[i].nulls) \in Nat
            BY <3>1 DEF ColumnData
        <3>5. Len(given[i]) = w + Len(columns[i].nulls)
            BY <3>2 DEF ColumnInv
        <3>6. Len(columns[i].values) - Len(columns[i].nulls) = 0
            BY <3>3 DEF Ahead
        <3> QED BY <3>4, <3>5, <3>6
    <2>6. ASSUME NEW i \in Columns
          PROVE  Len(columns[i].values) = Len(columns[1].values)
                     <=> Len(given[i]) = Len(given[1])
        <3>1. /\ Len(given[i]) = w + Len(columns[i].values)
              /\ Len(columns[i].values) \in Nat
            BY <2>5
        <3>2. /\ Len(given[1]) = w + Len(columns[1].values)
              /\ Len(columns[1].values) \in Nat
            BY <2>3, <2>5
        <3> QED BY <3>1, <3>2
    <2> QED BY <2>2, <2>5, <2>6 DEF Acceptable
<1> QED BY <1>1, Invariance, PTL

------------------------------------------------------------------------------
(* The writer is a log that is sealed by its finish. *)

\* A step of the writer appends one row group to a file that cannot be opened
\* yet, or makes it readable as it is, or changes neither.
LEMMA LogStep == Inv /\ [Next]_vars => [Log!Next]_(Log!vars)
<1> SUFFICES ASSUME Inv, [Next]_vars PROVE [Log!Next]_(Log!vars)
    OBVIOUS
<1>1. CASE UNCHANGED <<written, footer_written>>
    BY <1>1 DEF Log!vars
<1>0. ASSUME NEW refused \in BOOLEAN, Counted(refused), columns # None,
             ~footer_written, UNCHANGED footer_written
      PROVE  [Log!Next]_(Log!vars)
    <2>1. PICK w \in Seq(Group), group \in Group : w = written /\ written' = Append(w, group)
        BY <1>0, GroupCounted DEF Inv, Types, Counted
    <2>2. Len(Append(w, group)) = Len(w) + 1
        BY <2>1, AppendProperties
    <2>3. Append(w, group) = w \o <<group>> /\ <<group>> \in Seq(Group)
        BY <2>1, AppendIsConcat
    <2>4. IsPrefix(w, w \o <<group>>)
        BY <2>1, <2>3, PrefixOfConcat
    <2>5. SubSeq(w, 1, Len(w)) = w
        BY <2>1, SubSeqFull
    <2>6. SubSeq(written', 1, Len(written)) = written /\ Len(written') = Len(written) + 1
        BY <2>1, <2>2, <2>3, <2>4, <2>5 DEF IsPrefix
    <2>7. Log!Add
        BY <1>0, <2>6 DEF Log!Add
    <2> QED BY <2>7 DEF Log!Next
<1>2. CASE Flush
    <2>1. CASE columns = None
        BY <1>1, <1>2, <2>1 DEF Flush
    <2>2. CASE columns # None
        <3>1. ~footer_written /\ UNCHANGED footer_written /\ Counted(FALSE)
            BY <1>2, <2>2 DEF Flush, Acceptable, Counted
        <3> QED BY <1>0, <2>2, <3>1
    <2> QED BY <2>1, <2>2
<1>4. CASE FlushFails
    <2>1. CASE UNCHANGED written
        BY <1>1, <1>4, <2>1 DEF FlushFails
    <2>2. CASE Acceptable /\ Counted(TRUE)
        <3>1. columns # None /\ ~footer_written /\ UNCHANGED footer_written
            BY <1>4, <2>2 DEF FlushFails, Acceptable
        <3> QED BY <1>0, <2>2, <3>1
    <2> QED BY <1>4, <2>1, <2>2 DEF FlushFails, Counted
<1>3. CASE FinishFile
    <2>1. CASE footer_written
        BY <1>1, <1>3, <2>1 DEF FinishFile
    <2>2. CASE ~footer_written
        <3>1. CASE UNCHANGED footer_written
            BY <1>1, <1>3, <3>1 DEF FinishFile
        <3>2. CASE footer_written' = TRUE
            <4>1. Log!Seal
                BY <1>3, <2>2, <3>2 DEF FinishFile, Log!Seal
            <4> QED BY <4>1 DEF Log!Next
        <3> QED BY <1>3, <3>1, <3>2 DEF FinishFile
    <2> QED BY <2>1, <2>2
<1> QED
    BY <1>1, <1>2, <1>3, <1>4
    DEF Next, Call, InCall, AddColumn, Put, Finish, Ensure, StoreValue, StoreNull,
        NullFails

\* Row groups are appended until finish returns true and never after it, and
\* those that a reader can see are the ones appended, for good.
THEOREM ImplementsLog == Spec => ImplementsSealedLog
<1>1. Init => Log!Init
    BY DEF Init, Log!Init
<1> QED BY <1>1, LogStep, Invariance, PTL DEF Spec, ImplementsSealedLog, Log!Spec
===============================================================================
