-------------------------------- MODULE Writer --------------------------------
(***************************************************************************)
(* cx_writer (lib/writer.c): the caller puts one cell at a time; cells     *)
(* gather in the columns of the current row group, each a column of values *)
(* and a column of null bits, and a full row group is handed to the        *)
(* cx_row_group_writer.  That writer is kept to what RowGroupWriter shows  *)
(* of it: which row groups its footer will count, a finished file takes no *)
(* more, and either call can fail and be made again.  A row group whose    *)
(* column headers cannot be written is counted although it is refused.     *)
(*                                                                         *)
(* A call of the caller is a sequence of steps, one per function that can  *)
(* fail on the way: flush the full row group, allocate the next, store the *)
(* value, store the null bit.                                              *)
(***************************************************************************)
EXTENDS Integers, Sequences, SequencesExt

CONSTANTS
    MaxColumns,       \* bound on cx_writer_add_column
    RowGroupSizes,    \* values of row_group_size
    MaxRows,          \* bound on the cells put in one column
    RowOrders,        \* values of row_order
    Null,             \* the cell of cx_writer_put_null
    None,             \* no columns allocated, nothing finished
    Faults, MaxFaults \* what may fail, and how often

ASSUME WriterAssumption ==
    /\ MaxColumns \in Nat /\ MaxRows \in Nat /\ MaxFaults \in Nat
    /\ RowGroupSizes \subseteq Nat
    /\ RowOrders \subseteq BOOLEAN
    /\ Null \notin 0..MaxRows
    /\ \A n \in 0..MaxColumns :   \* None is not a row group
           None \notin [1..n -> [values : Seq(Nat), nulls : Seq(BOOLEAN)]]

VARIABLES
    row_group_size,
    column_count,     \* of the cx_writer
    descriptors,      \* columns.count of the cx_row_group_writer
    columns,          \* the row group being filled, or None
    position,         \* rows of it, counted by its first column
    header_written,
    footer_written,
    written,          \* the row groups counted, in order, as handed over
    pc, call,         \* the call in progress: its step and its arguments
    given,            \* the cells for which put returned true, by column
    final,            \* given, when finish returned true
    row_order,        \* does the caller put rows one after the other, column
                      \* by column, or cells in any order?
    failed, faults    \* what has failed so far, and how often

settings == <<row_group_size, row_order>>   \* fixed from the start
callVars == <<pc, call>>
faultVars == <<failed, faults>>
vars == <<settings, column_count, descriptors, columns, position,
          header_written, footer_written, written, callVars, given, final,
          faultVars>>

Columns == 1..column_count

Unit == 0   \* what cx_column_put_unit stores for a null

\* The cells a caller can put next in column i: a null, or a value unlike the
\* others of the column.
Cells(i) == {Null, Len(given[i]) + 1}

\* What a reader makes of a column of values and a column of null bits.
Decode(column) ==
    [k \in DOMAIN column.values |->
        IF column.nulls[k] THEN Null ELSE column.values[k]]

RowsIn(group) == Len(group[1].values)

Init ==
    /\ row_group_size \in RowGroupSizes
    /\ column_count = 0 /\ descriptors = 0
    /\ columns = None /\ position = 0
    /\ header_written = FALSE /\ footer_written = FALSE
    /\ written = <<>>
    /\ pc = "idle" /\ call = <<>>
    /\ given = [i \in 1..MaxColumns |-> <<>>]
    /\ final = None
    /\ row_order \in RowOrders
    /\ failed = {} /\ faults = 0

MayFail(what) == /\ what \in Faults /\ faults < MaxFaults
                 /\ faults' = faults + 1
                 /\ failed' = failed \cup {what}

Return == pc' = "idle" /\ call' = <<>>
Goto(step) == pc' = step /\ UNCHANGED call

------------------------------------------------------------------------------
\* Variant: the two counts of columns the other way round.
AddColumnCountedFirst ==
    /\ pc = "idle" /\ ~header_written /\ columns = None
    /\ descriptors < MaxColumns
    /\ column_count' = column_count + 1
    /\ \/ descriptors' = descriptors + 1 /\ UNCHANGED faultVars
       \/ MayFail("name") /\ UNCHANGED descriptors
    /\ UNCHANGED <<settings, columns, position, header_written,
                   footer_written, written, callVars, given, final>>

\* cx_writer_add_column.  The caller names its columns before its first cell:
\* the columns of a row group are allocated for the count of that moment.  A
\* name that cannot be stored leaves a descriptor behind.
AddColumn ==
    /\ pc = "idle" /\ ~header_written /\ columns = None
    /\ descriptors < MaxColumns
    /\ descriptors' = descriptors + 1
    /\ \/ column_count' = column_count + 1 /\ UNCHANGED faultVars
       \/ MayFail("name") /\ UNCHANGED column_count
    /\ UNCHANGED <<settings, columns, position, header_written,
                   footer_written, written, callVars, given, final>>

\* The column a row by row caller puts next.
NextColumn == IF \A i \in Columns : Len(given[i]) = Len(given[1]) THEN 1
              ELSE CHOOSE i \in Columns :
                       /\ Len(given[i]) < Len(given[1])
                       /\ \A j \in 1..(i - 1) : Len(given[j]) = Len(given[1])

\* Variant: off by one at a full row group.
PutOneTooMany(i, cell) ==
    /\ pc = "idle"
    /\ row_order => i = NextColumn
    /\ Len(given[i]) < MaxRows
    /\ call' = <<i, cell>>
    /\ pc' = IF i = 1 /\ position > row_group_size THEN "put:flush"
             ELSE IF columns = None THEN "put:ensure" ELSE "put:value"
    /\ UNCHANGED <<settings, column_count, descriptors, columns, position,
                   header_written, footer_written, written, given, final, faultVars>>

\* cx_writer_put_<type> and cx_writer_put_null of a cell in column i, up to
\* the decisions of cx_writer_put_check.
Put(i, cell) ==
    /\ pc = "idle"
    /\ row_order => i = NextColumn
    /\ Len(given[i]) < MaxRows
    /\ call' = <<i, cell>>
    /\ pc' = IF i = 1 /\ position = row_group_size THEN "put:flush"
             ELSE IF columns = None THEN "put:ensure" ELSE "put:value"
    /\ UNCHANGED <<settings, column_count, descriptors, columns, position,
                   header_written, footer_written, written, given, final, faultVars>>

\* Variant: the row group being filled is not flushed.
FinishWithoutFlush ==
    /\ pc = "idle"
    /\ pc' = "finish:file"
    /\ UNCHANGED <<settings, column_count, descriptors, columns, position,
                   header_written, footer_written, written, call, given, final,
                   faultVars>>

Finish == /\ pc = "idle"
          /\ pc' = "finish:flush"
          /\ UNCHANGED <<settings, column_count, descriptors, columns,
                         position, header_written, footer_written, written, call,
                         given, final, faultVars>>

\* Variant: footer_written is not looked at.
AcceptableAfterFooter ==
    /\ column_count = descriptors
    /\ \A i \in Columns :
           /\ Len(columns[i].values) = Len(columns[i].nulls)
           /\ Len(columns[i].values) = Len(columns[1].values)

\* cx_row_group_add_column and cx_row_group_writer_put accept the row group:
\* every column has as many values as null bits and as the other columns.
Acceptable ==
    /\ ~footer_written
    /\ column_count = descriptors
    /\ \A i \in Columns :
           /\ Len(columns[i].values) = Len(columns[i].nulls)
           /\ Len(columns[i].values) = Len(columns[1].values)

\* cx_writer_flush_row_group, with nothing to do when no columns are there.
Flush ==
    /\ pc \in {"put:flush", "finish:flush"}
    /\ Goto(IF pc = "put:flush" THEN "put:ensure" ELSE "finish:file")
    /\ IF columns = None THEN UNCHANGED <<columns, position, header_written, written>>
       ELSE /\ Acceptable
            /\ written' = Append(written, [columns |-> columns, refused |-> FALSE])
            /\ columns' = None
            /\ position' = 0
            /\ header_written' = TRUE
    /\ UNCHANGED <<settings, column_count, descriptors, footer_written,
                   given, final, faultVars>>

\* Variant: the columns of a row group that was counted are let go.
FlushFailsDropping ==
    /\ pc \in {"put:flush", "finish:flush"} /\ columns # None
    /\ \/ ~Acceptable /\ UNCHANGED <<header_written, written, columns, position, faultVars>>
       \/ /\ Acceptable /\ MayFail("flush")
          /\ header_written' \in {header_written, TRUE}
          /\ UNCHANGED <<written, columns, position>>
       \/ /\ Acceptable /\ MayFail("headers")
          /\ written' = Append(written, [columns |-> columns, refused |-> TRUE])
          /\ header_written' = TRUE
          /\ columns' = None /\ position' = 0
    /\ Return
    /\ UNCHANGED <<settings, column_count, descriptors, footer_written, given, final>>

\* The row group is refused, or a write fails, perhaps after the file header, or
\* its column headers fail, when it is counted already: the columns stay, for a
\* later call to try again, and what that call writes goes over this one.
FlushFails ==
    /\ pc \in {"put:flush", "finish:flush"} /\ columns # None
    /\ \/ ~Acceptable /\ UNCHANGED <<header_written, written, faultVars>>
       \/ /\ Acceptable /\ MayFail("flush")
          /\ header_written' \in {header_written, TRUE}
          /\ UNCHANGED written
       \/ /\ Acceptable /\ MayFail("headers")
          /\ written' = Append(written, [columns |-> columns, refused |-> TRUE])
          /\ header_written' = TRUE
    /\ Return
    /\ UNCHANGED <<settings, column_count, descriptors, columns, position,
                   footer_written, given, final>>

\* cx_writer_ensure_columns
Ensure ==
    /\ pc = "put:ensure"
    /\ \/ /\ columns' = [i \in Columns |-> [values |-> <<>>, nulls |-> <<>>]]
          /\ Goto("put:value") /\ UNCHANGED faultVars
       \/ MayFail("ensure") /\ Return /\ UNCHANGED columns
    /\ UNCHANGED <<settings, column_count, descriptors, position,
                   header_written, footer_written, written, given, final>>

\* Variant: a value is stored and the call fails all the same.
StoreValueThenFail ==
    /\ pc = "put:value"
    /\ columns' = [columns EXCEPT ![call[1]].values =
                      Append(@, IF call[2] = Null THEN Unit ELSE call[2])]
    /\ \/ Goto("put:null") /\ UNCHANGED faultVars
       \/ MayFail("value") /\ Return
    /\ UNCHANGED <<settings, column_count, descriptors, position,
                   header_written, footer_written, written, given, final>>

\* The cell's value, or the unit of its type for a null.
StoreValue ==
    /\ pc = "put:value"
    /\ \/ /\ columns' = [columns EXCEPT ![call[1]].values =
                            Append(@, IF call[2] = Null THEN Unit ELSE call[2])]
          /\ Goto("put:null") /\ UNCHANGED faultVars
       \/ MayFail("value") /\ Return /\ UNCHANGED columns
    /\ UNCHANGED <<settings, column_count, descriptors, position,
                   header_written, footer_written, written, given, final>>

\* Its null bit; the first column counts the rows.
StoreNull ==
    /\ pc = "put:null"
    /\ columns' = [columns EXCEPT ![call[1]].nulls = Append(@, call[2] = Null)]
    /\ position' = position + (IF call[1] = 1 THEN 1 ELSE 0)
    /\ given' = [given EXCEPT ![call[1]] = Append(@, call[2])]
    /\ Return
    /\ UNCHANGED <<settings, column_count, descriptors, header_written,
                   footer_written, written, final, faultVars>>

\* The null bit cannot be stored: the value stays without it.
NullFails ==
    /\ pc = "put:null" /\ MayFail("null")
    /\ Return
    /\ UNCHANGED <<settings, column_count, descriptors, columns, position,
                   header_written, footer_written, written, given, final>>

\* cx_row_group_writer_finish, a noop after the first success.
FinishFile ==
    /\ pc = "finish:file"
    /\ Return
    /\ \/ /\ header_written' = TRUE /\ footer_written' = TRUE
          /\ final' = IF footer_written THEN final ELSE given
          /\ UNCHANGED faultVars
       \/ /\ ~footer_written /\ MayFail("finish")
          /\ header_written' \in {header_written, TRUE}
          /\ UNCHANGED <<footer_written, final>>
    /\ UNCHANGED <<settings, column_count, descriptors, columns, position,
                   written, given>>

\* What a caller may begin, and what goes on inside a call.
Call == \/ AddColumn
        \/ \E i \in Columns : \E cell \in Cells(i) : Put(i, cell)
        \/ Finish

InCall == \/ Flush \/ FlushFails \/ Ensure \/ StoreValue \/ StoreNull \/ NullFails
          \/ FinishFile

Next == Call \/ InCall

Spec == Init /\ [][Next]_vars

------------------------------------------------------------------------------
(* Properties *)

\* Every variable keeps its type, the arguments of a call among them, and there
\* are never more rows in memory than a column was given.
TypeOK ==
    LET data  == [Columns -> [values : Seq(Nat), nulls : Seq(BOOLEAN)]]
        cells == [1..MaxColumns -> Seq((1..MaxRows) \cup {Null})]
    IN  /\ row_group_size \in RowGroupSizes /\ row_order \in RowOrders
        /\ column_count \in 0..descriptors /\ descriptors \in 0..MaxColumns
        /\ columns # None => columns \in data
        /\ position \in 0..MaxRows
        /\ header_written \in BOOLEAN /\ footer_written \in BOOLEAN
        /\ written \in Seq([columns : data, refused : BOOLEAN])
        /\ pc \in {"idle", "put:flush", "put:ensure", "put:value", "put:null",
                   "finish:flush", "finish:file"}
        /\ IF pc \in {"idle", "finish:flush", "finish:file"} THEN call = <<>>
           ELSE call \in Columns \X ((1..MaxRows) \cup {Null})
        /\ given \in cells
        /\ final # None => final \in cells
        /\ failed \subseteq Faults /\ faults \in 0..MaxFaults

\* The cells of column i in a row group, as long as it was accepted, and in the
\* accepted ones of several, in order.
Held(group, i) == IF group.refused THEN <<>> ELSE Decode(group.columns[i])
CellsIn(groups, i) == FlattenSeq([g \in DOMAIN groups |-> Held(groups[g], i)])

WrittenCells(i) == CellsIn(written, i)

\* What the accepted row groups hold is, in every column, what the caller was told
\* is accepted, in its order and up to the same row: a failed or repeated call
\* loses or shifts no cell, and no column gets ahead of another.  Every row group
\* that the footer counts was handed over with the cells that come next, so the
\* one that is counted though it was refused, at its column headers, holds again
\* what the next one holds, and is the only way a cell is doubled.
WrittenRowsAreTheCallers ==
    \A i \in Columns :
        /\ IsPrefix(WrittenCells(i), given[i])
        /\ Len(WrittenCells(i)) = Len(WrittenCells(1))
        /\ \A k \in DOMAIN written :
               IsPrefix(CellsIn(SubSeq(written, 1, k - 1), i)
                            \o Decode(written[k].columns[i]), given[i])

\* When finish returns true, the row groups that were accepted have every accepted
\* cell: none is left behind in memory, and none only in a row group that was
\* refused.
FinishedHoldsEverything ==
    final # None => \A i \in Columns : WrittenCells(i) = final[i]

\* Every accepted row group but the last has exactly row_group_size rows, in
\* whatever order the caller puts its cells and whatever fails, unless a finish
\* has failed after it wrote the last one: then the caller may go on after it.
\* Those that are counted though they were refused can be short.
RowGroupsAreFull ==
    "finish" \notin failed =>
        \A g, h \in DOMAIN written :
            g < h /\ ~written[g].refused /\ ~written[h].refused =>
                RowsIn(written[g].columns) = row_group_size

\* The buffered columns can be written exactly when every column was given as many
\* cells, whatever order the cells came in, whatever was flushed or refused and
\* whatever failed before; a null bit or a name that cannot be stored is what the
\* code does not undo.  A caller that keeps to rows is so never stuck.  One that
\* lets another column get ahead of a full first one is: no put in the first column
\* and no finish gets past the row group again.
FlushableExactlyAtRowBoundaries ==
    /\ pc = "idle" /\ columns # None /\ ~footer_written
    /\ failed \cap {"null", "name"} = {}
    => (Acceptable <=> \A i \in Columns : Len(given[i]) = Len(given[1]))

\* Row groups are counted until finish returns true and never after it.
Log == INSTANCE SealedLog WITH
    Unreadable <- None,
    appended   <- written,
    visible    <- IF footer_written THEN written ELSE None
ImplementsSealedLog == Log!Spec
==============================================================================
