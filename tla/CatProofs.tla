------------------------------- MODULE CatProofs -------------------------------
(***************************************************************************)
(* Proofs about Cat, for any number of files, rows, columns and failures.  *)
(* columnix_cat is a caller of Writer, so that what WriterProofs proves of *)
(* the writer holds here too; what is added is that the readers' cells     *)
(* arrive in the writer, and what main frees.                              *)
(***************************************************************************)
EXTENDS Cat, WriterProofs

\* main and cx_reader_cat, step by step: the types of their variables.
CatTypes ==
    /\ tool \in BOOLEAN
    /\ cat_pc \in {"open", "columns", "next", "cell", "put", "finish", "error", "done"}
    /\ inputs \in Nat /\ column \in Nat
    /\ reader \in {"null", "open", "freed"}
    /\ source \in [1..MaxColumns -> Seq(Cell)]
    /\ cut_short \in BOOLEAN /\ freed_twice \in BOOLEAN

\* Outside a put what the readers have answered is what the writer was given; in
\* a put the cell of the call is ahead.
SourceInv(i) ==
    IF cat_pc = "put" /\ i = column
    THEN \/ pc = "idle" /\ source[i] = given[i]
         \/ \E cell \in Cell : source[i] = Append(given[i], cell)
                               /\ (pc # "idle" => call = <<i, cell>>)
    ELSE source[i] = given[i]

CopyInv == tool =>
    /\ cat_pc \notin {"put", "finish"} => pc = "idle"
    /\ cat_pc = "put" => pc = "idle" \/ InPut
    /\ cat_pc = "finish" => pc \in {"idle", "finish:flush", "finish:file"}
    /\ cat_pc \in {"next", "cell", "put"} => column_count > 0
    /\ cat_pc \in {"cell", "put"} => column \in Columns
    /\ cat_pc \notin {"error", "done"} =>
           ~cut_short /\ \A i \in 1..MaxColumns : SourceInv(i)

\* The footer is written by the one finish of main, with everything before it.
FooterInv == tool /\ cat_pc \notin {"error", "done"} =>
    IF cat_pc = "finish" /\ pc = "idle"
    THEN footer_written => \A i \in Columns : WrittenCells(i) = given[i]
    ELSE ~footer_written

\* Where main has a reader to free.
FreeInv ==
    /\ cat_pc \in {"open", "finish"} => reader # "open"
    /\ cat_pc \in {"columns", "next", "cell", "put"} => reader = "open"
    /\ cat_pc = "error" /\ reader = "freed" => failed_at = "finish" /\ ~cut_short
    /\ cat_pc # "done" => ~freed_twice

ExitInv ==
    /\ ~tool => cat_pc = "open"
    /\ cat_pc # "done" => exit = None
    /\ exit = 0 => tool /\ cat_pc = "done"

CatInv == CatTypes /\ CopyInv /\ FooterInv /\ FreeInv /\ ExitInv
          /\ CopiesAreComplete /\ ReadersAreFreedOnce

\* A row group that is counted though it was refused ends the copy: the call that
\* handed it over has failed, and main is about to see it.
Refused == \E k \in DOMAIN written : written[k].refused
RefusedInv == tool /\ cat_pc \notin {"error", "done"} /\ Refused =>
    /\ pc = "idle"
    /\ \/ cat_pc = "put" /\ source[column] # given[column]
       \/ cat_pc = "finish" /\ ~footer_written

------------------------------------------------------------------------------
(* Every step is a step of the writer, or none. *)

USE DEF readerVars, catVars, writerVars, vars, settings, callVars, faultVars, Columns,
        At, ToStep, Error

CatStep == [CatNext \/ InWriter]_<<writerVars, catVars>>

\* Whatever the tool does is a step that a caller of the writer may take.
LEMMA WriterStep == Inv /\ CatInv /\ CatStep => [Next]_vars
<1> SUFFICES ASSUME Inv, CatInv, CatStep PROVE [Next]_vars
    OBVIOUS
<1>1. CASE InWriter
    BY <1>1 DEF InWriter, Next
<1>2. CASE AddInputColumn
    BY <1>2 DEF AddInputColumn, Next, Call
<1>3. ASSUME NEW is_null \in BOOLEAN, PutCell(is_null)
      PROVE  [Next]_vars
    <2> DEFINE cell == IF is_null THEN Null ELSE Len(source[column]) + 1
    <2>1. tool /\ cat_pc = "cell" /\ Put(column, cell)
        BY <1>3 DEF PutCell
    <2>2. column \in Columns /\ column \in 1..MaxColumns
        BY <2>1, ColumnTypes DEF CatInv, CopyInv, Inv
    <2>3. source[column] = given[column]
        BY <2>1, <2>2 DEF CatInv, CopyInv, SourceInv
    <2>4. cell \in Cells(column)
        BY <2>3 DEF Cells
    <2> HIDE DEF cell
    <2> QED BY <2>1, <2>2, <2>4 DEF Next, Call
<1>4. CASE FinishOutput
    BY <1>4 DEF FinishOutput, Next, Call
<1>5. CASE UNCHANGED vars
    BY <1>5
<1> QED
    BY <1>1, <1>2, <1>3, <1>4, <1>5
    DEF CatStep, CatNext, OpenInput, OpenFails, ColumnsAgree, ColumnsRefused, NextRow,
        EndOfInput, ReadFails, CellIsPut, FinishReturned, CleanUp, Exited

------------------------------------------------------------------------------
(* The tool's own steps. *)

\* What a caller that is not the tool does is no concern of it.
LEMMA OtherCallers ==
    ASSUME CatInv, UNCHANGED catVars, ~tool
    PROVE  CatInv'
BY DEF CatInv, CatTypes, CopyInv, FooterInv, FreeInv, ExitInv, CopiesAreComplete,
       ReadersAreFreedOnce

\* As long as main is not done there is no status to account for.
LEMMA NotYetDone ==
    ASSUME CatInv, tool, tool' = tool, cat_pc # "done", UNCHANGED exit
    PROVE  CopiesAreComplete' /\ ReadersAreFreedOnce' /\ ExitInv'
<1>1. exit' = None /\ None # 0
    BY CatAssumption DEF CatInv, ExitInv
<1> QED BY <1>1 DEF CopiesAreComplete, ReadersAreFreedOnce, ExitInv

\* The writer and the cells stay, and main goes from one step to another.
LEMMA MainMoves ==
    ASSUME CatInv, tool, pc = "idle", UNCHANGED <<writerVars, tool, source>>,
           cat_pc \in {"open", "columns", "next"},
           cat_pc' \in {"open", "columns", "next", "error"},
           cat_pc' = "next" => column_count > 0,
           cut_short' => cat_pc' = "error"
    PROVE  CopyInv' /\ FooterInv'
<1>1. CopyInv /\ FooterInv
    BY DEF CatInv
<1>2. \A i \in 1..MaxColumns : source'[i] = given'[i]
    BY <1>1 DEF CopyInv, SourceInv
<1>3. ~footer_written'
    BY <1>1 DEF FooterInv
<1>4. CopyInv'
    <2>1. \A i \in 1..MaxColumns : SourceInv(i)'
        BY <1>2 DEF SourceInv
    <2> QED BY <2>1 DEF CopyInv
<1>5. FooterInv'
    BY <1>3 DEF FooterInv
<1> QED BY <1>4, <1>5

\* The steps of the loop over the files, which leave the writer alone.
LEMMA LoopSteps ==
    ASSUME Inv, CatInv,
           \/ OpenInput \/ OpenFails \/ ColumnsAgree \/ ColumnsRefused \/ EndOfInput
           \/ ReadFails /\ cat_pc = "next"
    PROVE  CatInv'
<1>0. CatTypes /\ CopyInv /\ FooterInv /\ FreeInv /\ ExitInv
    BY DEF CatInv
<1>1. CASE OpenInput
    <2>1. CatTypes'
        BY <1>0, <1>1 DEF CatTypes, OpenInput
    <2>2. CopyInv' /\ FooterInv'
        BY <1>0, <1>1, MainMoves DEF OpenInput, CopyInv
    <2>3. FreeInv'
        BY <1>0, <1>1 DEF FreeInv, OpenInput
    <2> QED BY <1>1, <2>1, <2>2, <2>3, NotYetDone DEF OpenInput, CatInv
<1>2. CASE OpenFails
    <2>1. CatTypes'
        BY <1>0, <1>2 DEF CatTypes, OpenFails
    <2>2. CopyInv' /\ FooterInv'
        BY <1>0, <1>2, MainMoves DEF OpenFails, CopyInv
    <2>3. FreeInv'
        BY <1>0, <1>2 DEF FreeInv, OpenFails
    <2> QED BY <1>2, <2>1, <2>2, <2>3, NotYetDone DEF OpenFails, CatInv
<1>3. CASE ColumnsAgree
    <2>1. CatTypes'
        BY <1>0, <1>3 DEF CatTypes, ColumnsAgree
    <2>2. CopyInv' /\ FooterInv'
        BY <1>0, <1>3, MainMoves DEF ColumnsAgree, CopyInv
    <2>3. FreeInv'
        BY <1>0, <1>3 DEF FreeInv, ColumnsAgree
    <2> QED BY <1>3, <2>1, <2>2, <2>3, NotYetDone DEF ColumnsAgree, CatInv
<1>4. CASE ColumnsRefused
    <2>1. CatTypes'
        BY <1>0, <1>4 DEF CatTypes, ColumnsRefused
    <2>2. CopyInv' /\ FooterInv'
        BY <1>0, <1>4, MainMoves DEF ColumnsRefused, CopyInv
    <2>3. FreeInv'
        BY <1>0, <1>4 DEF FreeInv, ColumnsRefused
    <2> QED BY <1>4, <2>1, <2>2, <2>3, NotYetDone DEF ColumnsRefused, CatInv
<1>5. CASE EndOfInput
    <2>1. CatTypes'
        BY <1>0, <1>5 DEF CatTypes, EndOfInput
    <2>2. CopyInv' /\ FooterInv'
        BY <1>0, <1>5, MainMoves DEF EndOfInput, CopyInv
    <2>3. FreeInv'
        BY <1>0, <1>5 DEF FreeInv, EndOfInput
    <2> QED BY <1>5, <2>1, <2>2, <2>3, NotYetDone DEF EndOfInput, CatInv
<1>6. CASE ReadFails /\ cat_pc = "next"
    <2>1. CatTypes'
        BY <1>0, <1>6 DEF CatTypes, ReadFails
    <2>2. CopyInv' /\ FooterInv'
        BY <1>0, <1>6, MainMoves DEF ReadFails, CopyInv
    <2>3. FreeInv'
        BY <1>0, <1>6 DEF FreeInv, ReadFails
    <2> QED BY <1>6, <2>1, <2>2, <2>3, NotYetDone DEF ReadFails, CatInv
<1> QED BY <1>1, <1>2, <1>3, <1>4, <1>5, <1>6

\* The columns of the first file are added before any cell is read.
LEMMA AddInputColumnSafe == Inv /\ CatInv /\ AddInputColumn => CatInv'
<1> SUFFICES ASSUME Inv, CatInv, AddInputColumn PROVE CatInv'
    OBVIOUS
<1>0. CatTypes /\ CopyInv /\ FooterInv /\ FreeInv /\ ExitInv
    BY DEF CatInv
<1>1. /\ tool /\ cat_pc = "columns" /\ cat_pc' \in {"columns", "error"}
      /\ UNCHANGED <<tool, readerVars, column, freed_twice, exit>>
      /\ UNCHANGED <<pc, given, footer_written>>
    BY DEF AddInputColumn, AddColumn
<1>2. CatTypes'
    BY <1>0, <1>1 DEF CatTypes
<1>3. CopyInv'
    <2>1. \A i \in 1..MaxColumns : SourceInv(i)'
        BY <1>0, <1>1 DEF CopyInv, SourceInv
    <2> QED BY <1>0, <1>1, <2>1 DEF CopyInv
<1>4. FooterInv'
    BY <1>0, <1>1 DEF FooterInv
<1>5. FreeInv'
    BY <1>0, <1>1 DEF FreeInv
<1> QED BY <1>1, <1>2, <1>3, <1>4, <1>5, NotYetDone DEF CatInv

\* A row begins with every column as far as the others.
LEMMA NextRowSafe == Inv /\ CatInv /\ NextRow => CatInv'
<1> SUFFICES ASSUME Inv, CatInv, NextRow PROVE CatInv'
    OBVIOUS
<1>0. CatTypes /\ CopyInv /\ FooterInv /\ FreeInv /\ ExitInv
    BY DEF CatInv
<1>1. /\ tool /\ cat_pc = "next" /\ cat_pc' = "cell" /\ column' = 1
      /\ UNCHANGED <<writerVars, tool, readerVars, freed_twice, exit>>
    BY DEF NextRow
<1>2. CatTypes'
    BY <1>0, <1>1 DEF CatTypes
<1>3. CopyInv'
    <2>1. \A i \in 1..MaxColumns : SourceInv(i)'
        BY <1>0, <1>1 DEF CopyInv, SourceInv
    <2>2. column' \in Columns'
        BY <1>0, <1>1 DEF CopyInv, Inv, Types
    <2> QED BY <1>0, <1>1, <2>1, <2>2 DEF CopyInv
<1>4. FooterInv'
    BY <1>0, <1>1 DEF FooterInv
<1>5. FreeInv'
    BY <1>0, <1>1 DEF FreeInv
<1> QED BY <1>1, <1>2, <1>3, <1>4, <1>5, NotYetDone DEF CatInv

\* A reader that fails in the middle of a row ends the copy.
LEMMA ReadFailsInRow == Inv /\ CatInv /\ ReadFails /\ cat_pc = "cell" => CatInv'
<1> SUFFICES ASSUME Inv, CatInv, ReadFails, cat_pc = "cell" PROVE CatInv'
    OBVIOUS
<1>0. CatTypes /\ CopyInv /\ FooterInv /\ FreeInv /\ ExitInv
    BY DEF CatInv
<1>1. /\ tool /\ pc = "idle" /\ cat_pc' = "error" /\ cut_short' = TRUE
      /\ UNCHANGED <<writerVars, tool, inputs, reader, source, column, freed_twice, exit>>
    BY DEF ReadFails
<1>2. CatTypes' /\ CopyInv' /\ FooterInv' /\ FreeInv'
    BY <1>0, <1>1 DEF CatTypes, CopyInv, FooterInv, FreeInv
<1> QED BY <1>1, <1>2, NotYetDone DEF CatInv

\* The cell that is read is ahead of the writer until the put has returned.
LEMMA PutCellSafe ==
    ASSUME Inv, CatInv, NEW is_null \in BOOLEAN, PutCell(is_null)
    PROVE  CatInv'
<1>0. CatTypes /\ CopyInv /\ FooterInv /\ FreeInv /\ ExitInv
    BY DEF CatInv
<1>1. PICK c, cell : c = column
          /\ cell = (IF is_null THEN Null ELSE Len(source[c]) + 1)
    OBVIOUS
<1>2. /\ tool /\ cat_pc = "cell" /\ cat_pc' = "put" /\ Put(c, cell)
      /\ source' = [source EXCEPT ![c] = Append(source[c], cell)]
      /\ UNCHANGED <<tool, inputs, reader, cut_short, column, freed_twice, exit>>
    BY <1>1 DEF PutCell
<1>3. /\ c \in Columns /\ c \in 1..MaxColumns
      /\ given[c] \in Seq(Cell) /\ source[c] = given[c]
    <2>1. c \in Columns
        BY <1>0, <1>1, <1>2 DEF CopyInv
    <2>2. c \in 1..MaxColumns /\ given[c] \in Seq(Cell)
        BY <2>1, ColumnTypes DEF Inv
    <2> QED BY <1>0, <1>2, <2>1, <2>2 DEF CopyInv, SourceInv
<1>4. cell \in Cell
    <2>1. Len(given[c]) < MaxRows
        BY <1>2 DEF Put
    <2> QED BY <1>1, <1>3, <2>1, WriterAssumption DEF Cell
<1>5. /\ call' = <<c, cell>> /\ UNCHANGED <<given, footer_written, column_count>>
      /\ pc' \in {"put:flush", "put:ensure", "put:value"}
    BY <1>2 DEF Put
<1>6. /\ source'[c] = Append(given[c], cell)
      /\ \A i \in 1..MaxColumns : i # c => source'[i] = source[i]
      /\ source' \in [1..MaxColumns -> Seq(Cell)]
    <2>1. Append(source[c], cell) \in Seq(Cell)
        BY <1>3, <1>4, AppendProperties
    <2> QED BY <1>0, <1>2, <1>3, <2>1 DEF CatTypes
<1>7. CatTypes'
    BY <1>0, <1>2, <1>6 DEF CatTypes
<1>8. CopyInv'
    <2>1. ASSUME NEW i \in 1..MaxColumns PROVE SourceInv(i)'
        <3>1. CASE i = c
            BY <1>1, <1>2, <1>4, <1>5, <1>6, <3>1 DEF SourceInv
        <3>2. CASE i # c
            <4>1. source[i] = given[i]
                BY <1>0, <1>2 DEF CopyInv, SourceInv
            <4> QED BY <1>1, <1>2, <1>5, <1>6, <3>2, <4>1 DEF SourceInv
        <3> QED BY <3>1, <3>2
    <2> QED BY <1>0, <1>2, <1>5, <2>1 DEF CopyInv, InPut
<1>9. FooterInv'
    BY <1>0, <1>2, <1>5 DEF FooterInv
<1>10. FreeInv'
    BY <1>0, <1>2 DEF FreeInv
<1> QED BY <1>2, <1>7, <1>8, <1>9, <1>10, NotYetDone DEF CatInv

\* The cell that was put is accepted exactly when the writer has as many as the
\* reader has answered.
LEMMA PutAccepted ==
    ASSUME Inv, CatInv, CellIsPut, cat_pc' # "error"
    PROVE  \A i \in 1..MaxColumns : source[i] = given[i]
<1>0. CatTypes /\ CopyInv
    BY DEF CatInv
<1>1. /\ tool /\ cat_pc = "put" /\ pc = "idle"
      /\ Len(given[column]) = Len(source[column])
    BY DEF CellIsPut
<1>2. column \in Columns /\ column \in 1..MaxColumns /\ given[column] \in Seq(Cell)
    <2>1. column \in Columns
        BY <1>0, <1>1 DEF CopyInv
    <2> QED BY <2>1, ColumnTypes DEF Inv
<1>3. SourceInv(column)
    BY <1>0, <1>1, <1>2 DEF CopyInv
<1>4. ASSUME NEW cell \in Cell, source[column] = Append(given[column], cell)
      PROVE  FALSE
    <2>1. Len(source[column]) = Len(given[column]) + 1
        BY <1>2, <1>4, AppendProperties
    <2>2. Len(given[column]) \in Nat
        BY <1>2
    <2> QED BY <1>1, <2>1, <2>2
<1>5. source[column] = given[column]
    BY <1>1, <1>3, <1>4 DEF SourceInv
<1> QED BY <1>0, <1>1, <1>5 DEF CopyInv, SourceInv

\* What the reader answered is then all in the writer, or the copy ends.
LEMMA CellIsPutSafe == Inv /\ CatInv /\ CellIsPut => CatInv'
<1> SUFFICES ASSUME Inv, CatInv, CellIsPut PROVE CatInv'
    OBVIOUS
<1>0. CatTypes /\ CopyInv /\ FooterInv /\ FreeInv /\ ExitInv
    BY DEF CatInv
<1>1. /\ tool /\ cat_pc = "put" /\ pc = "idle"
      /\ UNCHANGED <<writerVars, tool, readerVars, freed_twice, exit>>
      /\ \/ cat_pc' = "cell" /\ column < column_count /\ column' = column + 1
         \/ cat_pc' = "next" /\ UNCHANGED column
         \/ cat_pc' = "error" /\ UNCHANGED column
    BY DEF CellIsPut
<1>2. column \in Columns /\ column_count \in Nat
    BY <1>0, <1>1 DEF CopyInv, Inv, Types
<1>3. cat_pc' # "error" => \A i \in 1..MaxColumns : source[i] = given[i]
    BY PutAccepted
<1>4. CatTypes'
    BY <1>0, <1>1 DEF CatTypes
<1>5. CopyInv'
    <2>1. CASE cat_pc' = "error"
        BY <1>0, <1>1, <2>1 DEF CopyInv
    <2>2. CASE cat_pc' # "error"
        <3>1. \A i \in 1..MaxColumns : SourceInv(i)'
            BY <1>1, <1>3, <2>2 DEF SourceInv
        <3>2. cat_pc' = "cell" => column' \in Columns'
            BY <1>1, <1>2
        <3> QED BY <1>0, <1>1, <2>2, <3>1, <3>2 DEF CopyInv
    <2> QED BY <2>1, <2>2
<1>6. FooterInv'
    BY <1>0, <1>1 DEF FooterInv
<1>7. FreeInv'
    BY <1>0, <1>1 DEF FreeInv
<1> QED BY <1>1, <1>4, <1>5, <1>6, <1>7, NotYetDone DEF CatInv

------------------------------------------------------------------------------
(* The end of main. *)

\* Finish is called between two files, with no reader open.
LEMMA FinishOutputSafe == Inv /\ CatInv /\ FinishOutput => CatInv'
<1> SUFFICES ASSUME Inv, CatInv, FinishOutput PROVE CatInv'
    OBVIOUS
<1>0. CatTypes /\ CopyInv /\ FooterInv /\ FreeInv /\ ExitInv
    BY DEF CatInv
<1>1. /\ tool /\ cat_pc = "open" /\ cat_pc' = "finish" /\ pc' = "finish:flush"
      /\ UNCHANGED <<tool, readerVars, column, freed_twice, exit>>
      /\ UNCHANGED <<given, footer_written, column_count>>
    BY DEF FinishOutput, Finish
<1>2. CatTypes'
    BY <1>0, <1>1 DEF CatTypes
<1>3. CopyInv'
    <2>1. \A i \in 1..MaxColumns : SourceInv(i)'
        BY <1>0, <1>1 DEF CopyInv, SourceInv
    <2> QED BY <1>0, <1>1, <2>1 DEF CopyInv
<1>4. FooterInv' /\ FreeInv'
    BY <1>0, <1>1 DEF FooterInv, FreeInv
<1> QED BY <1>1, <1>2, <1>3, <1>4, NotYetDone DEF CatInv

\* finish has returned: when it has written the footer the output is the copy.
LEMMA FinishReturnedSafe == Inv /\ CatInv /\ RefusedInv /\ FinishReturned => CatInv'
<1> SUFFICES ASSUME Inv, CatInv, RefusedInv, FinishReturned PROVE CatInv'
    OBVIOUS
<1>0. CatTypes /\ CopyInv /\ FooterInv /\ FreeInv /\ ExitInv
    BY DEF CatInv
<1>1. /\ tool /\ pc = "idle" /\ cat_pc = "finish"
      /\ UNCHANGED <<writerVars, tool, readerVars, column, freed_twice>>
    BY DEF FinishReturned
<1>2. /\ ~cut_short /\ ~freed_twice /\ reader # "open"
      /\ \A i \in 1..MaxColumns : source[i] = given[i]
    BY <1>0, <1>1 DEF CopyInv, SourceInv, FreeInv
<1>3. CASE footer_written /\ ToStep("done") /\ exit' = 0
    <2>1. CatTypes' /\ CopyInv' /\ FooterInv' /\ FreeInv' /\ ExitInv'
        BY <1>0, <1>1, <1>2, <1>3
        DEF CatTypes, CopyInv, FooterInv, FreeInv, ExitInv
    <2>2. \A i \in Columns : WrittenCells(i) = given[i] /\ i \in 1..MaxColumns
        BY <1>0, <1>1, <1>3, ColumnTypes DEF FooterInv, Inv
    <2>3. CopiesAreComplete'
        <3>1. \A i \in Columns : WrittenCells(i) = source[i]
            BY <1>2, <2>2
        <3>2. UNCHANGED <<written, column_count, source>>
            BY <1>1
        <3>3. \A k \in DOMAIN written : ~written[k].refused
            BY <1>1, <1>3 DEF RefusedInv, Refused
        <3> QED BY <1>1, <1>2, <1>3, <3>1, <3>2, <3>3
                DEF CopiesAreComplete, WrittenCells
    <2>4. ReadersAreFreedOnce'
        BY <1>1, <1>2 DEF ReadersAreFreedOnce
    <2> QED BY <2>1, <2>3, <2>4 DEF CatInv
<1>4. CASE Error /\ UNCHANGED exit
    <2>1. CatTypes' /\ CopyInv' /\ FooterInv' /\ FreeInv'
        BY <1>0, <1>1, <1>2, <1>4 DEF CatTypes, CopyInv, FooterInv, FreeInv
    <2> QED BY <1>1, <1>4, <2>1, NotYetDone DEF CatInv
<1> QED BY <1>3, <1>4 DEF FinishReturned

\* Under the label error the status is 1, and the last reader is freed.
LEMMA CleanUpSafe == Inv /\ CatInv /\ CleanUp => CatInv'
<1> SUFFICES ASSUME Inv, CatInv, CleanUp PROVE CatInv'
    OBVIOUS
<1>0. CatTypes /\ CopyInv /\ FooterInv /\ FreeInv /\ ExitInv
    BY DEF CatInv
<1>1. /\ tool /\ pc = "idle" /\ cat_pc = "error" /\ cat_pc' = "done"
      /\ freed_twice' = (reader = "freed")
      /\ reader' = (IF reader = "null" THEN "null" ELSE "freed")
      /\ exit' = 1
      /\ UNCHANGED <<writerVars, tool, inputs, source, cut_short, column, failed_at>>
    BY DEF CleanUp
<1>2. CatTypes' /\ CopyInv' /\ FooterInv' /\ FreeInv'
    BY <1>0, <1>1 DEF CatTypes, CopyInv, FooterInv, FreeInv
<1>3. ExitInv' /\ CopiesAreComplete'
    BY <1>0, <1>1 DEF ExitInv, CopiesAreComplete
<1>4. ReadersAreFreedOnce'
    BY <1>0, <1>1 DEF FreeInv, ReadersAreFreedOnce
<1> QED BY <1>2, <1>3, <1>4 DEF CatInv

------------------------------------------------------------------------------
(* The writer's steps inside a call of the tool. *)

\* What every step inside a call leaves alone.
LEMMA CallFrame ==
    ASSUME InCall
    PROVE  /\ pc # "idle" /\ UNCHANGED column_count
           /\ pc' # "idle" => UNCHANGED call
           /\ ~FinishFile => UNCHANGED footer_written
           /\ ~StoreNull => UNCHANGED given
BY DEF InCall, Flush, FlushFails, Ensure, StoreValue, StoreNull, NullFails, FinishFile,
       Goto, Return

\* A put stays a put until it returns, and a finish a finish.
LEMMA CallStays ==
    ASSUME InCall
    PROVE  /\ InPut => pc' = "idle" \/ InPut'
           /\ pc \in {"finish:flush", "finish:file"} =>
                  pc' \in {"idle", "finish:flush", "finish:file"}
BY DEF InCall, Flush, FlushFails, Ensure, StoreValue, StoreNull, NullFails, FinishFile,
       Goto, Return, InPut

\* In a put, the cell of the call stays ahead until the null bit is stored.
LEMMA PutSteps ==
    ASSUME Inv, CatInv, tool, InCall, UNCHANGED catVars, cat_pc = "put"
    PROVE  CopyInv' /\ FooterInv'
<1>0. Types /\ CallInv /\ CatTypes /\ CopyInv /\ FooterInv
    BY DEF Inv, CatInv
<1>1. pc # "idle" /\ InPut /\ (pc' = "idle" \/ InPut')
    BY <1>0, CallFrame, CallStays DEF CopyInv
<1>2. /\ ~FinishFile /\ UNCHANGED <<footer_written, column_count>>
      /\ pc' # "idle" => UNCHANGED call
    BY <1>1, CallFrame DEF FinishFile, InPut
<1>3. column \in Columns /\ column \in 1..MaxColumns
    BY <1>0, ColumnTypes DEF CopyInv
<1>4. PICK c, cell : /\ c = column /\ cell \in Cell /\ call = <<c, cell>>
                       /\ source[c] = Append(given[c], cell)
    <2>1. SourceInv(column)
        BY <1>0, <1>3 DEF CopyInv
    <2> QED BY <1>1, <2>1 DEF SourceInv
<1>5. \A i \in 1..MaxColumns : i # c => given'[i] = given[i] /\ source[i] = given[i]
    <2>1. ASSUME NEW i \in 1..MaxColumns, i # c PROVE source[i] = given[i]
        BY <1>0, <1>4, <2>1 DEF CopyInv, SourceInv
    <2>2. CASE StoreNull
        BY <1>0, <1>4, <2>1, <2>2, NullStored
    <2>3. CASE ~StoreNull
        BY <2>1, <2>3, CallFrame
    <2> QED BY <2>2, <2>3
<1>6. SourceInv(c)'
    <2>1. CASE StoreNull
        <3>1. given'[c] = Append(given[c], cell)
            BY <1>0, <1>4, <2>1, NullStored
        <3> QED BY <1>4, <2>1, <3>1 DEF StoreNull, Return, SourceInv
    <2>2. CASE ~StoreNull
        BY <1>2, <1>4, <2>2, CallFrame DEF SourceInv
    <2> QED BY <2>1, <2>2
<1>7. ASSUME NEW i \in 1..MaxColumns PROVE SourceInv(i)'
    <2>1. CASE i = c
        BY <1>6, <2>1
    <2>2. CASE i # c
        BY <1>4, <1>5, <2>2 DEF SourceInv
    <2> QED BY <2>1, <2>2
<1> QED BY <1>0, <1>1, <1>2, <1>7 DEF CopyInv, FooterInv

\* In finish nothing is given, and the footer comes when nothing is in memory.
LEMMA FinishSteps ==
    ASSUME Inv, CatInv, tool, InCall, UNCHANGED catVars, cat_pc = "finish"
    PROVE  CopyInv' /\ FooterInv'
<1>0. Types /\ CallInv /\ DataInv /\ CatTypes /\ CopyInv /\ FooterInv
    BY DEF Inv, CatInv
<1>1. /\ pc \in {"finish:flush", "finish:file"} /\ ~footer_written
      /\ pc' \in {"idle", "finish:flush", "finish:file"}
    BY <1>0, CallFrame, CallStays DEF CopyInv, FooterInv
<1>2. UNCHANGED <<given, column_count>>
    BY <1>1, CallFrame DEF StoreNull
<1>3. CopyInv'
    <2>1. \A i \in 1..MaxColumns : SourceInv(i)'
        BY <1>0, <1>2 DEF CopyInv, SourceInv
    <2> QED BY <1>0, <1>1, <2>1 DEF CopyInv
<1>4. FooterInv'
    <2>1. CASE FinishFile
        <3>1. columns = None /\ pc' = "idle" /\ UNCHANGED written
            BY <1>0, <2>1 DEF FinishFile, CallInv, Return
        <3>2. \A i \in Columns : WrittenCells(i) = given[i]
            BY <1>0, <3>1, DataParts DEF WrittenInv
        <3> QED BY <1>2, <3>1, <3>2 DEF FooterInv, WrittenCells
    <2>2. CASE ~FinishFile
        BY <1>1, <2>2, CallFrame DEF FooterInv
    <2> QED BY <2>1, <2>2
<1> QED BY <1>3, <1>4

\* The writer's steps disturb nothing, in a call of the tool or of another.
LEMMA InWriterSafe == Inv /\ CatInv /\ InWriter => CatInv'
<1> SUFFICES ASSUME Inv, CatInv, InWriter PROVE CatInv'
    OBVIOUS
<1>1. CASE ~tool
    BY <1>1, OtherCallers DEF InWriter
<1>2. CASE tool
    <2>1. InCall /\ UNCHANGED catVars /\ pc # "idle"
        BY <1>2, CallFrame DEF InWriter
    <2>2. cat_pc \in {"put", "finish"}
        BY <1>2, <2>1 DEF CatInv, CopyInv
    <2>3. CopyInv' /\ FooterInv'
        BY <1>2, <2>1, <2>2, PutSteps, FinishSteps
    <2>4. CatTypes' /\ FreeInv'
        BY <2>1 DEF CatInv, CatTypes, FreeInv
    <2> QED BY <1>2, <2>1, <2>2, <2>3, <2>4, NotYetDone DEF CatInv
<1> QED BY <1>1, <1>2 DEF CatInv, CatTypes

\* A row group that is refused in a call makes the call fail, and ends the copy.
LEMMA RefusedInductive == Inv /\ CatInv /\ RefusedInv /\ CatStep => RefusedInv'
<1> SUFFICES ASSUME Inv, CatInv, RefusedInv, CatStep,
                    tool', cat_pc' \notin {"error", "done"}, Refused'
             PROVE  /\ pc' = "idle"
                    /\ \/ cat_pc' = "put" /\ source'[column'] # given'[column']
                       \/ cat_pc' = "finish" /\ ~footer_written'
    BY DEF RefusedInv
<1>0. CatTypes /\ CopyInv /\ FooterInv /\ Types /\ CallInv
    BY DEF CatInv, Inv
<1>1. CASE UNCHANGED <<writerVars, catVars>>
    BY <1>1 DEF RefusedInv, Refused
<1>2. ASSUME tool, UNCHANGED written, cat_pc \in {"open", "columns", "next", "cell"}
      PROVE  FALSE
    BY <1>2 DEF RefusedInv, Refused
<1>3. CASE OpenInput \/ OpenFails \/ ColumnsAgree \/ ColumnsRefused \/ NextRow
           \/ EndOfInput \/ ReadFails \/ FinishOutput \/ AddInputColumn
    BY <1>2, <1>3
    DEF OpenInput, OpenFails, ColumnsAgree, ColumnsRefused, NextRow, EndOfInput,
        ReadFails, FinishOutput, Finish, AddInputColumn, AddColumn
<1>4. CASE \E is_null \in BOOLEAN : PutCell(is_null)
    BY <1>2, <1>4 DEF PutCell, Put
<1>5. CASE CellIsPut
    <2>1. /\ tool /\ cat_pc = "put" /\ UNCHANGED written /\ cat_pc' # "error"
        BY <1>5 DEF CellIsPut
    <2>2. source[column] # given[column]
        BY <2>1 DEF RefusedInv, Refused
    <2>3. column \in 1..MaxColumns
        BY <1>0, <2>1, ColumnTypes DEF CopyInv
    <2> QED BY <1>5, <2>1, <2>2, <2>3, PutAccepted
<1>6. CASE FinishReturned \/ CleanUp \/ Exited
    BY <1>6 DEF FinishReturned, CleanUp, Exited
<1>7. CASE InWriter
    <2>1. InCall /\ UNCHANGED catVars /\ tool /\ pc # "idle"
        BY <1>7, CallFrame DEF InWriter
    <2>2. cat_pc \in {"put", "finish"} /\ cat_pc \notin {"error", "done"}
        BY <1>0, <2>1 DEF CopyInv
    <2>3. ~Refused
        BY <2>1, <2>2 DEF RefusedInv
    <2>4. CASE UNCHANGED written
        BY <2>3, <2>4 DEF Refused
    <2>5. CASE Counted(FALSE) /\ columns # None
        <3>1. /\ DOMAIN written' = 1..(Len(written) + 1) /\ Len(written) \in Nat
              /\ DOMAIN written = 1..Len(written)
              /\ written'[Len(written) + 1].refused = FALSE
              /\ \A k \in 1..Len(written) : written'[k] = written[k]
            BY <1>0, <2>5, GroupCounted
        <3>2. ASSUME NEW k \in DOMAIN written' PROVE ~written'[k].refused
            BY <2>3, <3>1 DEF Refused
        <3> QED BY <3>2 DEF Refused
    <2>6. CASE FlushFails
        <3>1. pc' = "idle" /\ UNCHANGED <<given, footer_written>>
            BY <2>6 DEF FlushFails, Return
        <3>2. CASE cat_pc = "finish"
            BY <1>0, <2>1, <3>1, <3>2 DEF FooterInv
        <3>3. CASE cat_pc = "put"
            <4>1. column \in Columns /\ column \in 1..MaxColumns
                  /\ given[column] \in Seq(Cell)
                BY <1>0, <2>1, <3>3, ColumnTypes DEF CopyInv
            <4>2. PICK cell \in Cell : source[column] = Append(given[column], cell)
                BY <1>0, <2>1, <3>3, <4>1 DEF CopyInv, SourceInv
            <4>3. Len(source[column]) = Len(given[column]) + 1
                BY <4>1, <4>2, AppendProperties
            <4>4. source[column] # given[column]
                BY <4>1, <4>3
            <4> QED BY <2>1, <3>1, <3>3, <4>4
        <3> QED BY <2>2, <3>2, <3>3
    <2>7. CASE Flush
        BY <2>4, <2>5, <2>7 DEF Flush, Counted
    <2> QED BY <2>1, <2>4, <2>6, <2>7
            DEF InCall, Ensure, StoreValue, StoreNull, NullFails, FinishFile
<1> QED BY <1>1, <1>3, <1>4, <1>5, <1>6, <1>7 DEF CatStep, CatNext

------------------------------------------------------------------------------
(* The invariant, and the properties that follow from it. *)

\* The invariants hold at first.
LEMMA CatInitially == CatInit => Inv /\ CatInv /\ RefusedInv
<1> SUFFICES ASSUME CatInit PROVE CatInv /\ RefusedInv
    BY Initially DEF CatInit
<1>1. /\ source = given /\ source \in [1..MaxColumns -> Seq(Cell)]
      /\ pc = "idle" /\ footer_written = FALSE
    BY EmptySeq DEF CatInit, Init
<1>2. None # 0
    BY CatAssumption
<1>3. CatTypes /\ FooterInv /\ FreeInv /\ ExitInv
    BY <1>1, <1>2 DEF CatInit, CatTypes, FooterInv, FreeInv, ExitInv
<1>4. CopyInv
    BY <1>1 DEF CatInit, CopyInv, SourceInv
<1>5. CopiesAreComplete /\ ReadersAreFreedOnce
    BY <1>2 DEF CatInit, CopiesAreComplete, ReadersAreFreedOnce
<1>6. RefusedInv
    BY DEF CatInit, Init, RefusedInv, Refused
<1> QED BY <1>3, <1>4, <1>5, <1>6 DEF CatInv

\* A step that changes nothing disturbs nothing.
LEMMA CatStays == CatInv /\ UNCHANGED <<writerVars, catVars>> => CatInv'
BY DEF CatInv, CatTypes, CopyInv, SourceInv, InPut, FooterInv, FreeInv, ExitInv,
       CopiesAreComplete, ReadersAreFreedOnce, WrittenCells

\* They are preserved by every step.
LEMMA CatInductive ==
    Inv /\ CatInv /\ RefusedInv /\ CatStep => Inv' /\ CatInv' /\ RefusedInv'
<1> SUFFICES ASSUME Inv, CatInv, RefusedInv, CatStep
             PROVE  Inv' /\ CatInv' /\ RefusedInv'
    OBVIOUS
<1>1. Inv' /\ RefusedInv'
    BY WriterStep, Inductive, RefusedInductive
<1>2. CatInv'
    <2>1. CASE InWriter
        BY <2>1, InWriterSafe
    <2>2. CASE ReadFails
        BY <2>2, LoopSteps, ReadFailsInRow DEF ReadFails
    <2>3. CASE Exited \/ UNCHANGED <<writerVars, catVars>>
        BY <2>3, CatStays DEF Exited
    <2>4. CASE OpenInput \/ OpenFails \/ ColumnsAgree \/ ColumnsRefused \/ EndOfInput
        BY ONLY <2>4, LoopSteps, Inv, CatInv
    <2>5. CASE \E is_null \in BOOLEAN : PutCell(is_null)
        BY <2>5, PutCellSafe
    <2>6. CASE AddInputColumn \/ NextRow \/ CellIsPut
        BY <2>6, AddInputColumnSafe, NextRowSafe, CellIsPutSafe
    <2>7. CASE FinishOutput \/ FinishReturned \/ CleanUp
        BY <2>7, FinishOutputSafe, FinishReturnedSafe, CleanUpSafe
    <2> QED
        BY <2>1, <2>2, <2>3, <2>4, <2>5, <2>6, <2>7 DEF CatStep, CatNext
<1> QED BY <1>1, <1>2

\* The invariants of the writer and of the tool hold together.
THEOREM CatInvariance == CatSpec => [](Inv /\ CatInv /\ RefusedInv)
<1> QED BY CatInitially, CatInductive, PTL DEF CatSpec, CatStep

\* columnix_cat, whatever fails in its readers, is a caller of the writer like any
\* other: all that is proved of Spec is true of it.
THEOREM CatIsACaller == CatSpec => Spec
<1>1. CatInit => Init
    BY DEF CatInit
<1> QED BY <1>1, WriterStep, CatInvariance, PTL DEF CatSpec, CatStep, Spec

\* What the file of the copy holds, then, is what WriterProofs shows of any file.
THEOREM CopyIsWritten ==
    CatSpec => /\ [](TypeOK /\ WrittenRowsAreTheCallers /\ FinishedHoldsEverything)
               /\ [](RowGroupsAreFull /\ FlushableExactlyAtRowBoundaries)
               /\ ImplementsSealedLog
<1> QED
    BY CatIsACaller, TypeCorrect, WrittenIsGiven, FinishedIsComplete, GroupsAreFull,
       FlushableAtRowBoundaries, ImplementsLog, PTL

\* Status 0 is returned only for an output that is the whole of every input, once.
THEOREM CopiesComplete == CatSpec => []CopiesAreComplete
<1>1. CatInv => CopiesAreComplete
    BY DEF CatInv
<1> QED BY <1>1, CatInvariance, PTL

\* main frees each reader once, but for the last when finish fails.
THEOREM FreedOnce == CatSpec => []ReadersAreFreedOnce
<1>1. CatInv => ReadersAreFreedOnce
    BY DEF CatInv
<1> QED BY <1>1, CatInvariance, PTL
================================================================================
