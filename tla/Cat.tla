---------------------------------- MODULE Cat ----------------------------------
(***************************************************************************)
(* columnix_cat (bin/columnix_cat.c): the rows of several files are read,  *)
(* one file after the other, and written to one.  It is a caller of Writer *)
(* that puts rows in order; the readers are what RowScan promises of them: *)
(* rows, then the end, or an error.  When "tool" is FALSE the caller is    *)
(* any other, as in Writer.                                                *)
(*                                                                         *)
(* Rows are made up as they are read: the value of a cell is the number of *)
(* its row in the output.                                                  *)
(***************************************************************************)
EXTENDS Writer

CONSTANT MaxInputs   \* bound on the files given

ASSUME CatAssumption == MaxInputs \in Nat /\ None \notin {0, 1}   \* is no status

VARIABLES
    tool,          \* is the caller columnix_cat?
    cat_pc,        \* where main is
    inputs,        \* files opened
    reader,        \* the local of main: "null", "open", or "freed"
    column,        \* the loop variable of cx_reader_cat
    source,        \* per column: the cells that the readers have answered
    cut_short,     \* a reader failed before its end
    failed_at,     \* where main went to error, or None
    freed_twice,   \* cx_reader_free was called on a reader that was freed
    exit           \* status of the process, or None

readerVars == <<inputs, reader, source, cut_short>>
catVars == <<tool, cat_pc, readerVars, column, failed_at, freed_twice, exit>>
writerVars == vars

CatInit ==
    /\ Init
    /\ tool \in BOOLEAN
    /\ tool => row_order
    /\ cat_pc = "open" /\ inputs = 0 /\ reader = "null" /\ column = 0
    /\ source = [i \in 1..MaxColumns |-> <<>>]
    /\ cut_short = FALSE
    /\ failed_at = None /\ freed_twice = FALSE /\ exit = None

\* main is at this step and the writer is not in a call.
At(step) == tool /\ pc = "idle" /\ cat_pc = step

\* goto error
Error == cat_pc' = "error" /\ failed_at' = cat_pc

ToStep(step) == cat_pc' = step /\ UNCHANGED failed_at

------------------------------------------------------------------------------
(* The loop over the files. *)

\* Variant: a reader that cannot be opened leaves the variable as it was.
OpenFailsInPlace ==
    /\ At("open") /\ inputs < MaxInputs
    /\ cut_short' = TRUE
    /\ Error
    /\ UNCHANGED <<writerVars, tool, inputs, reader, source, column, freed_twice, exit>>

OpenInput ==
    /\ At("open") /\ inputs < MaxInputs
    /\ reader' = "open" /\ inputs' = inputs + 1
    /\ ToStep("columns")
    /\ UNCHANGED <<writerVars, tool, source, cut_short, column, freed_twice, exit>>

OpenFails ==
    /\ At("open") /\ inputs < MaxInputs
    /\ reader' = "null" /\ cut_short' = TRUE
    /\ Error
    /\ UNCHANGED <<writerVars, tool, inputs, source, column, freed_twice, exit>>

\* The columns of the first file are those of the output.
AddInputColumn ==
    /\ At("columns") /\ inputs = 1
    /\ AddColumn
    /\ \/ column_count' > column_count /\ ToStep("columns")
       \/ column_count' = column_count /\ Error
    /\ UNCHANGED <<tool, readerVars, column, freed_twice, exit>>

ColumnsAgree ==
    /\ At("columns") /\ column_count > 0
    /\ ToStep("next")
    /\ UNCHANGED <<writerVars, tool, readerVars, column, freed_twice, exit>>

\* No columns, no memory, or those of a later file are others.
ColumnsRefused ==
    /\ At("columns")
    /\ cut_short' = TRUE
    /\ Error
    /\ UNCHANGED <<writerVars, tool, inputs, reader, source, column, freed_twice, exit>>

------------------------------------------------------------------------------
(* cx_reader_cat *)

NextRow ==
    /\ At("next") /\ Len(source[1]) < MaxRows
    /\ column' = 1
    /\ ToStep("cell")
    /\ UNCHANGED <<writerVars, tool, readerVars, freed_twice, exit>>

\* The end of a file: its reader is freed, the variable still points to it.
EndOfInput ==
    /\ At("next")
    /\ reader' = "freed"
    /\ ToStep("open")
    /\ UNCHANGED <<writerVars, tool, inputs, source, cut_short, column, freed_twice, exit>>

\* Variant: cx_reader_error is not asked whether next has come to the end.
ReadFailsAsEnd ==
    /\ At("next")
    /\ cut_short' = TRUE
    /\ reader' = "freed"
    /\ ToStep("open")
    /\ UNCHANGED <<writerVars, tool, inputs, source, column, freed_twice, exit>>

\* next or a get fails.
ReadFails ==
    /\ At("next") \/ At("cell")
    /\ cut_short' = TRUE
    /\ Error
    /\ UNCHANGED <<writerVars, tool, inputs, reader, source, column, freed_twice, exit>>

\* get_null, and put_null or the get and the put of the type of the column.
PutCell(is_null) ==
    /\ At("cell")
    /\ LET cell == IF is_null THEN Null ELSE Len(source[column]) + 1 IN
       /\ source' = [source EXCEPT ![column] = Append(@, cell)]
       /\ Put(column, cell)
    /\ ToStep("put")
    /\ UNCHANGED <<tool, inputs, reader, cut_short, column, freed_twice, exit>>

\* The put has returned.
CellIsPut ==
    /\ At("put")
    /\ LET accepted == Len(given[column]) = Len(source[column])
       IN \/ /\ accepted /\ column < column_count
             /\ column' = column + 1
             /\ ToStep("cell")
          \/ /\ accepted /\ column = column_count
             /\ ToStep("next") /\ UNCHANGED column
          \/ ~accepted /\ Error /\ UNCHANGED column
    /\ UNCHANGED <<writerVars, tool, readerVars, freed_twice, exit>>

------------------------------------------------------------------------------
(* The end of main. *)

FinishOutput ==
    /\ At("open") /\ inputs > 0
    /\ Finish
    /\ ToStep("finish")
    /\ UNCHANGED <<tool, readerVars, column, freed_twice, exit>>

FinishReturned ==
    /\ At("finish")
    /\ \/ footer_written /\ ToStep("done") /\ exit' = 0
       \/ ~footer_written /\ Error /\ UNCHANGED exit
    /\ UNCHANGED <<writerVars, tool, readerVars, column, freed_twice>>

\* Under the label error, whatever the variable points to is freed.
CleanUp ==
    /\ At("error")
    /\ freed_twice' = (reader = "freed")
    /\ reader' = IF reader = "null" THEN "null" ELSE "freed"
    /\ ToStep("done") /\ exit' = 1
    /\ UNCHANGED <<writerVars, tool, inputs, source, cut_short, column>>

Exited == At("done") /\ UNCHANGED <<writerVars, catVars>>

CatNext ==
    \/ OpenInput \/ OpenFails \/ AddInputColumn \/ ColumnsAgree \/ ColumnsRefused
    \/ NextRow \/ EndOfInput \/ ReadFails
    \/ \E is_null \in BOOLEAN : PutCell(is_null)
    \/ CellIsPut
    \/ FinishOutput \/ FinishReturned \/ CleanUp \/ Exited

\* The steps of the writer inside a call.
InWriter == (InCall \/ (~tool /\ Call)) /\ UNCHANGED catVars

CatSpec == CatInit /\ [][CatNext \/ InWriter]_<<writerVars, catVars>>

------------------------------------------------------------------------------
(* Properties *)

\* Status 0 means that the output has every cell of every file, once, in order,
\* nulls included, and that no file was cut short, whatever failed on the way
\* in the readers and in the writer.
CopiesAreComplete ==
    exit = 0 => /\ footer_written /\ ~cut_short
                /\ \A i \in Columns : WrittenCells(i) = source[i]
                /\ \A k \in DOMAIN written : ~written[k].refused

\* Every reader is freed when the process ends, and once, unless it is finishing
\* the output that fails: then the last reader, which the loop has freed, is
\* freed again.
ReadersAreFreedOnce ==
    exit # None => /\ reader # "open"
                   /\ freed_twice => failed_at = "finish" /\ ~cut_short
==============================================================================
