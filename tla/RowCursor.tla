------------------------------ MODULE RowCursor ------------------------------
(***************************************************************************)
(* A row cursor (lib/row.c) over the cursor of a row group                 *)
(* (lib/row_group.c), which reads the columns in batches, each column only *)
(* when a batch of it is asked for: a column that was not wanted for some  *)
(* batches skips over them when it is wanted again.                        *)
(*                                                                         *)
(* A value is known by its row.  Which rows match, and what the indexes    *)
(* say of the row group, are inputs here: modules Predicate and Index are  *)
(* about them.  Null bits are one more column.                             *)
(***************************************************************************)
EXTENDS Integers, FiniteSets, FiniteSetsExt

CONSTANTS Batch,     \* CX_BATCH_SIZE, 64: rows in a batch, bits in a mask
          Columns,   \* columns of values and of nulls
          None       \* no row group

ASSUME RowCursorAssumption == Batch \in Nat \ {0} /\ IsFiniteSet(Columns)

VARIABLES
    row_group,        \* its rows, the rows that match, the indexes' verdict
    group_position,   \* position of the row group cursor: first row of a batch
    initialized,      \* of the row group cursor
    read,             \* per column: values its cursor has gone over
    first,            \* per column: the row its current batch begins with
    row_mask,         \* the rows of the batch that match and are not yet counted
    position,         \* of the row cursor, in the batch
    cursor_error      \* cx_row_cursor_error

groupCursorVars == <<group_position, initialized, read, first>>
cursorVars == <<row_group, groupCursorVars, row_mask, position, cursor_error>>

\* The row groups there can be, given what Index and Predicate establish: a
\* certain verdict is right, and an empty row group matches nothing.
RowGroups == { g \in [rows : Nat, matches : SUBSET Nat,
                      verdict : {"NONE", "UNKNOWN", "ALL"}] :
                 /\ g.matches \subseteq 0..(g.rows - 1)
                 /\ g.verdict = "NONE" => g.matches = {}
                 /\ g.verdict = "ALL" => g.matches = 0..(g.rows - 1)
                 /\ g.rows = 0 => g.verdict = "NONE" }

CursorRewind == /\ row_mask' = {} /\ position' = Batch
                /\ group_position' = 0 /\ initialized' = FALSE
                /\ read' = [c \in Columns |-> 0]
                /\ first' = [c \in Columns |-> 0]
                /\ cursor_error' = FALSE

CursorNew(g) == row_group' = g /\ CursorRewind
CursorFree   == row_group' = None /\ CursorRewind

------------------------------------------------------------------------------
(* The row group cursor. *)

GroupPositionNext == IF initialized THEN group_position + Batch ELSE 0

GroupCursorNext == initialized' = TRUE /\ group_position' = GroupPositionNext

\* The row group cursor has run out of batches.
GroupExhausted == initialized /\ group_position >= row_group.rows

\* Variant: the last batch is not cut at the end of the row group.
BatchCountUncut(at) == Batch

BatchCount(at) == Min({row_group.rows - at, Batch})

\* Variant: a column that stands exactly at the batch is left alone.
StaleIfBehind(c, at) == read[c] < at

\* The batch of columns cs at row "at": those whose cursor is not past it yet
\* skip to it and read a batch, as far as the column goes.
Stale(c, at) == read[c] <= at
SkipTo(c, at) == read[c] + Min({row_group.rows - read[c], at - read[c]})
FetchBatch(cs, at) ==
    /\ first' = [c \in Columns |-> IF c \in cs /\ Stale(c, at)
                                   THEN SkipTo(c, at) ELSE first[c]]
    /\ read' = [c \in Columns |-> IF c \in cs /\ Stale(c, at)
                                  THEN first'[c] + BatchCount(first'[c])
                                  ELSE read[c]]

------------------------------------------------------------------------------
(* The row cursor. *)

\* Rows of the mask behind the current one.
Ahead == { p \in row_mask : p > position }

\* What cx_index_match_rows makes of the batch at row "at".
BatchMatches(at) == { p \in 0..(BatchCount(at) - 1) : at + p \in row_group.matches }

\* One round of the loop of cx_row_cursor_load_row_mask: the next batch gives
\* mask, or cannot be read, or is not there.  Matching reads whichever columns
\* the predicate comes to; if the verdict is ALL it reads none.
LoadRowMask(mask) ==
    /\ ~GroupExhausted /\ ~cursor_error
    /\ GroupCursorNext
    /\ LET at == GroupPositionNext IN
       \/ /\ at >= row_group.rows
          /\ mask = {}
          /\ UNCHANGED <<read, first, cursor_error>>
       \/ /\ at < row_group.rows /\ row_group.verdict = "ALL"
          /\ mask = 0..(BatchCount(at) - 1)
          /\ UNCHANGED <<read, first, cursor_error>>
       \/ /\ at < row_group.rows /\ row_group.verdict # "ALL"
          /\ \E cs \in SUBSET Columns : FetchBatch(cs, at)
          /\ \/ mask = BatchMatches(at) /\ UNCHANGED cursor_error
             \/ mask = {} /\ cursor_error' = TRUE

\* cx_row_cursor_get_<type>: a value of the batch the cursor is in.
GetValue(c, v) == /\ FetchBatch({c}, group_position)
                  /\ v = <<c, first'[c] + position>>
==============================================================================
