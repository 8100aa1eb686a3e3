---------------------------- MODULE IndexedColumn ----------------------------
(***************************************************************************)
(* A column from its first put to its last read: it is filled, indexed by  *)
(* cx_index_new over its cursor when its row group is flushed, written,    *)
(* freed, and opened again by the reader's row group when it is wanted,    *)
(* from the mapped file or decompressed (lib/row_group.c).                 *)
(*                                                                         *)
(* Index has the values put and the index; Column has the buffer they are  *)
(* put in and the cursor that the loops of Index go through.               *)
(***************************************************************************)
EXTENDS Index, Column, Totals

CONSTANT Types   \* of columns

ValuesOf(t) == CASE t = "bit"   -> Values \cap {0, 1}
                 [] t = "fixed" -> Values
                 [] t = "str"   -> Values \cap Nat

Slots(t) == IF t = "bit" THEN SUBSET (0..(Word - 1)) ELSE ValuesOf(t)

ASSUME IndexedColumnAssumption ==
    /\ BatchSize = Word
    /\ Types \subseteq {"bit", "fixed", "str"}
    /\ Wrap > MaxRows + Word
    /\ \A t \in Types :          \* None is not a column in the file
           None \notin [slots : Seq(Slots(t)), compressed : BOOLEAN, size : Nat]

VARIABLE page   \* the column in the file and its decompressed size, or None

indexVars == vars
indexedVars == <<vars, columnVars, page>>

IndexedInit ==
    /\ Init
    /\ type \in Types
    /\ stored = NewColumn
    /\ position = None /\ passed = 0 /\ batch = None /\ late = FALSE
    /\ page = None

------------------------------------------------------------------------------
(* The writer's side. *)

PutValue(v) == /\ Put(v)
               /\ ColumnPut(v)
               /\ UNCHANGED <<type, cursorVars, page>>

\* cx_index_new goes through the column with a cursor of its own.
StartIndex == /\ New
              /\ CursorRewind
              /\ UNCHANGED <<type, stored, page>>

NextBatchOfCursor ==
    /\ pc = "scan" /\ scanned = count /\ CursorValid
    /\ CursorNextBatch
    /\ count' = count + batch'.available
    /\ UNCHANGED <<column, pc, scanned, min, max, type, stored, page>>

UpdateFromBatch ==
    /\ pc = "scan" /\ scanned < count
    /\ Take(BatchValue(scanned - batch.first * PerSlot))
    /\ scanned' = scanned + 1
    /\ UNCHANGED <<column, pc, count, columnVars, page>>

FinishIndex ==
    /\ pc = "scan" /\ scanned = count /\ ~CursorValid
    /\ pc' = "done"
    /\ CursorFree
    /\ UNCHANGED <<column, scanned, count, min, max, type, stored, page>>

\* The flush fails, in compressing this column or anywhere else.
FlushFails == /\ Discard
              /\ page = None
              /\ UNCHANGED <<columnVars, page>>

\* cx_row_group_writer_put_column and the end of the flush, which frees the
\* column: compression is asked for or not, and it may not pay.
Write(compressed) ==
    /\ pc = "done" /\ page = None
    /\ compressed => stored.offset > 0
    /\ page' = [slots |-> stored.slots, compressed |-> compressed,
                size |-> stored.offset]
    /\ stored' = None
    /\ UNCHANGED <<indexVars, type, cursorVars>>

------------------------------------------------------------------------------
(* The reader's side. *)

\* cx_row_group_lazy_column_init.  When it fails, for want of memory or in
\* decompressing, there is no column and the next use tries again.
LazyColumnInit ==
    /\ page # None /\ stored = None
    /\ stored' = IF page.compressed
                 THEN NewCompressed(page.slots, page.size, count)
                 ELSE NewMmapped(page.slots, page.size, count)
    /\ UNCHANGED <<indexVars, type, cursorVars, page>>

\* The row group is left, and opened again after a rewind of the reader.
FreeRowGroup == /\ page # None /\ stored # None
                /\ stored' = None
                /\ CursorFree
                /\ UNCHANGED <<indexVars, type, page>>

Opened == page # None /\ stored # None

CursorNew == /\ Opened /\ position = None
             /\ CursorRewind
             /\ UNCHANGED <<indexVars, type, stored, page>>

\* The row group cursor skips whole batches.
Skip(batches) == /\ Opened /\ position # None
                 /\ CursorSkip(batches * Word)
                 /\ UNCHANGED <<indexVars, type, stored, page>>

ReadBatch == /\ Opened /\ position # None
             /\ CursorNextBatch
             /\ UNCHANGED <<indexVars, type, stored, page>>

IndexedNext ==
    \/ \E v \in ValuesOf(type) : PutValue(v)
    \/ StartIndex \/ NextBatchOfCursor \/ UpdateFromBatch \/ FinishIndex
    \/ FlushFails
    \/ \E compressed \in BOOLEAN : Write(compressed)
    \/ LazyColumnInit \/ FreeRowGroup \/ CursorNew
    \/ \E batches \in 0..MaxRows : Skip(batches)
    \/ ReadBatch

IndexedSpec == IndexedInit /\ [][IndexedNext]_indexedVars

------------------------------------------------------------------------------
(* Properties *)

\* Every variable of the column keeps its type; the cursor never goes past the
\* end, which column.c:297 asserts.
ColumnTypeOK ==
    /\ type \in Types
    /\ stored # None =>
           /\ stored.count \in Nat /\ stored.offset \in Nat /\ stored.size \in Nat
           /\ stored.mmapped \in BOOLEAN
           /\ position # None => position \in 0..Len(stored.slots)
    /\ passed \in 0..(Wrap - 1) /\ late \in BOOLEAN

\* However a column is filled, and refilled after a failed flush, its buffer has
\* room for what it says is in it.
ValuesLieInTheBuffer ==
    stored # None =>
        /\ stored.offset <= stored.size
        /\ stored.offset =
               Total([i \in DOMAIN stored.slots |-> SlotSize(stored.slots[i])])

\* A batch holds the values that were put at its place, in order, whether the
\* column is the writer's, mapped or decompressed, whatever was skipped before;
\* and a word has no bit beyond them, on which matching a whole word relies.
BatchIsWhatWasPut ==
    batch # None /\ batch.first < Len(stored.slots) =>
        LET from == batch.first * PerSlot
            values == SubSeq(column, from + 1, Min({from + Word, Len(column)}))
        IN /\ batch.available = Len(values)
           /\ batch.slots =
                  IF type = "bit"
                  THEN << { k \in 0..(Len(values) - 1) : values[k + 1] = 1 } >>
                  ELSE values

\* What skips and batches answer adds up to where the cursor is, which the row
\* group cursor takes its own position from.  A cursor of bits that is asked
\* for more at its end, in a word that is not full, is the exception.
CursorCountsWhatItPasses ==
    position # None =>
        \/ passed = Min({position * PerSlot, Len(column)})
        \/ late /\ type = "bit" /\ Len(column) % Word # 0

\* Building the index over the cursor is building it over the values put:
\* what is proved of Index holds of the column as it is stored.
ImplementsIndex == Spec

\* column.c:10-11: "when SSE4.2 optimizations are enabled, we make sure there
\* are at least 16 initialized bytes after each column value".
ValuesArePadded ==
    stored # None /\ ~stored.mmapped => stored.size - stored.offset >= OverAlloc
==============================================================================
