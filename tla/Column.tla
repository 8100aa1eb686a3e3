-------------------------------- MODULE Column --------------------------------
(***************************************************************************)
(* A column and the cursor that reads it (lib/column.c).                   *)
(*                                                                         *)
(* The buffer is a sequence of slots: a word of up to Word bits, as the    *)
(* set of those that are one; a number of a fixed width; or a string,      *)
(* which is known by its length.  Sizes are counted in units: words and    *)
(* numbers take one, a string takes its length and one more for its end.   *)
(***************************************************************************)
EXTENDS Integers, Sequences, FiniteSetsExt, Functions

CONSTANTS
    Word,          \* the bits of a word and CX_BATCH_SIZE, both 64
    InitialSize,   \* cx_column_initial_size
    OverAlloc,     \* CX_COLUMN_OVER_ALLOC
    Wrap,          \* where size_t wraps round, 2^64
    None           \* no column, no cursor

ASSUME ColumnAssumption ==
    /\ Word \in Nat \ {0} /\ InitialSize \in Nat \ {0}
    /\ OverAlloc \in Nat /\ Wrap \in Nat \ {0}

VARIABLES
    type,       \* "bit", "fixed" (i32, i64, flt, dbl) or "str"
    stored,     \* the struct cx_column, with its slots, or None
    position,   \* of the cursor: slots it has gone past, or None
    passed,     \* values it has answered since it was made or rewound
    batch,      \* its last batch
    late        \* it was asked for more when it was at the end

cursorVars == <<position, passed, batch, late>>
columnVars == <<type, stored, cursorVars>>

SlotSize(slot) == IF type = "str" THEN slot + 1 ELSE 1
PerSlot == IF type = "bit" THEN Word ELSE 1

NewColumn == [slots |-> <<>>, count |-> 0, offset |-> 0,
              size |-> InitialSize + OverAlloc, mmapped |-> FALSE]

NewMmapped(slots, size, count) ==
    [slots |-> slots, count |-> count, offset |-> size, size |-> size,
     mmapped |-> TRUE]

NewCompressed(slots, size, count) ==
    [slots |-> slots, count |-> count, offset |-> size,
     size |-> size + OverAlloc, mmapped |-> FALSE]

------------------------------------------------------------------------------
(* Putting values.  When memory is short a put returns false and nothing has *)
(* changed. *)

\* cx_column_resize doubles the size until n more units and the spare fit.
Resized(n) ==
    LET required == stored.offset + n + OverAlloc
        doubled[k \in 0..required] ==
            IF k = 0 THEN stored.size ELSE 2 * doubled[k - 1]
    IN Min({ s \in Range(doubled) : s >= required })

\* Variant: what is in the buffer already is forgotten.
MustResizeForOne(n) == n > stored.size

MustResize(n) == stored.offset + n > stored.size

\* cx_column_put
PutSlot(slot) ==
    LET n == SlotSize(slot) IN
    stored' = [stored EXCEPT !.slots = Append(@, slot),
                             !.count = @ + 1,
                             !.offset = @ + n,
                             !.size = IF MustResize(n) THEN Resized(n) ELSE @]

\* Variant: the bit replaces the ones before it.
OrBitAlone(word, v) == IF v = 1 THEN {stored.count % Word} ELSE word

\* The code shifts by the count of the whole column: from the second word on
\* that is more than a word has bits, where the machine takes the remainder.
OrBit(word, v) == IF v = 1 THEN word \cup {stored.count % Word} ELSE word

PutBit(v) ==
    IF stored.count % Word = 0
    THEN PutSlot(IF v = 1 THEN {0} ELSE {})
    ELSE stored' = [stored EXCEPT !.slots[Len(stored.slots)] = OrBit(@, v),
                                  !.count = @ + 1]

ColumnPut(v) == /\ ~stored.mmapped
                /\ IF type = "bit" THEN PutBit(v) ELSE PutSlot(v)

------------------------------------------------------------------------------
(* The cursor. *)

CursorRewind == /\ position' = 0 /\ passed' = 0
                /\ batch' = None /\ late' = FALSE

CursorFree == /\ position' = None /\ passed' = 0
              /\ batch' = None /\ late' = FALSE

CursorValid == position < Len(stored.slots)

\* The slots that n values take, as far as the column goes.
SkippedSlots(n) == Min({n \div PerSlot, Len(stored.slots) - position})

\* Variant: the last word counts as full.
ValuesInFull(slots) == slots * PerSlot

\* Variant: whenever the last word is not full, it is taken off.
ValuesInAnywhere(slots) ==
    LET trailing == IF type = "bit" THEN stored.count % Word ELSE 0
    IN IF trailing > 0 THEN (slots * PerSlot - (Word - trailing)) % Wrap
       ELSE slots * PerSlot

\* What skip answers after so many slots: a cursor of bits takes off what the
\* last word has not, whether or not it has just gone past that word.
ValuesIn(slots) ==
    LET trailing == IF type = "bit" THEN stored.count % Word ELSE 0
    IN IF trailing > 0 /\ position + slots = Len(stored.slots)
       THEN (slots * PerSlot - (Word - trailing)) % Wrap
       ELSE slots * PerSlot

CursorAdvance(slots) ==
    /\ position' = position + slots
    /\ passed' = (passed + ValuesIn(slots)) % Wrap
    /\ late' = (late \/ ~CursorValid)

\* Variant: as far as the caller wants, past the end.
CursorSkipAll(n) == CursorAdvance(n \div PerSlot) /\ batch' = None

\* cx_column_cursor_skip_<type>; for bits n is a multiple of Word.
CursorSkip(n) == CursorAdvance(SkippedSlots(n)) /\ batch' = None

\* cx_column_cursor_next_batch_<type>
CursorNextBatch ==
    LET slots == SkippedSlots(Word) IN
    /\ CursorAdvance(slots)
    /\ batch' = [first |-> position, available |-> ValuesIn(slots),
                 slots |-> SubSeq(stored.slots, position + 1, position + slots)]

\* What the caller reads at place k, from zero, of the batch.
BatchValue(k) ==
    IF type = "bit" THEN (IF k \in batch.slots[1] THEN 1 ELSE 0)
    ELSE batch.slots[k + 1]
==============================================================================
