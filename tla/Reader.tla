-------------------------------- MODULE Reader --------------------------------
(***************************************************************************)
(* A cx_reader and its caller (lib/reader.c): one call after the other of  *)
(* next, get, row_count and rewind, in any order.  A call is a step per    *)
(* round of its loops: opening a row group, a batch of it, going to the    *)
(* next row group.                                                         *)
(***************************************************************************)
EXTENDS RowCursor, Sequences

CONSTANT Files   \* the files: sequences of row groups

ASSUME ReaderAssumption == Files \subseteq Seq(RowGroups)

VARIABLES
    file,              \* the row groups, fixed while the reader is open
    match_all_rows,    \* opened with cx_reader_new, without a predicate
    reader_position,   \* reader->position
    error,             \* reader->error
    call,              \* the call in progress, or "idle"
    count,             \* the local of cx_reader_row_count
    answer,            \* what the last next, row_count or rewind returned
    value,             \* what the last get read: a column and a row, or None
    passed             \* rows handed out since the last rewind, or counted

readerVars == <<reader_position, error, call, count, answer, value, passed>>
vars == <<cursorVars, file, match_all_rows, readerVars>>

Rows(g) == { <<g, r>> : r \in 0..(file[g + 1].rows - 1) }
MatchingRows == UNION { { <<g, r>> : r \in file[g + 1].matches } :
                        g \in 0..(Len(file) - 1) }
TotalRowCount == Cardinality(UNION { Rows(g) : g \in 0..(Len(file) - 1) })

ReaderValid == reader_position < Len(file)
Loaded == row_group # None

Init ==
    /\ file \in Files
    /\ match_all_rows \in BOOLEAN
    /\ match_all_rows => \A i \in DOMAIN file :
           file[i].rows > 0 => file[i].verdict = "ALL"
    /\ reader_position = 0 /\ error = FALSE
    /\ call = "idle" /\ count = 0 /\ answer = <<"none">> /\ value = None
    /\ passed = {}
    /\ row_group = None
    /\ row_mask = {} /\ position = Batch
    /\ group_position = 0 /\ initialized = FALSE
    /\ read = [c \in Columns |-> 0] /\ first = [c \in Columns |-> 0]
    /\ cursor_error = FALSE

------------------------------------------------------------------------------
(* What the caller may do between calls. *)

Begin(c) == /\ call = "idle"
            /\ call' = c
            /\ value' = None

\* A call returns what it returns; "error" stands for a false, or a zero, that
\* leaves cx_reader_error true.
Return(a) == call' = "idle" /\ answer' = a

Fixed == UNCHANGED <<file, match_all_rows>>

NextCall ==
    /\ \/ /\ ~error
          /\ Begin("next")
          /\ UNCHANGED answer
       \/ /\ error
          /\ Begin("idle")
          /\ answer' = <<"error">>
    /\ UNCHANGED <<cursorVars, reader_position, error, count, passed>> /\ Fixed

Rewound == /\ CursorFree
           /\ reader_position' = 0 /\ error' = FALSE
           /\ passed' = {} /\ answer' = <<"none">>

RewindCall == Begin("idle") /\ Rewound /\ UNCHANGED count /\ Fixed

RowCountCall ==
    \/ /\ match_all_rows \/ TotalRowCount = 0
       /\ Begin("idle")
       /\ answer' = <<"count", TotalRowCount>>
       /\ UNCHANGED <<cursorVars, reader_position, error, count, passed>> /\ Fixed
    \/ /\ ~match_all_rows /\ TotalRowCount > 0
       /\ Begin("count")
       /\ Rewound
       /\ count' = 0
       /\ Fixed

\* cx_reader_get_<type>, which the caller may use when next has returned true
\* (row.c asserts it), or without a cursor, in vain.
Get(c) ==
    /\ call = "idle"
    /\ Loaded => row_mask # {}
    /\ \/ /\ Loaded
          /\ GetValue(c, value')
       \/ /\ value' = None   \* no cursor, or the column cannot be read
          /\ UNCHANGED <<read, first>>
    /\ UNCHANGED <<row_group, group_position, initialized, row_mask, position,
                   cursor_error, reader_position, error, call, count, answer,
                   passed>>
    /\ Fixed

------------------------------------------------------------------------------
(* The steps of a call in progress. *)

InLoop == call # "idle" /\ ReaderValid

\* cx_reader_load_cursor.
LoadCursor ==
    /\ InLoop /\ ~Loaded
    /\ \/ /\ CursorNew(file[reader_position + 1])
          /\ UNCHANGED <<error, call, answer>>
       \/ /\ error' = TRUE
          /\ Return(<<"error">>)
          /\ UNCHANGED cursorVars
    /\ UNCHANGED <<reader_position, count, value, passed>> /\ Fixed

\* next stops at row p of the batch that begins at row "at".
Yield(at, p) == LET x == <<reader_position, at + p>> IN
                /\ position' = p
                /\ Return(<<"row", x>>)
                /\ passed' = passed \cup {x}

\* cx_row_cursor_next, in the batch it is in.
StepInBatch ==
    /\ InLoop /\ call = "next" /\ Loaded /\ Ahead # {}
    /\ Yield(group_position, Min(Ahead))
    /\ UNCHANGED <<row_group, groupCursorVars, row_mask, cursor_error,
                   reader_position, error, count, value>> /\ Fixed

\* cx_row_cursor_next, in the next batch.
StepToBatch ==
    /\ InLoop /\ call = "next" /\ Loaded /\ Ahead = {}
    /\ \E mask \in SUBSET (0..(Batch - 1)) :
          /\ LoadRowMask(mask)
          /\ row_mask' = mask
          /\ \/ mask # {} /\ Yield(GroupPositionNext, Min(mask))
             \/ mask = {} /\ UNCHANGED <<position, call, answer, passed>>
    /\ UNCHANGED <<row_group, reader_position, error, count, value>> /\ Fixed

\* cx_row_cursor_count, by batches or by what the indexes say.
CountBatch ==
    /\ InLoop /\ call = "count" /\ Loaded /\ row_group.verdict = "UNKNOWN"
    /\ \E mask \in SUBSET (0..(Batch - 1)) :
          /\ LoadRowMask(mask)
          /\ count' = count + Cardinality(mask)
    /\ UNCHANGED <<row_group, row_mask, position, reader_position, error, call,
                   answer, value, passed>> /\ Fixed

Advance == CursorFree /\ reader_position' = reader_position + 1

CountByIndex ==
    /\ InLoop /\ call = "count" /\ Loaded /\ row_group.verdict # "UNKNOWN"
    /\ count' = count + (IF row_group.verdict = "ALL" THEN row_group.rows ELSE 0)
    /\ Advance
    /\ UNCHANGED <<error, call, answer, value, passed>> /\ Fixed

\* Variant: the loop comes round without going to the next row group.
NextGroupStuck ==
    /\ InLoop /\ Loaded /\ GroupExhausted /\ ~cursor_error
    /\ UNCHANGED <<cursorVars, readerVars>> /\ Fixed

\* The row cursor is done with its row group, or could not read it.
NextGroup ==
    /\ InLoop /\ Loaded /\ GroupExhausted /\ ~cursor_error
    /\ Advance
    /\ UNCHANGED <<error, call, count, answer, value, passed>> /\ Fixed

\* Variant: a batch that cannot be read is taken for the end of the row group.
GiveUpAsEnd ==
    /\ InLoop /\ Loaded /\ cursor_error
    /\ Advance
    /\ UNCHANGED <<error, call, count, answer, value, passed>> /\ Fixed

GiveUp ==
    /\ InLoop /\ Loaded /\ cursor_error
    /\ error' = TRUE
    /\ Return(<<"error">>)
    /\ UNCHANGED <<cursorVars, reader_position, count, value, passed>> /\ Fixed

\* No row group is left.
Finish ==
    /\ call # "idle" /\ ~ReaderValid
    /\ \/ call = "next" /\ Return(<<"end">>) /\ UNCHANGED passed
       \/ /\ call = "count" /\ Return(<<"count", count>>)
          /\ passed' = MatchingRows
    /\ UNCHANGED <<cursorVars, reader_position, error, count, value>> /\ Fixed

Step == \/ LoadCursor \/ StepInBatch \/ StepToBatch
        \/ CountBatch \/ CountByIndex
        \/ NextGroup \/ GiveUp \/ Finish

Next == \/ NextCall \/ RewindCall \/ RowCountCall
        \/ \E c \in Columns : Get(c)
        \/ Step

Spec == Init /\ [][Next]_vars

\* The thread that is in a call goes on.
FairSpec == Spec /\ WF_vars(Step)

------------------------------------------------------------------------------
(* Properties *)

\* Every variable keeps its type; a batch lies inside the row group and begins
\* at a multiple of the batch size, which the cursor of bits asserts when it
\* skips (column.c:305).
TypeOK ==
    /\ row_group \in RowGroups \cup {None}
    /\ group_position \in Nat /\ initialized \in BOOLEAN
    /\ \A c \in Columns : /\ first[c] <= read[c] /\ first[c] % Batch = 0
                          /\ Loaded => read[c] <= row_group.rows
    /\ row_mask \subseteq 0..(Batch - 1) /\ position \in 0..Batch
    /\ reader_position \in 0..Len(file)
    /\ error \in BOOLEAN /\ cursor_error \in BOOLEAN
    /\ call \in {"idle", "next", "count"} /\ count \in Nat
    /\ passed \subseteq MatchingRows

\* A value read from a column is the one of the row that next stopped at,
\* whichever columns the predicate and the caller read before, in this batch or
\* only in an earlier one, and it lies in what the batch holds.
GetReadsTheRow ==
    value # None => LET c == value[1] row == value[2] IN
        /\ row = group_position + position
        /\ row < read[c]

\* The reader hands out the matching rows once each and in order, says "end"
\* only when it has, sticks to an error until it is rewound, and counts as many
\* rows as next finds.
Scan == INSTANCE RowScan WITH rows <- MatchingRows, failed <- error
ImplementsRowScan == Scan!Spec

\* Every call returns, whatever the row groups hold and whatever fails.
CallsReturn == (call # "idle") ~> (call = "idle")
==============================================================================
