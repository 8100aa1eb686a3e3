----------------------------- MODULE ReaderProofs -----------------------------
(***************************************************************************)
(* Proofs about Reader, for any batch size, number of columns and files.   *)
(* Each column has a cursor that runs at its own pace: it is never at the  *)
(* wrong batch when a value is read.  The mask of a batch holds its        *)
(* matches: the rows handed out, or counted, are always those before the   *)
(* place the reader has come to, and so Reader implements RowScan.         *)
(***************************************************************************)
EXTENDS Reader, TLAPS, WellFoundedInduction, FiniteSetTheorems, FunctionTheorems

\* Variables keep their types, as far as the rest needs them.
CursorTypes ==
    /\ row_group = None \/ row_group \in RowGroups
    /\ group_position \in Nat /\ initialized \in BOOLEAN
    /\ read \in [Columns -> Nat] /\ first \in [Columns -> Nat]
    /\ row_mask \subseteq Nat /\ position \in Nat /\ cursor_error \in BOOLEAN
    /\ file \in Files /\ reader_position \in Nat

\* A column that is past the start of the current batch holds that batch, all
\* of it; every other column will be past it after its next fetch.
AtBatch(c, at) == read[c] > at => /\ first[c] = at
                                  /\ read[c] = at + BatchCount(at)

BatchInv == \A c \in Columns :
    /\ read[c] <= group_position + Batch
    /\ ~initialized => read[c] = 0
    /\ Loaded => AtBatch(c, group_position)

\* A mask that is not empty has rows of the current batch only, and between
\* calls the row cursor stands on one of them.
MaskInv == row_mask # {} =>
    /\ Loaded /\ initialized /\ group_position < row_group.rows
    /\ \A p \in row_mask : p < BatchCount(group_position)
    /\ call = "idle" => position \in row_mask

\* Where a call can end without a row, the mask is empty.
CallInv == /\ call = "count" \/ cursor_error => row_mask = {}
           /\ Loaded => ReaderValid

ValueInv == value # None =>
    /\ call = "idle" /\ row_mask # {}
    /\ \E c \in Columns : /\ value = <<c, group_position + position>>
                          /\ read[c] > group_position

Inv == CursorTypes /\ BatchInv /\ MaskInv /\ CallInv /\ ValueInv

------------------------------------------------------------------------------
(* The smaller of two numbers, and what follows for a batch. *)

\* The smaller of two numbers is one of them.
LEMMA MinOfTwo ==
    ASSUME NEW a \in Int, NEW b \in Int
    PROVE  Min({a, b}) = IF a <= b THEN a ELSE b
BY DEF Min

\* A batch that begins in the row group has a row, and ends in it.
LEMMA BatchCountBounds ==
    ASSUME NEW at \in Nat, row_group \in RowGroups, at < row_group.rows
    PROVE  /\ BatchCount(at) \in Nat
           /\ BatchCount(at) > 0 /\ BatchCount(at) <= Batch
           /\ at + BatchCount(at) <= row_group.rows
<1>1. row_group.rows \in Nat BY DEF RowGroups
<1>2. BatchCount(at) = IF row_group.rows - at <= Batch
                       THEN row_group.rows - at ELSE Batch
  BY <1>1, MinOfTwo, RowCursorAssumption DEF BatchCount
<1>3. QED BY <1>1, <1>2, RowCursorAssumption

\* A column that is behind, by whatever it was not wanted for, skips to the
\* batch.
LEMMA SkipReaches ==
    ASSUME NEW at \in Nat, NEW c \in Columns, row_group \in RowGroups,
           at < row_group.rows, read \in [Columns -> Nat], Stale(c, at)
    PROVE  SkipTo(c, at) = at
<1>1. row_group.rows \in Nat /\ read[c] \in Nat /\ read[c] <= at
  BY DEF RowGroups, Stale
<1>2. Min({row_group.rows - read[c], at - read[c]}) = at - read[c]
  BY <1>1, MinOfTwo
<1>3. QED BY <1>1, <1>2 DEF SkipTo

\* After a fetch every column asked for holds the batch, and no column that
\* held it, or was left behind, has moved.
LEMMA FetchReaches ==
    ASSUME NEW at \in Nat, NEW cs \in SUBSET Columns,
           row_group \in RowGroups, at < row_group.rows, CursorTypes,
           \A c \in Columns : read[c] <= at + Batch /\ AtBatch(c, at),
           FetchBatch(cs, at)
    PROVE  /\ read' \in [Columns -> Nat] /\ first' \in [Columns -> Nat]
           /\ \A c \in Columns :
                /\ read'[c] <= at + Batch
                /\ read'[c] > at => /\ first'[c] = at
                                    /\ read'[c] = at + BatchCount(at)
                /\ c \in cs => read'[c] > at
                /\ read[c] > at => read'[c] > at
                /\ read'[c] <= at => read'[c] = read[c] /\ first'[c] = first[c]
<1>1. /\ BatchCount(at) \in Nat
      /\ BatchCount(at) > 0 /\ BatchCount(at) <= Batch
  BY BatchCountBounds
<1>2. /\ read \in [Columns -> Nat] /\ first \in [Columns -> Nat]
      /\ first' = [c \in Columns |-> IF c \in cs /\ Stale(c, at)
                                     THEN SkipTo(c, at) ELSE first[c]]
      /\ read' = [c \in Columns |-> IF c \in cs /\ Stale(c, at)
                                    THEN first'[c] + BatchCount(first'[c])
                                    ELSE read[c]]
  BY DEF FetchBatch, CursorTypes
<1>3. \A c \in Columns : Stale(c, at) => SkipTo(c, at) = at
  BY <1>2, SkipReaches
<1>4. \A c \in Columns :
        /\ c \in cs /\ Stale(c, at) =>
               first'[c] = at /\ read'[c] = at + BatchCount(at)
        /\ ~(c \in cs /\ Stale(c, at)) =>
               first'[c] = first[c] /\ read'[c] = read[c]
  BY <1>2, <1>3
<1>5. \A c \in Columns : first'[c] \in Nat /\ read'[c] \in Nat
  BY <1>1, <1>2, <1>4
<1>6. /\ read' \in [Columns -> Nat] /\ first' \in [Columns -> Nat]
  BY <1>2, <1>5
<1>7. \A c \in Columns :
        /\ read'[c] <= at + Batch
        /\ read'[c] > at => first'[c] = at /\ read'[c] = at + BatchCount(at)
        /\ c \in cs => read'[c] > at
        /\ read[c] > at => read'[c] > at
        /\ read'[c] <= at => read'[c] = read[c] /\ first'[c] = first[c]
  BY <1>1, <1>2, <1>4, <1>5, RowCursorAssumption DEF Stale, AtBatch
<1>8. QED BY <1>6, <1>7

------------------------------------------------------------------------------
(* What the two ways of loading a batch have in common. *)

\* What a fresh or freed cursor looks like satisfies all that concerns it.
LEMMA RewindIsSafe ==
    ASSUME CursorRewind, row_group' = None \/ row_group' \in RowGroups,
           file' = file, file \in Files, reader_position' \in Nat
    PROVE  CursorTypes' /\ BatchInv' /\ MaskInv'
<1>1. /\ row_mask' = {} /\ position' = Batch
      /\ group_position' = 0 /\ initialized' = FALSE
      /\ read' = [c \in Columns |-> 0] /\ first' = [c \in Columns |-> 0]
      /\ cursor_error' = FALSE
  BY DEF CursorRewind
<1>2. CursorTypes' BY <1>1, RowCursorAssumption DEF CursorTypes
<1>3. BatchInv' BY <1>1, RowCursorAssumption DEF BatchInv, AtBatch
<1>4. MaskInv' BY <1>1 DEF MaskInv
<1>5. QED BY <1>2, <1>3, <1>4

\* The next batch: the columns keep in step, and the mask it gives lies in it.
LEMMA LoadIsSafe ==
    ASSUME Inv, Loaded, NEW mask \in SUBSET (0..(Batch - 1)),
           LoadRowMask(mask), row_group' = row_group
    PROVE  /\ group_position' = GroupPositionNext /\ group_position' \in Nat
           /\ initialized' = TRUE
           /\ read' \in [Columns -> Nat] /\ first' \in [Columns -> Nat]
           /\ BatchInv'
           /\ mask # {} => /\ group_position' < row_group.rows
                           /\ \A p \in mask : p < BatchCount(group_position')
                           /\ cursor_error' = FALSE
           /\ cursor_error' \in BOOLEAN
<1> DEFINE at == GroupPositionNext
<1>1. /\ row_group \in RowGroups /\ row_group.rows \in Nat
      /\ CursorTypes
  BY DEF Inv, CursorTypes, Loaded, RowGroups
<1>2. /\ group_position' = at /\ at \in Nat /\ initialized' = TRUE
  BY <1>1, RowCursorAssumption
     DEF LoadRowMask, GroupCursorNext, GroupPositionNext, CursorTypes
<1>3. \A c \in Columns : read[c] <= at
  BY <1>1, <1>2, RowCursorAssumption
     DEF Inv, BatchInv, GroupPositionNext, CursorTypes
<1>4. \A c \in Columns : read[c] <= at + Batch /\ AtBatch(c, at)
  BY <1>1, <1>2, <1>3, RowCursorAssumption DEF AtBatch, CursorTypes
<1>5. cursor_error = FALSE BY <1>1 DEF LoadRowMask, CursorTypes
<1>6. ASSUME read' \in [Columns -> Nat],
             \A c \in Columns :
                /\ read'[c] <= at + Batch
                /\ read'[c] > at => /\ first'[c] = at
                                    /\ read'[c] = at + BatchCount(at)
      PROVE  BatchInv'
  BY <1>2, <1>6 DEF BatchInv, AtBatch, BatchCount
<1>7. CASE at >= row_group.rows
  <2>1. mask = {} /\ UNCHANGED <<read, first, cursor_error>>
    BY <1>1, <1>2, <1>7 DEF LoadRowMask
  <2>2. BatchInv' BY <1>1, <1>4, <1>6, <2>1 DEF AtBatch, CursorTypes
  <2>3. QED BY <1>1, <1>2, <2>1, <2>2 DEF CursorTypes
<1>8. CASE at < row_group.rows /\ row_group.verdict = "ALL"
  <2>1. /\ mask = 0..(BatchCount(at) - 1)
        /\ UNCHANGED <<read, first, cursor_error>>
    BY <1>1, <1>2, <1>8 DEF LoadRowMask
  <2>2. BatchCount(at) \in Nat BY <1>1, <1>2, <1>8, BatchCountBounds
  <2>3. \A p \in mask : p < BatchCount(at) BY <2>1, <2>2
  <2>4. BatchInv' BY <1>1, <1>4, <1>6, <2>1 DEF AtBatch, CursorTypes
  <2>5. QED BY <1>1, <1>2, <1>5, <1>8, <2>1, <2>3, <2>4 DEF CursorTypes
<1>9. CASE at < row_group.rows /\ row_group.verdict # "ALL"
  <2>1. /\ \E cs \in SUBSET Columns : FetchBatch(cs, at)
        /\ \/ mask = BatchMatches(at) /\ UNCHANGED cursor_error
           \/ mask = {} /\ cursor_error' = TRUE
    BY <1>1, <1>2, <1>9 DEF LoadRowMask
  <2>2. PICK cs \in SUBSET Columns : FetchBatch(cs, at) BY <2>1
  <2>3. /\ read' \in [Columns -> Nat] /\ first' \in [Columns -> Nat]
        /\ \A c \in Columns :
             /\ read'[c] <= at + Batch
             /\ read'[c] > at => /\ first'[c] = at
                                 /\ read'[c] = at + BatchCount(at)
    BY <1>1, <1>2, <1>4, <1>9, <2>2, FetchReaches
  <2>4. BatchCount(at) \in Nat BY <1>1, <1>2, <1>9, BatchCountBounds
  <2>5. \A p \in BatchMatches(at) : p < BatchCount(at) BY <2>4 DEF BatchMatches
  <2>6. BatchInv' BY <1>6, <2>3
  <2>7. QED BY <1>1, <1>2, <1>5, <1>9, <2>1, <2>3, <2>5, <2>6
<1>10. at >= row_group.rows \/ at < row_group.rows BY <1>1, <1>2
<1>11. QED BY <1>7, <1>8, <1>9, <1>10

\* A step that leaves the cursor and the file alone.
LEMMA CursorStays ==
    ASSUME Inv, UNCHANGED <<cursorVars, file, reader_position>>
    PROVE  /\ CursorTypes' /\ BatchInv'
           /\ (call' = "idle" => call = "idle" \/ row_mask = {}) => MaskInv'
           /\ (call' = "count" => row_mask = {}) => CallInv'
           /\ value' = None => ValueInv'
<1>1. /\ row_group' = row_group /\ group_position' = group_position
      /\ initialized' = initialized /\ read' = read /\ first' = first
      /\ row_mask' = row_mask /\ position' = position
      /\ cursor_error' = cursor_error
      /\ file' = file /\ reader_position' = reader_position
  BY DEF cursorVars, groupCursorVars
<1>2. CursorTypes' BY <1>1 DEF Inv, CursorTypes
<1>3. BatchInv' BY <1>1 DEF Inv, BatchInv, AtBatch, BatchCount, Loaded
<1>4. (call' = "idle" => call = "idle" \/ row_mask = {}) => MaskInv'
  BY <1>1 DEF Inv, MaskInv, BatchCount, Loaded
<1>5. (call' = "count" => row_mask = {}) => CallInv'
  BY <1>1 DEF Inv, CallInv, Loaded, ReaderValid
<1>6. value' = None => ValueInv' BY DEF ValueInv
<1>7. QED BY <1>2, <1>3, <1>4, <1>5, <1>6

\* A freed cursor: rewinding, or going to the next row group.
LEMMA FreeIsSafe ==
    ASSUME Inv, CursorFree, file' = file, reader_position' \in Nat, value' = None
    PROVE  Inv'
<1>1. /\ CursorRewind /\ row_group' = None /\ file \in Files
  BY DEF CursorFree, Inv, CursorTypes
<1>2. CursorTypes' /\ BatchInv' /\ MaskInv' BY <1>1, RewindIsSafe
<1>3. CallInv' BY <1>1 DEF CallInv, CursorRewind, Loaded
<1>4. ValueInv' BY DEF ValueInv
<1>5. QED BY <1>2, <1>3, <1>4 DEF Inv

\* No value is kept while a call is in progress.
LEMMA NoValueInCall == Inv /\ call # "idle" => value = None
BY DEF Inv, ValueInv

------------------------------------------------------------------------------
(* The invariant, action by action. *)

\* A reader that has just been opened satisfies the invariant.
LEMMA Initially == Init => Inv
<1> SUFFICES ASSUME Init PROVE Inv OBVIOUS
<1>1. CursorTypes BY RowCursorAssumption DEF Init, CursorTypes
<1>2. BatchInv BY RowCursorAssumption DEF Init, BatchInv, Loaded
<1>3. MaskInv /\ CallInv /\ ValueInv
  BY DEF Init, MaskInv, CallInv, ValueInv, Loaded
<1>4. QED BY <1>1, <1>2, <1>3 DEF Inv

\* Beginning a call, or answering it at once.
LEMMA CallsPreserve ==
    ASSUME Inv, NextCall \/ RewindCall \/ RowCountCall
    PROVE  Inv'
<1>1. CASE NextCall
  <2>1. UNCHANGED <<cursorVars, file, reader_position>>
    BY <1>1 DEF NextCall, Fixed
  <2>2. value' = None /\ call = "idle" /\ call' # "count"
    BY <1>1 DEF NextCall, Begin
  <2>3. QED BY <2>1, <2>2, CursorStays DEF Inv
<1>2. CASE RewindCall
  BY <1>2, FreeIsSafe DEF RewindCall, Rewound, Begin, Fixed
<1>3. CASE RowCountCall
  <2>1. CASE UNCHANGED <<cursorVars, reader_position>> /\ Fixed
             /\ Begin("idle")
    <3>1. UNCHANGED <<cursorVars, file, reader_position>> BY <2>1 DEF Fixed
    <3>2. value' = None /\ call = "idle" /\ call' = "idle" BY <2>1 DEF Begin
    <3>3. QED BY <3>1, <3>2, CursorStays DEF Inv
  <2>2. CASE Begin("count") /\ Rewound /\ Fixed
    BY <2>2, FreeIsSafe DEF Rewound, Begin, Fixed
  <2>3. QED BY <1>3, <2>1, <2>2 DEF RowCountCall
<1>4. QED BY <1>1, <1>2, <1>3

\* Opening a row group, or failing to.
LEMMA LoadCursorPreserves ==
    ASSUME Inv, LoadCursor
    PROVE  Inv'
<1>1. /\ call # "idle" /\ ReaderValid /\ value' = value /\ value = None
      /\ reader_position' = reader_position /\ file' = file
  BY NoValueInCall DEF LoadCursor, InLoop, Fixed
<1>2. CASE CursorNew(file[reader_position + 1]) /\ UNCHANGED call
  <2>1. /\ file \in Seq(RowGroups) /\ reader_position \in Nat
        /\ reader_position + 1 \in 1..Len(file)
    BY <1>1, ReaderAssumption DEF Inv, CursorTypes, ReaderValid
  <2>2. CursorRewind /\ row_group' \in RowGroups
    BY <1>2, <2>1 DEF CursorNew
  <2>3. CursorTypes' /\ BatchInv' /\ MaskInv'
    BY <1>1, <2>1, <2>2, RewindIsSafe DEF Inv, CursorTypes
  <2>4. CallInv' BY <1>1, <2>2 DEF CallInv, CursorRewind, ReaderValid
  <2>5. ValueInv' BY <1>1 DEF ValueInv
  <2>6. QED BY <2>3, <2>4, <2>5 DEF Inv
<1>3. CASE UNCHANGED cursorVars /\ ~Loaded /\ call' = "idle"
  <2>1. row_mask = {} BY <1>3 DEF Inv, MaskInv
  <2>2. QED BY <1>1, <1>3, <2>1, CursorStays DEF Inv
<1>4. QED BY <1>2, <1>3 DEF LoadCursor, Return

\* The least row of a mask is a row of the mask, and the least.
LEMMA MinOfMask ==
    ASSUME NEW S \in SUBSET Nat, S # {}
    PROVE  Min(S) \in S /\ \A m \in S : Min(S) <= m
<1>1. \E n \in S : \A m \in S : ~(<<m, n>> \in OpToRel(<, Nat))
  BY NatLessThanWellFounded, WFMin, Zenon
<1>2. PICK n \in S : \A m \in S : ~(<<m, n>> \in OpToRel(<, Nat)) BY <1>1
<1>3. ASSUME NEW m \in S PROVE n <= m
  <2>1. <<m, n>> \notin { ss \in Nat \X Nat : ss[1] < ss[2] }
    BY <1>2 DEF OpToRel
  <2>2. m \in Nat /\ n \in Nat OBVIOUS
  <2>3. ~(m < n) BY <2>1, <2>2
  <2>4. QED BY <2>2, <2>3
<1>4. \E x \in S : \A y \in S : x <= y BY <1>2, <1>3
<1>5. QED BY <1>4 DEF Min

\* Going on to a row of the same batch.
LEMMA StepInBatchPreserves ==
    ASSUME Inv, StepInBatch
    PROVE  Inv'
<1>1. /\ row_group' = row_group /\ group_position' = group_position
      /\ initialized' = initialized /\ read' = read /\ first' = first
      /\ row_mask' = row_mask /\ cursor_error' = cursor_error
      /\ file' = file /\ reader_position' = reader_position
      /\ value' = value /\ call # "idle" /\ call' = "idle"
      /\ position' = Min(Ahead) /\ Ahead # {}
  BY DEF StepInBatch, InLoop, Yield, Return, Fixed, groupCursorVars
<1>2. row_mask \subseteq Nat /\ Ahead \in SUBSET Nat /\ Ahead \subseteq row_mask
  BY DEF Inv, CursorTypes, Ahead
<1>3. position' \in row_mask BY <1>1, <1>2, MinOfMask
<1>4. CursorTypes' BY <1>1, <1>2, <1>3 DEF Inv, CursorTypes
<1>5. BatchInv' BY <1>1 DEF Inv, BatchInv, AtBatch, BatchCount, Loaded
<1>6. MaskInv' BY <1>1, <1>3 DEF Inv, MaskInv, BatchCount, Loaded
<1>7. CallInv' BY <1>1 DEF Inv, CallInv, Loaded, ReaderValid
<1>8. ValueInv' BY <1>1, NoValueInCall DEF ValueInv
<1>9. QED BY <1>4, <1>5, <1>6, <1>7, <1>8 DEF Inv

\* Going on to the next batch, and to a row of it if one matches.
LEMMA StepToBatchPreserves ==
    ASSUME Inv, StepToBatch
    PROVE  Inv'
<1>1. /\ row_group' = row_group /\ file' = file
      /\ reader_position' = reader_position
      /\ value' = value /\ call = "next" /\ Loaded /\ ReaderValid
  BY DEF StepToBatch, InLoop, Fixed
<1>2. PICK mask \in SUBSET (0..(Batch - 1)) :
        /\ LoadRowMask(mask)
        /\ row_mask' = mask
        /\ \/ mask # {} /\ Yield(GroupPositionNext, Min(mask))
           \/ mask = {} /\ UNCHANGED <<position, call, answer, passed>>
  BY DEF StepToBatch
<1>3. /\ group_position' = GroupPositionNext /\ group_position' \in Nat
      /\ initialized' = TRUE
      /\ read' \in [Columns -> Nat] /\ first' \in [Columns -> Nat]
      /\ BatchInv'
      /\ mask # {} => /\ group_position' < row_group.rows
                      /\ \A p \in mask : p < BatchCount(group_position')
                      /\ cursor_error' = FALSE
      /\ cursor_error' \in BOOLEAN
  BY <1>1, <1>2, LoadIsSafe
<1>4. mask \in SUBSET Nat BY <1>2, RowCursorAssumption
<1>5. CASE mask # {}
  <2>1. position' = Min(mask) /\ call' = "idle"
    BY <1>2, <1>5 DEF Yield, Return
  <2>2. position' \in mask BY <1>4, <1>5, <2>1, MinOfMask
  <2>3. CursorTypes' BY <1>1, <1>2, <1>3, <1>4, <2>2 DEF Inv, CursorTypes
  <2>4. MaskInv'
    BY <1>1, <1>2, <1>3, <1>5, <2>2 DEF MaskInv, Loaded, BatchCount
  <2>5. CallInv' BY <1>1, <1>3, <1>5, <2>1 DEF CallInv, Loaded, ReaderValid
  <2>6. ValueInv' BY <1>1, NoValueInCall DEF ValueInv
  <2>7. QED BY <1>3, <2>3, <2>4, <2>5, <2>6 DEF Inv
<1>6. CASE mask = {}
  <2>1. position' = position /\ call' = call BY <1>2, <1>6
  <2>2. CursorTypes' BY <1>1, <1>2, <1>3, <1>4, <2>1 DEF Inv, CursorTypes
  <2>3. MaskInv' BY <1>2, <1>6 DEF MaskInv
  <2>4. CallInv' BY <1>1, <1>2, <1>6, <2>1 DEF CallInv, Loaded, ReaderValid
  <2>5. ValueInv' BY <1>1, NoValueInCall DEF ValueInv
  <2>6. QED BY <1>3, <2>2, <2>3, <2>4, <2>5 DEF Inv
<1>7. QED BY <1>5, <1>6

\* Counting a batch.
LEMMA CountBatchPreserves ==
    ASSUME Inv, CountBatch
    PROVE  Inv'
<1>1. /\ row_group' = row_group /\ file' = file
      /\ reader_position' = reader_position /\ row_mask' = row_mask
      /\ position' = position /\ call' = call
      /\ value' = value /\ call = "count" /\ Loaded /\ ReaderValid
  BY DEF CountBatch, InLoop, Fixed
<1>2. PICK mask \in SUBSET (0..(Batch - 1)) : LoadRowMask(mask)
  BY DEF CountBatch
<1>3. /\ group_position' \in Nat /\ initialized' = TRUE
      /\ read' \in [Columns -> Nat] /\ first' \in [Columns -> Nat]
      /\ BatchInv' /\ cursor_error' \in BOOLEAN
  BY <1>1, <1>2, LoadIsSafe
<1>4. row_mask' = {} BY <1>1 DEF Inv, CallInv
<1>5. CursorTypes' BY <1>1, <1>3, <1>4 DEF Inv, CursorTypes
<1>6. MaskInv' /\ CallInv'
  BY <1>1, <1>4 DEF MaskInv, CallInv, Loaded, ReaderValid
<1>7. ValueInv' BY <1>1, NoValueInCall DEF ValueInv
<1>8. QED BY <1>3, <1>5, <1>6, <1>7 DEF Inv

\* The steps that end with a row group, by its end, its index or its failure,
\* or with the last of them.
LEMMA GroupEndsPreserve ==
    ASSUME Inv, CountByIndex \/ NextGroup \/ GiveUp \/ Finish
    PROVE  Inv'
<1>1. CASE CountByIndex \/ NextGroup
  <2>1. /\ CursorFree /\ file' = file /\ value' = value /\ call # "idle"
        /\ reader_position' = reader_position + 1
    BY <1>1 DEF CountByIndex, NextGroup, Advance, InLoop, Fixed
  <2>2. reader_position' \in Nat BY <2>1 DEF Inv, CursorTypes
  <2>3. value' = None BY <2>1, NoValueInCall
  <2>4. QED BY <2>1, <2>2, <2>3, FreeIsSafe
<1>2. CASE GiveUp \/ Finish
  <2>1. /\ UNCHANGED <<cursorVars, file, reader_position>>
        /\ value' = value /\ call # "idle" /\ call' = "idle"
        /\ cursor_error \/ ~ReaderValid
    BY <1>2 DEF GiveUp, Finish, InLoop, Return, Fixed
  <2>2. row_mask = {} BY <2>1 DEF Inv, CallInv, MaskInv
  <2>3. value' = None BY <2>1, NoValueInCall
  <2>4. QED BY <2>1, <2>2, <2>3, CursorStays DEF Inv
<1>3. QED BY <1>1, <1>2

\* Reading a value of the row that next stopped at.
LEMMA GetPreserves ==
    ASSUME Inv, NEW c \in Columns, Get(c)
    PROVE  Inv'
<1>1. /\ call = "idle" /\ call' = call /\ (Loaded => row_mask # {})
      /\ row_group' = row_group /\ group_position' = group_position
      /\ initialized' = initialized /\ row_mask' = row_mask
      /\ position' = position /\ cursor_error' = cursor_error
      /\ file' = file /\ reader_position' = reader_position
  BY DEF Get, Fixed
<1>2. CASE Loaded /\ GetValue(c, value')
  <2>1. /\ row_group \in RowGroups /\ group_position \in Nat /\ CursorTypes
        /\ group_position < row_group.rows /\ row_mask # {}
    BY <1>1, <1>2 DEF Inv, CursorTypes, MaskInv, Loaded
  <2>2. FetchBatch({c}, group_position)
        /\ value' = <<c, first'[c] + position>>
    BY <1>2 DEF GetValue
  <2>3. \A d \in Columns : /\ read[d] <= group_position + Batch
                           /\ AtBatch(d, group_position)
    BY <1>2 DEF Inv, BatchInv
  <2>4. /\ read' \in [Columns -> Nat] /\ first' \in [Columns -> Nat]
        /\ \A d \in Columns :
             /\ read'[d] <= group_position + Batch
             /\ read'[d] > group_position =>
                    /\ first'[d] = group_position
                    /\ read'[d] = group_position + BatchCount(group_position)
             /\ d \in {c} => read'[d] > group_position
    BY <2>1, <2>2, <2>3, FetchReaches
  <2>5. CursorTypes' BY <1>1, <2>1, <2>4 DEF CursorTypes
  <2>6. initialized BY <2>1 DEF Inv, MaskInv
  <2>7. BatchInv'
    BY <1>1, <2>4, <2>6 DEF BatchInv, AtBatch, BatchCount
  <2>8. MaskInv' /\ CallInv'
    BY <1>1 DEF Inv, MaskInv, CallInv, BatchCount, Loaded, ReaderValid
  <2>9. ValueInv'
    <3>1. read'[c] > group_position /\ first'[c] = group_position BY <2>4
    <3>2. QED BY <1>1, <2>1, <2>2, <3>1 DEF ValueInv
  <2>10. QED BY <2>5, <2>7, <2>8, <2>9 DEF Inv
<1>3. CASE value' = None /\ UNCHANGED <<read, first>>
  BY <1>1, <1>3, CursorStays DEF Inv, cursorVars, groupCursorVars
<1>4. QED BY <1>2, <1>3 DEF Get

\* A step that changes nothing.
LEMMA StutterPreserves ==
    ASSUME Inv, UNCHANGED vars
    PROVE  Inv'
<1>1. /\ UNCHANGED <<cursorVars, file, reader_position>>
      /\ call' = call /\ value' = value /\ row_mask' = row_mask
      /\ position' = position /\ group_position' = group_position
      /\ read' = read
  BY DEF vars, readerVars, cursorVars, groupCursorVars
<1>2. ValueInv' BY <1>1 DEF Inv, ValueInv
<1>3. QED BY <1>1, <1>2, CursorStays DEF Inv, CallInv

\* So every step preserves it.
LEMMA Inductive == Inv /\ [Next]_vars => Inv'
<1> SUFFICES ASSUME Inv, [Next]_vars PROVE Inv' OBVIOUS
<1>1. CASE NextCall \/ RewindCall \/ RowCountCall BY <1>1, CallsPreserve
<1>2. CASE \E c \in Columns : Get(c) BY <1>2, GetPreserves
<1>3. CASE LoadCursor BY <1>3, LoadCursorPreserves
<1>4. CASE StepInBatch BY <1>4, StepInBatchPreserves
<1>5. CASE StepToBatch BY <1>5, StepToBatchPreserves
<1>6. CASE CountBatch BY <1>6, CountBatchPreserves
<1>7. CASE CountByIndex \/ NextGroup \/ GiveUp \/ Finish
  BY <1>7, GroupEndsPreserve
<1>8. CASE UNCHANGED vars BY <1>8, StutterPreserves
<1>9. QED BY <1>1, <1>2, <1>3, <1>4, <1>5, <1>6, <1>7, <1>8 DEF Next, Step

\* The inductive invariant holds in every reachable state.
THEOREM Invariance == Spec => []Inv
  BY Initially, Inductive, PTL DEF Spec

\* cx_reader_get_<type> reads the row that next stopped at, for every batch
\* size, every number of columns and every file.
THEOREM GetIsRight == Spec => []GetReadsTheRow
<1>1. Inv => GetReadsTheRow
  <2> SUFFICES ASSUME Inv, value # None
               PROVE  /\ value[2] = group_position + position
                      /\ value[2] < read[value[1]]
    BY DEF GetReadsTheRow
  <2>1. PICK c \in Columns : /\ value = <<c, group_position + position>>
                             /\ read[c] > group_position
    BY DEF Inv, ValueInv
  <2>2. /\ Loaded /\ position \in row_mask
        /\ position < BatchCount(group_position)
        /\ group_position < row_group.rows
    BY DEF Inv, ValueInv, MaskInv
  <2>3. /\ row_group \in RowGroups /\ group_position \in Nat
        /\ position \in Nat
    BY <2>2 DEF Inv, CursorTypes, Loaded
  <2>4. BatchCount(group_position) \in Nat BY <2>2, <2>3, BatchCountBounds
  <2>5. read[c] = group_position + BatchCount(group_position)
    BY <2>1, <2>2 DEF Inv, BatchInv, AtBatch
  <2>6. QED BY <2>1, <2>2, <2>3, <2>4, <2>5
<1>2. QED BY <1>1, Invariance, PTL

------------------------------------------------------------------------------
(* What the reader has handed out, or counted, by where it stands.  A file *)
(* is passed row group by row group, a row group row by row.               *)

\* The rows of m before row n of row group g, and those of row group g.
Gone(m, g, n) == { x \in m : x[1] < g \/ (x[1] = g /\ x[2] < n) }
RowsIn(m, g) == { r \in Nat : <<g, r>> \in m }

\* The rows of a batch that starts at row "at", by their place in it.
InBatch(matches, at) == { p \in 0..(Batch - 1) : at + p \in matches }

\* The first row of the row group that has not been decided on.
Frontier == IF ~Loaded \/ ~initialized THEN 0
            ELSE IF row_mask = {} THEN group_position + Batch
            ELSE group_position + position + 1

\* Batches are aligned, masks and columns stay inside theirs.
ShapeInv ==
    /\ call \in {"idle", "next", "count"} /\ error \in BOOLEAN /\ count \in Nat
    /\ reader_position \in 0..Len(file)
    /\ group_position % Batch = 0
    /\ row_mask \subseteq 0..(Batch - 1) /\ position \in 0..Batch
    /\ row_mask # {} => position < Batch
    /\ match_all_rows => \A i \in DOMAIN file :
           file[i].rows > 0 => file[i].verdict = "ALL"

ColumnInv == \A c \in Columns :
    /\ first[c] <= read[c] /\ first[c] % Batch = 0
    /\ Loaded => read[c] <= row_group.rows

\* A failure is seen before anything else is handed out, and a count goes by
\* the index from the start of a row group or not at all.
FlagInv ==
    /\ Loaded => row_group = file[reader_position + 1]
    /\ cursor_error => Loaded /\ initialized
    /\ call # "idle" => ~error
    /\ call = "idle" /\ ~error => ~cursor_error
    /\ call = "count" /\ Loaded /\ row_group.verdict # "UNKNOWN" => ~initialized

\* The mask holds all matches of its batch.
ExactInv == Loaded /\ initialized /\ ~cursor_error /\ call # "count" =>
    row_mask = InBatch(row_group.matches, group_position)

\* What has been handed out, or counted, is what lies before the frontier.
PlaceInv ==
    /\ passed \subseteq MatchingRows
    /\ ~error /\ ~cursor_error =>
         LET gone == Gone(MatchingRows, reader_position, Frontier) IN
         IF call = "count" THEN passed = {} /\ count = Cardinality(gone)
                           ELSE passed = gone

ScanInv == ShapeInv /\ ColumnInv /\ FlagInv /\ ExactInv /\ PlaceInv

\* Sets of rows.
Pairs(m) == \A x \in m : x = <<x[1], x[2]>> /\ x[1] \in Nat /\ x[2] \in Nat

\* No row of group g from row n up to, and not with, row n2.
NoneBetween(m, g, n, n2) == \A r \in RowsIn(m, g) : ~(n <= r /\ r < n2)

\* Going over rows that do not match, nothing is handed out.
LEMMA GoneSame ==
    ASSUME NEW m, Pairs(m), NEW g \in Nat, NEW n \in Nat, NEW n2 \in Nat, n <= n2,
           NoneBetween(m, g, n, n2)
    PROVE  Gone(m, g, n2) = Gone(m, g, n)
<1>1. ASSUME NEW x \in m PROVE x \in Gone(m, g, n2) <=> x \in Gone(m, g, n)
    <2>1. x = <<x[1], x[2]>> /\ x[1] \in Nat /\ x[2] \in Nat
        BY DEF Pairs
    <2>2. x[1] = g => x[2] \in RowsIn(m, g)
        BY <2>1 DEF RowsIn
    <2>3. x[1] = g => ~(n <= x[2] /\ x[2] < n2)
        BY <2>2 DEF NoneBetween
    <2>4. QED
        BY <2>1, <2>3 DEF Gone
<1>2. QED
    BY <1>1 DEF Gone

\* The next match is the first of those that remain.
LEMMA GoneStep ==
    ASSUME NEW m, Pairs(m), NEW g \in Nat, NEW n \in Nat, NEW r \in RowsIn(m, g),
           n <= r, NoneBetween(m, g, n, r)
    PROVE  /\ <<g, r>> \in m \ Gone(m, g, n)
           /\ Gone(m, g, r + 1) = Gone(m, g, n) \cup {<<g, r>>}
           /\ \A y \in (m \ Gone(m, g, n)) \ {<<g, r>>} :
                 g < y[1] \/ (g = y[1] /\ r < y[2])
<1>1. r \in Nat /\ <<g, r>> \in m
    BY DEF RowsIn
<1>2. <<g, r>> \notin Gone(m, g, n)
    BY <1>1 DEF Gone
<1>3. ASSUME NEW x \in m
      PROVE  /\ x \in Gone(m, g, r + 1) <=> x \in Gone(m, g, n) \/ x = <<g, r>>
             /\ x \notin Gone(m, g, n) /\ x # <<g, r>> =>
                   g < x[1] \/ (g = x[1] /\ r < x[2])
    <2>1. x = <<x[1], x[2]>> /\ x[1] \in Nat /\ x[2] \in Nat
        BY DEF Pairs
    <2>2. x[1] = g => x[2] \in RowsIn(m, g)
        BY <2>1 DEF RowsIn
    <2>3. x[1] = g => ~(n <= x[2] /\ x[2] < r)
        BY <2>2 DEF NoneBetween
    <2>4. x = <<g, r>> <=> x[1] = g /\ x[2] = r
        BY <2>1
    <2>5. /\ x \in Gone(m, g, r + 1) <=>
                 x[1] < g \/ (x[1] = g /\ x[2] < r + 1)
          /\ x \in Gone(m, g, n) <=> x[1] < g \/ (x[1] = g /\ x[2] < n)
        BY DEF Gone
    <2>6. QED
        BY <1>1, <2>1, <2>3, <2>4, <2>5
<1>4. Gone(m, g, r + 1) \subseteq m /\ Gone(m, g, n) \subseteq m
    BY DEF Gone
<1>5. Gone(m, g, r + 1) = Gone(m, g, n) \cup {<<g, r>>}
    BY <1>1, <1>3, <1>4
<1>6. QED
    BY <1>1, <1>2, <1>3, <1>5

\* Past its last match a row group is passed.
LEMMA GoneGroup ==
    ASSUME NEW m, Pairs(m), NEW g \in Nat, NEW n \in Nat,
           \A r \in RowsIn(m, g) : r < n
    PROVE  Gone(m, g + 1, 0) = Gone(m, g, n)
<1>1. ASSUME NEW x \in m PROVE x \in Gone(m, g + 1, 0) <=> x \in Gone(m, g, n)
    <2>1. x = <<x[1], x[2]>> /\ x[1] \in Nat /\ x[2] \in Nat
        BY DEF Pairs
    <2>2. x[1] = g => x[2] < n
        BY <2>1 DEF RowsIn
    <2>3. QED
        BY <2>1, <2>2 DEF Gone
<1>2. QED
    BY <1>1 DEF Gone

\* Nothing is gone at the start of the file, everything at its end.
LEMMA GoneAtTheEnds ==
    ASSUME NEW m, Pairs(m), NEW g \in Nat, NEW n \in Nat
    PROVE  /\ Gone(m, 0, 0) = {}
           /\ (\A x \in m : x[1] < g) => Gone(m, g, n) = m
<1>1. Gone(m, 0, 0) = {}
    BY DEF Gone, Pairs
<1>2. QED
    BY <1>1 DEF Gone

\* The rows of row group g that a set of places stands for, from row n on.
At(g, n, places) == { <<g, n + p>> : p \in places }

\* As many rows as places.
LEMMA AtCount ==
    ASSUME NEW S \in SUBSET Nat, IsFiniteSet(S), NEW g, NEW n \in Nat
    PROVE  IsFiniteSet(At(g, n, S)) /\ Cardinality(At(g, n, S)) = Cardinality(S)
<1> DEFINE T == { <<g, n + p>> : p \in S }
           f == [p \in S |-> <<g, n + p>>]
<1>1. f \in [S -> T]
    OBVIOUS
<1>2. \A p, q \in S : f[p] = f[q] => p = q
    OBVIOUS
<1>3. \A t \in T : \E p \in S : f[p] = t
    OBVIOUS
<1>4. f \in Bijection(S, T)
    BY <1>1, <1>2, <1>3, Fun_IsBij
<1>5. ExistsBijection(S, T)
    BY <1>4 DEF ExistsBijection
<1>6. QED
    BY <1>5, FS_Bijection DEF At

\* What is gone up to one place and the rows from there up to another are
\* apart.
LEMMA GoneCount ==
    ASSUME NEW m, IsFiniteSet(m), NEW g \in Nat, NEW n \in Nat,
           NEW S \in SUBSET Nat, IsFiniteSet(S)
    PROVE  Cardinality(Gone(m, g, n) \cup At(g, n, S)) =
               Cardinality(Gone(m, g, n)) + Cardinality(S)
<1> DEFINE T == At(g, n, S)
           gone == Gone(m, g, n)
<1>1. IsFiniteSet(T) /\ Cardinality(T) = Cardinality(S)
    BY AtCount
<1>2. IsFiniteSet(gone) /\ Cardinality(gone) \in Nat
    BY FS_Subset, FS_CardinalityType DEF Gone
<1>3. gone \cap T = {}
    <2>1. ASSUME NEW p \in S, <<g, n + p>> \in gone PROVE FALSE
        BY <2>1 DEF Gone
    <2>2. QED
        BY <2>1 DEF At
<1>4. Cardinality(S) \in Nat
    BY FS_CardinalityType
<1> HIDE DEF T, gone
<1>5. Cardinality(gone \cup T) =
          Cardinality(gone) + Cardinality(T) - Cardinality(gone \cap T)
    BY <1>1, <1>2, FS_Union
<1>6. Cardinality(gone \cap T) = 0
    BY <1>3, FS_EmptySet
<1>7. Cardinality(gone \cup T) = Cardinality(gone) + Cardinality(S)
    BY <1>1, <1>2, <1>4, <1>5, <1>6
<1>8. QED
    BY <1>7 DEF gone, T

\* A batch counted.
LEMMA GoneBatch ==
    ASSUME NEW m, Pairs(m), IsFiniteSet(m), NEW g \in Nat, NEW n \in Nat
    PROVE  Cardinality(Gone(m, g, n + Batch)) =
               Cardinality(Gone(m, g, n)) + Cardinality(InBatch(RowsIn(m, g), n))
<1> DEFINE S == InBatch(RowsIn(m, g), n)
<1>1. Batch \in Nat \ {0}
    BY RowCursorAssumption
<1>2. S \in SUBSET Nat /\ IsFiniteSet(S)
    <2>1. IsFiniteSet(0..(Batch - 1)) /\ S \subseteq 0..(Batch - 1)
        BY <1>1, FS_Interval DEF InBatch
    <2>2. QED
        BY <1>1, <2>1, FS_Subset
<1>3. ASSUME NEW x \in m
      PROVE  x \in Gone(m, g, n + Batch) <=>
                 x \in Gone(m, g, n) \/ \E p \in S : x = <<g, n + p>>
    <2>1. x = <<x[1], x[2]>> /\ x[1] \in Nat /\ x[2] \in Nat
        BY DEF Pairs
    <2>2. ASSUME x[1] = g, n <= x[2], x[2] < n + Batch
          PROVE  \E p \in S : x = <<g, n + p>>
        <3>1. x[2] - n \in 0..(Batch - 1) /\ n + (x[2] - n) = x[2]
            BY <1>1, <2>1, <2>2
        <3>2. x[2] \in RowsIn(m, g)
            BY <2>1, <2>2 DEF RowsIn
        <3>3. x[2] - n \in S
            BY <3>1, <3>2 DEF InBatch
        <3>4. QED
            BY <2>1, <2>2, <3>1, <3>3
    <2>3. ASSUME NEW p \in S, x = <<g, n + p>>
          PROVE  x[1] = g /\ n <= x[2] /\ x[2] < n + Batch
        BY <1>1, <2>3 DEF InBatch
    <2>4. QED
        BY <1>1, <2>1, <2>2, <2>3 DEF Gone
<1>4. \A p \in S : <<g, n + p>> \in m
    BY DEF InBatch, RowsIn
<1>5. Gone(m, g, n + Batch) \subseteq m /\ Gone(m, g, n) \subseteq m
    BY DEF Gone
<1>6. Gone(m, g, n + Batch) = Gone(m, g, n) \cup At(g, n, S)
    <2> HIDE DEF S
    <2> QED
        BY <1>3, <1>4, <1>5 DEF At
<1>7. QED
    <2> HIDE DEF S
    <2>1. Cardinality(Gone(m, g, n + Batch)) =
              Cardinality(Gone(m, g, n)) + Cardinality(S)
        BY <1>2, <1>6, GoneCount
    <2>2. QED
        BY <2>1 DEF S

\* A row group counted as a whole.
LEMMA GoneWhole ==
    ASSUME NEW m, Pairs(m), IsFiniteSet(m), NEW g \in Nat,
           IsFiniteSet(RowsIn(m, g))
    PROVE  Cardinality(Gone(m, g + 1, 0)) =
               Cardinality(Gone(m, g, 0)) + Cardinality(RowsIn(m, g))
<1> DEFINE S == RowsIn(m, g)
<1>1. S \in SUBSET Nat
    BY DEF RowsIn
<1>2. ASSUME NEW x \in m
      PROVE  x \in Gone(m, g + 1, 0) <=>
                 x \in Gone(m, g, 0) \/ \E p \in S : x = <<g, 0 + p>>
    <2>1. x = <<x[1], x[2]>> /\ x[1] \in Nat /\ x[2] \in Nat
        BY DEF Pairs
    <2>2. x[1] = g => x[2] \in S /\ x = <<g, 0 + x[2]>>
        BY <2>1 DEF RowsIn
    <2>3. QED
        BY <2>1, <2>2 DEF Gone
<1>3. \A p \in S : <<g, 0 + p>> \in m
    BY DEF RowsIn
<1>4. Gone(m, g + 1, 0) \subseteq m /\ Gone(m, g, 0) \subseteq m
    BY DEF Gone
<1>5. Gone(m, g + 1, 0) = Gone(m, g, 0) \cup At(g, 0, S)
    <2> HIDE DEF S
    <2> QED
        BY <1>2, <1>3, <1>4 DEF At
<1>6. QED
    <2>1. IsFiniteSet(S) /\ 0 \in Nat
        OBVIOUS
    <2> HIDE DEF S
    <2>2. Cardinality(Gone(m, g + 1, 0)) =
              Cardinality(Gone(m, g, 0)) + Cardinality(S)
        BY <1>1, <1>5, <2>1, GoneCount
    <2>3. QED
        BY <2>2 DEF S

------------------------------------------------------------------------------
(* The matching rows of a file. *)

\* A number of rows is finite.
LEMMA RowsFinite ==
    ASSUME NEW n, n \in Nat
    PROVE  IsFiniteSet(0..(n - 1)) /\ Cardinality(0..(n - 1)) = n
<1>1. 0 \in Int /\ n - 1 \in Int
    OBVIOUS
<1>2. QED
    BY <1>1, FS_Interval

\* The row groups of the file and their matches.
LEMMA GroupTypes ==
    ASSUME file \in Files, NEW g \in 0..(Len(file) - 1)
    PROVE  /\ file[g + 1] \in RowGroups
           /\ file[g + 1].rows \in Nat /\ file[g + 1].matches \in SUBSET Nat
           /\ file[g + 1].matches \subseteq 0..(file[g + 1].rows - 1)
           /\ IsFiniteSet(file[g + 1].matches)
<1>1. file \in Seq(RowGroups) /\ g + 1 \in 1..Len(file)
    BY ReaderAssumption
<1>2. file[g + 1] \in RowGroups
    BY <1>1
<1>3. /\ file[g + 1].rows \in Nat /\ file[g + 1].matches \in SUBSET Nat
      /\ file[g + 1].matches \subseteq 0..(file[g + 1].rows - 1)
    BY <1>2 DEF RowGroups
<1>4. IsFiniteSet(0..(file[g + 1].rows - 1))
    BY <1>3, RowsFinite
<1>5. QED
    BY <1>2, <1>3, <1>4, FS_Subset

\* The matching rows are pairs of a row group of the file and one of its
\* matches.
LEMMA MatchingAre ==
    ASSUME file \in Files
    PROVE  /\ Pairs(MatchingRows)
           /\ \A x \in MatchingRows : x[1] < Len(file)
           /\ \A g \in 0..(Len(file) - 1) :
                 RowsIn(MatchingRows, g) = file[g + 1].matches
<1>1. file \in Seq(RowGroups) /\ Len(file) \in Nat
    BY ReaderAssumption
<1>2. ASSUME NEW x \in MatchingRows
      PROVE  /\ x = <<x[1], x[2]>> /\ x[1] \in Nat /\ x[2] \in Nat
             /\ x[1] < Len(file)
             /\ x[2] \in file[x[1] + 1].matches
    <2>1. PICK g \in 0..(Len(file) - 1) :
              x \in { <<g, r>> : r \in file[g + 1].matches }
        BY DEF MatchingRows
    <2>2. PICK r \in file[g + 1].matches : x = <<g, r>>
        BY <2>1
    <2>3. r \in Nat
        BY <2>2, GroupTypes
    <2>4. x[1] = g /\ x[2] = r
        BY <2>2
    <2>5. QED
        BY <1>1, <2>2, <2>3, <2>4
<1>3. ASSUME NEW g \in 0..(Len(file) - 1)
      PROVE  RowsIn(MatchingRows, g) = file[g + 1].matches
    <2>1. ASSUME NEW r \in RowsIn(MatchingRows, g)
          PROVE  r \in file[g + 1].matches
        <3>1. <<g, r>> \in MatchingRows
            BY DEF RowsIn
        <3>2. QED
            BY <1>2, <3>1
    <2>2. ASSUME NEW r \in file[g + 1].matches
          PROVE  r \in RowsIn(MatchingRows, g)
        <3>1. r \in Nat
            BY GroupTypes
        <3>2. <<g, r>> \in MatchingRows
            BY DEF MatchingRows
        <3>3. QED
            BY <3>1, <3>2 DEF RowsIn
    <2>3. QED
        BY <2>1, <2>2
<1>4. QED
    BY <1>2, <1>3 DEF Pairs

\* The images of finitely many numbers are finitely many.
LEMMA ImageFinite ==
    ASSUME NEW D, IsFiniteSet(D), NEW f, f \in [D -> { f[x] : x \in D }]
    PROVE  IsFiniteSet({ f[x] : x \in D })
<1> DEFINE T == { f[x] : x \in D }
<1>1. \A t \in T : \E x \in D : f[x] = t
    OBVIOUS
<1>2. f \in Surjection(D, T)
    BY <1>1, Fun_IsSurj
<1>3. QED
    BY <1>2, FS_Surjection

\* There are finitely many rows in a file, and so finitely many that match;
\* all of them, in a file whose row groups all match in full.
LEMMA FiniteFile ==
    ASSUME file \in Files
    PROVE  /\ IsFiniteSet(MatchingRows)
           /\ TotalRowCount = 0 => MatchingRows = {}
           /\ (\A i \in DOMAIN file : file[i].rows > 0 => file[i].verdict = "ALL")
                  => TotalRowCount = Cardinality(MatchingRows)
<1> DEFINE D == 0..(Len(file) - 1)
           f == [g \in D |-> Rows(g)]
           T == { f[g] : g \in D }
           all == UNION { Rows(g) : g \in D }
<1>1. file \in Seq(RowGroups) /\ Len(file) \in Nat
    BY ReaderAssumption
<1>2. IsFiniteSet(D)
    BY <1>1, FS_Interval
<1>3. f \in [D -> T]
    OBVIOUS
<1>4. IsFiniteSet(T)
    <2> HIDE DEF D, f
    <2>1. QED
        BY <1>2, <1>3, ImageFinite
<1>5. ASSUME NEW g \in D PROVE IsFiniteSet(Rows(g))
    <2>1. file[g + 1].rows \in Nat
        BY GroupTypes
    <2> DEFINE R == 0..(file[g + 1].rows - 1)
               h == [r \in R |-> <<g, r>>]
    <2>2. IsFiniteSet(R)
        BY <2>1, RowsFinite
    <2>3. h \in [R -> { h[r] : r \in R }]
        OBVIOUS
    <2>4. IsFiniteSet({ h[r] : r \in R })
        <3> HIDE DEF R, h
        <3>1. QED
            BY <2>2, <2>3, ImageFinite
    <2>5. { h[r] : r \in R } = Rows(g)
        BY DEF Rows
    <2>6. QED
        BY <2>4, <2>5
<1>6. T = { Rows(g) : g \in D }
    OBVIOUS
<1>7. IsFiniteSet(all)
    <2>1. \A t \in T : IsFiniteSet(t)
        BY <1>5, <1>6
    <2> HIDE DEF T
    <2>2. IsFiniteSet(UNION T)
        BY <1>4, <2>1, FS_UNION
    <2>3. QED
        BY <1>6, <2>2
<1>8. MatchingRows \subseteq all
    <2>1. ASSUME NEW x \in MatchingRows PROVE x \in all
        <3>1. PICK g \in D : x \in { <<g, r>> : r \in file[g + 1].matches }
            BY DEF MatchingRows
        <3>2. x \in Rows(g)
            BY <3>1, GroupTypes DEF Rows
        <3>3. QED
            BY <3>2
    <2>2. QED
        BY <2>1
<1>9. IsFiniteSet(MatchingRows)
    <2> HIDE DEF all
    <2>1. QED
        BY <1>7, <1>8, FS_Subset
<1>10. ASSUME TotalRowCount = 0 PROVE MatchingRows = {}
    <2>1. Cardinality(all) = 0
        BY <1>10 DEF TotalRowCount
    <2> HIDE DEF all
    <2>2. all = {}
        BY <1>7, <2>1, FS_EmptySet
    <2>3. QED
        BY <1>8, <2>2
<1>11. ASSUME \A i \in DOMAIN file : file[i].rows > 0 => file[i].verdict = "ALL"
       PROVE  TotalRowCount = Cardinality(MatchingRows)
    <2>1. ASSUME NEW x \in all PROVE x \in MatchingRows
        <3>1. PICK g \in D : x \in Rows(g)
            OBVIOUS
        <3>2. PICK r \in 0..(file[g + 1].rows - 1) : x = <<g, r>>
            BY <3>1 DEF Rows
        <3>3. file[g + 1] \in RowGroups /\ file[g + 1].rows \in Nat
            BY GroupTypes
        <3>4. file[g + 1].rows > 0 /\ g + 1 \in DOMAIN file
            BY <1>1, <3>2, <3>3
        <3>5. file[g + 1].verdict = "ALL"
            BY <1>11, <3>4
        <3>6. r \in file[g + 1].matches
            BY <3>2, <3>3, <3>5 DEF RowGroups
        <3>7. QED
            BY <3>2, <3>6 DEF MatchingRows
    <2>2. all = MatchingRows
        BY <1>8, <2>1
    <2>3. QED
        BY <2>2 DEF TotalRowCount
<1>12. QED
    BY <1>9, <1>10, <1>11

\* The row group that is loaded is the one the reader stands at.
LEMMA LoadedIs ==
    ASSUME Inv, FlagInv, Loaded
    PROVE  /\ row_group \in RowGroups /\ row_group.rows \in Nat
           /\ row_group.matches \in SUBSET Nat
           /\ row_group.matches \subseteq 0..(row_group.rows - 1)
           /\ IsFiniteSet(row_group.matches)
           /\ RowsIn(MatchingRows, reader_position) = row_group.matches
<1>1. /\ file \in Files /\ row_group = file[reader_position + 1]
      /\ reader_position \in Nat /\ reader_position < Len(file)
    BY DEF Inv, CursorTypes, CallInv, ReaderValid, FlagInv
<1>2. Len(file) \in Nat
    BY <1>1, ReaderAssumption
<1>3. reader_position \in 0..(Len(file) - 1)
    BY <1>1, <1>2
<1>4. QED
    BY <1>1, <1>3, GroupTypes, MatchingAre

------------------------------------------------------------------------------
(* Batches are aligned, and a mask is exact. *)

\* The batch after an aligned batch is aligned.
LEMMA NextAligned ==
    ASSUME NEW b \in Nat \ {0}, NEW a \in Nat, a % b = 0
    PROVE  (a + b) % b = 0
<1>1. PICK q \in Int : q = a \div b /\ a = q * b
    OBVIOUS
<1>2. a + b = (q + 1) * b
    BY <1>1
<1>3. ((q + 1) * b) % b = 0
    BY <1>1
<1>4. QED
    BY <1>2, <1>3

\* A fetch of a batch that is aligned and lies in the row group leaves each
\* column aligned and in the row group.
LEMMA FetchKeepsColumns ==
    ASSUME NEW at \in Nat, NEW cs \in SUBSET Columns, at % Batch = 0,
           row_group \in RowGroups, row_group' = row_group,
           at < row_group.rows, CursorTypes, ColumnInv, Loaded,
           \A c \in Columns : read[c] <= at + Batch /\ AtBatch(c, at),
           FetchBatch(cs, at)
    PROVE  ColumnInv'
<1>1. row_group.rows \in Nat /\ BatchCount(at) \in Nat
      /\ at + BatchCount(at) <= row_group.rows
    BY BatchCountBounds DEF RowGroups
<1>2. /\ read' \in [Columns -> Nat] /\ first' \in [Columns -> Nat]
      /\ \A c \in Columns :
           /\ read'[c] > at => /\ first'[c] = at
                               /\ read'[c] = at + BatchCount(at)
           /\ read'[c] <= at => read'[c] = read[c] /\ first'[c] = first[c]
    BY FetchReaches
<1>3. ASSUME NEW c \in Columns
      PROVE  /\ first'[c] <= read'[c] /\ first'[c] % Batch = 0
             /\ read'[c] <= row_group.rows
    <2>1. CASE read'[c] > at
        BY <1>1, <1>2, <2>1
    <2>2. CASE read'[c] <= at
        BY <1>1, <1>2, <2>2 DEF ColumnInv
    <2>3. QED
        BY <1>2, <2>1, <2>2
<1>4. QED
    BY <1>3 DEF ColumnInv

\* The next batch: it is aligned, and unless it cannot be read the mask it
\* gives is exact.
LEMMA LoadIsExact ==
    ASSUME Inv, ShapeInv, ColumnInv, FlagInv, Loaded,
           NEW mask \in SUBSET (0..(Batch - 1)),
           LoadRowMask(mask), row_group' = row_group
    PROVE  /\ ColumnInv' /\ group_position' % Batch = 0
           /\ ~cursor_error' =>
                 mask = InBatch(row_group.matches, GroupPositionNext)
<1> DEFINE at == GroupPositionNext
<1>1. /\ row_group \in RowGroups /\ row_group.rows \in Nat
      /\ row_group.matches \in SUBSET Nat
      /\ row_group.matches \subseteq 0..(row_group.rows - 1)
      /\ row_group.verdict = "ALL" =>
             row_group.matches = 0..(row_group.rows - 1)
    BY LoadedIs DEF RowGroups
<1>2. /\ CursorTypes /\ Batch \in Nat \ {0} /\ group_position \in Nat
      /\ read \in [Columns -> Nat] /\ first \in [Columns -> Nat]
    BY RowCursorAssumption DEF Inv, CursorTypes
<1>3. at \in Nat /\ at % Batch = 0 /\ group_position' = at
    <2>1. (group_position + Batch) % Batch = 0
        BY <1>2, NextAligned DEF ShapeInv
    <2>2. 0 % Batch = 0
        BY <1>2
    <2>3. QED
        BY <1>2, <2>1, <2>2 DEF LoadRowMask, GroupCursorNext, GroupPositionNext
<1>4. \A c \in Columns : read[c] <= at
    BY <1>2 DEF Inv, BatchInv, GroupPositionNext
<1>5. \A c \in Columns : read[c] <= at + Batch /\ AtBatch(c, at)
    BY <1>2, <1>3, <1>4 DEF AtBatch
<1>6. ASSUME UNCHANGED <<read, first>> PROVE ColumnInv'
    BY <1>6 DEF ColumnInv, Loaded
<1>7. ASSUME at < row_group.rows
      PROVE  /\ BatchCount(at) \in Nat /\ BatchCount(at) <= Batch
             /\ \A p \in 0..(Batch - 1) :
                   p < BatchCount(at) <=> at + p < row_group.rows
    <2>1. BatchCount(at) = IF row_group.rows - at <= Batch
                           THEN row_group.rows - at ELSE Batch
        BY <1>1, <1>2, <1>3, MinOfTwo DEF BatchCount
    <2>2. QED
        BY <1>1, <1>2, <1>3, <1>7, <2>1
<1>8. CASE at >= row_group.rows
    <2>1. mask = {} /\ UNCHANGED <<read, first, cursor_error>>
        BY <1>1, <1>3, <1>8 DEF LoadRowMask
    <2>2. InBatch(row_group.matches, at) = {}
        BY <1>1, <1>2, <1>3, <1>8 DEF InBatch
    <2>3. QED
        BY <1>3, <1>6, <2>1, <2>2
<1>9. CASE at < row_group.rows /\ row_group.verdict = "ALL"
    <2>1. /\ mask = 0..(BatchCount(at) - 1)
          /\ UNCHANGED <<read, first, cursor_error>>
        BY <1>1, <1>3, <1>9 DEF LoadRowMask
    <2>2. InBatch(row_group.matches, at) = 0..(BatchCount(at) - 1)
        BY <1>1, <1>2, <1>3, <1>7, <1>9 DEF InBatch
    <2>3. QED
        BY <1>3, <1>6, <2>1, <2>2
<1>10. CASE at < row_group.rows /\ row_group.verdict # "ALL"
    <2>1. /\ \E cs \in SUBSET Columns : FetchBatch(cs, at)
          /\ mask = BatchMatches(at) \/ cursor_error' = TRUE
        BY <1>1, <1>3, <1>10 DEF LoadRowMask
    <2>2. PICK cs \in SUBSET Columns : FetchBatch(cs, at)
        BY <2>1
    <2>3. ColumnInv'
        BY <1>1, <1>2, <1>3, <1>5, <1>10, <2>2, FetchKeepsColumns
    <2>4. BatchMatches(at) = InBatch(row_group.matches, at)
        BY <1>1, <1>2, <1>3, <1>7, <1>10 DEF BatchMatches, InBatch
    <2>5. QED
        BY <1>3, <2>1, <2>3, <2>4
<1>11. at >= row_group.rows \/ at < row_group.rows
    BY <1>1, <1>3
<1>12. QED
    BY <1>8, <1>9, <1>10, <1>11

------------------------------------------------------------------------------
(* Each action keeps ScanInv, and is a step of RowScan or none.            *)

ScanStep == [Scan!Next]_(Scan!vars)

\* PlaceInv, in its two cases.
LEMMA PlaceIs ==
    ASSUME PlaceInv
    PROVE  /\ passed \subseteq MatchingRows
           /\ ~error /\ ~cursor_error /\ call # "count" =>
                 passed = Gone(MatchingRows, reader_position, Frontier)
           /\ ~error /\ ~cursor_error /\ call = "count" =>
                 /\ passed = {}
                 /\ count = Cardinality(Gone(MatchingRows, reader_position, Frontier))
BY DEF PlaceInv

\* The file stays as it is while it is read.
LEMMA FileStays ==
    ASSUME Fixed
    PROVE  /\ file' = file /\ match_all_rows' = match_all_rows
           /\ MatchingRows' = MatchingRows
BY DEF Fixed, MatchingRows

\* RowScan counts and bounds sets as everything else does.
LEMMA SameCardinality == \A S : Scan!Cardinality(S) = Cardinality(S)
BY DEF Scan!Cardinality, Cardinality

\* Likewise.
LEMMA SameFiniteness == \A S : Scan!IsFiniteSet(S) <=> IsFiniteSet(S)
BY DEF Scan!IsFiniteSet, IsFiniteSet

\* A step that shows nothing.
LEMMA Quiet ==
    ASSUME Fixed, passed' = passed, error' = error, answer' = answer
    PROVE  ScanStep
BY FileStays DEF ScanStep, Scan!vars

\* A fresh or freed cursor stands before the first row of its row group.
LEMMA RewoundScan ==
    ASSUME CursorRewind, row_group' = None \/ row_group' \in RowGroups
    PROVE  /\ Frontier' = 0 /\ ColumnInv' /\ ExactInv'
           /\ group_position' % Batch = 0
           /\ row_mask' \subseteq 0..(Batch - 1) /\ position' \in 0..Batch
           /\ row_mask' = {} /\ ~initialized' /\ ~cursor_error'
<1>1. /\ row_mask' = {} /\ position' = Batch
      /\ group_position' = 0 /\ initialized' = FALSE
      /\ read' = [c \in Columns |-> 0] /\ first' = [c \in Columns |-> 0]
      /\ cursor_error' = FALSE /\ Batch \in Nat \ {0}
    BY RowCursorAssumption DEF CursorRewind
<1>2. 0 % Batch = 0
    BY <1>1
<1>3. Loaded' => row_group'.rows \in Nat
    BY DEF Loaded, RowGroups
<1>4. ColumnInv'
    BY <1>1, <1>2, <1>3 DEF ColumnInv
<1>5. Frontier' = 0 /\ ExactInv'
    BY <1>1 DEF Frontier, ExactInv
<1>6. QED
    BY <1>1, <1>2, <1>4, <1>5

\* Where the cursor stays, the frontier does.
LEMMA FrontierStays ==
    ASSUME UNCHANGED cursorVars
    PROVE  /\ Frontier' = Frontier
           /\ ColumnInv => ColumnInv'
           /\ ExactInv /\ (call = "count" => call' = "count" \/ ~Loaded \/ cursor_error)
                  => ExactInv'
           /\ row_group' = row_group /\ group_position' = group_position
           /\ initialized' = initialized /\ row_mask' = row_mask
           /\ position' = position /\ cursor_error' = cursor_error
           /\ (Loaded <=> Loaded')
BY DEF cursorVars, groupCursorVars, Frontier, ColumnInv, ExactInv, Loaded

\* Beginning next is nothing the caller sees, unless the reader has failed
\* before: then it fails again.
LEMMA NextCallScans ==
    ASSUME Inv, ScanInv, NextCall
    PROVE  ScanInv' /\ ScanStep
<1>1. /\ UNCHANGED cursorVars /\ Fixed /\ reader_position' = reader_position
      /\ error' = error /\ count' = count /\ passed' = passed
      /\ call = "idle" /\ call' \in {"idle", "next"}
      /\ \/ ~error /\ call' = "next" /\ answer' = answer
         \/ error /\ call' = "idle" /\ answer' = <<"error">>
    BY DEF NextCall, Begin
<1>2. /\ file' = file /\ match_all_rows' = match_all_rows
      /\ MatchingRows' = MatchingRows
    BY <1>1, FileStays
<1>3. /\ Frontier' = Frontier /\ ColumnInv' /\ ExactInv'
      /\ row_group' = row_group /\ group_position' = group_position
      /\ initialized' = initialized /\ row_mask' = row_mask
      /\ position' = position /\ cursor_error' = cursor_error
      /\ (Loaded <=> Loaded')
    BY <1>1, FrontierStays DEF ScanInv
<1>4. ShapeInv'
    BY <1>1, <1>2, <1>3 DEF ScanInv, ShapeInv
<1>5. FlagInv'
    BY <1>1, <1>2, <1>3 DEF ScanInv, FlagInv
<1>6. PlaceInv'
    BY <1>1, <1>2, <1>3, PlaceIs DEF ScanInv, PlaceInv
<1>7. ScanStep
    <2>1. CASE answer' = answer
        BY <1>1, <2>1, Quiet
    <2>2. CASE error /\ answer' = <<"error">>
        <3>1. error' = TRUE
            BY <1>1, <2>2 DEF ScanInv, ShapeInv
        <3>2. QED
            BY <1>1, <1>2, <2>2, <3>1 DEF ScanStep, Scan!Next, Scan!Fail
    <2>3. QED
        BY <1>1, <2>1, <2>2
<1>8. QED
    BY <1>3, <1>4, <1>5, <1>6, <1>7 DEF ScanInv

\* A call that rewinds, for its own sake or to count.
LEMMA RewindScans ==
    ASSUME Inv, ScanInv, Rewound, Fixed, call' \in {"idle", "count"},
           count' = 0 \/ (count' = count /\ call' = "idle")
    PROVE  ScanInv' /\ ScanStep
<1>1. /\ CursorRewind /\ row_group' = None /\ reader_position' = 0
      /\ error' = FALSE /\ passed' = {} /\ answer' = <<"none">>
    BY DEF Rewound, CursorFree
<1>2. /\ file' = file /\ match_all_rows' = match_all_rows
      /\ MatchingRows' = MatchingRows
    BY FileStays
<1>3. /\ Frontier' = 0 /\ ColumnInv' /\ ExactInv'
      /\ group_position' % Batch = 0
      /\ row_mask' \subseteq 0..(Batch - 1) /\ position' \in 0..Batch
      /\ row_mask' = {} /\ ~initialized' /\ ~cursor_error'
    BY <1>1, RewoundScan
<1>4. file \in Files /\ Len(file) \in Nat
    BY ReaderAssumption DEF Inv, CursorTypes
<1>5. ShapeInv'
    <2>1. reader_position' \in 0..Len(file')
        BY <1>1, <1>2, <1>4
    <2>2. error' \in BOOLEAN
        BY <1>1, Zenon
    <2>3. count' \in Nat /\ call' \in {"idle", "next", "count"}
        BY DEF ScanInv, ShapeInv
    <2>4. match_all_rows' => \A i \in DOMAIN file' :
              file'[i].rows > 0 => file'[i].verdict = "ALL"
        BY <1>2 DEF ScanInv, ShapeInv
    <2>5. QED
        BY <1>3, <2>1, <2>2, <2>3, <2>4 DEF ShapeInv
<1>6. FlagInv'
    BY <1>1, <1>3 DEF FlagInv, Loaded
<1>7. Gone(MatchingRows, 0, 0) = {}
    BY <1>4, MatchingAre, GoneAtTheEnds
<1>8. call' = "count" => count' = Cardinality({})
    BY FS_EmptySet
<1>9. PlaceInv'
    BY <1>1, <1>2, <1>3, <1>7, <1>8 DEF PlaceInv
<1>10. ScanStep
    BY <1>1, <1>2 DEF ScanStep, Scan!Next, Scan!Rewind
<1>11. QED
    BY <1>3, <1>5, <1>6, <1>9, <1>10 DEF ScanInv

\* row_count answers in place, where that is the number of matching rows, or
\* rewinds and begins to count.
LEMMA RowCountCallScans ==
    ASSUME Inv, ScanInv, RowCountCall
    PROVE  ScanInv' /\ ScanStep
<1>1. CASE /\ match_all_rows \/ TotalRowCount = 0
           /\ Begin("idle") /\ answer' = <<"count", TotalRowCount>>
           /\ UNCHANGED <<cursorVars, reader_position, error, count, passed>>
           /\ Fixed
    <2>1. /\ UNCHANGED cursorVars /\ Fixed /\ reader_position' = reader_position
          /\ error' = error /\ count' = count /\ passed' = passed
          /\ call = "idle" /\ call' = "idle"
        BY <1>1 DEF Begin
    <2>2. /\ file' = file /\ match_all_rows' = match_all_rows
          /\ MatchingRows' = MatchingRows
        BY <2>1, FileStays
    <2>3. /\ Frontier' = Frontier /\ ColumnInv' /\ ExactInv'
          /\ row_group' = row_group /\ group_position' = group_position
          /\ initialized' = initialized /\ row_mask' = row_mask
          /\ position' = position /\ cursor_error' = cursor_error
          /\ (Loaded <=> Loaded')
        BY <2>1, FrontierStays DEF ScanInv
    <2>4. ShapeInv' /\ FlagInv'
        BY <2>1, <2>2, <2>3 DEF ScanInv, ShapeInv, FlagInv
    <2>5. PlaceInv'
        BY <2>1, <2>2, <2>3, PlaceIs DEF ScanInv, PlaceInv
    <2>6. TotalRowCount = Cardinality(MatchingRows)
        <3>1. file \in Files
            BY DEF Inv, CursorTypes
        <3>2. CASE match_all_rows
            BY <3>1, <3>2, FiniteFile DEF ScanInv, ShapeInv
        <3>3. CASE TotalRowCount = 0
            BY <3>1, <3>3, FiniteFile, FS_EmptySet
        <3>4. QED
            BY <1>1, <3>2, <3>3
    <2>7. ScanStep
        <3>1. answer' = <<"count", Cardinality(MatchingRows)>>
            BY <1>1, <2>6
        <3>2. Scan!Count
            BY <2>1, <2>2, <3>1, SameCardinality DEF Scan!Count
        <3>3. QED
            BY <3>2 DEF ScanStep, Scan!Next
    <2>8. QED
        BY <2>3, <2>4, <2>5, <2>7 DEF ScanInv
<1>2. CASE Begin("count") /\ Rewound /\ count' = 0 /\ Fixed
    BY <1>2, RewindScans DEF Begin
<1>3. QED
    BY <1>1, <1>2 DEF RowCountCall

\* Reading a value moves columns and nothing else.
LEMMA GetScans ==
    ASSUME Inv, ScanInv, NEW c \in Columns, Get(c)
    PROVE  ScanInv' /\ ScanStep
<1>1. /\ call = "idle" /\ call' = call /\ (Loaded => row_mask # {})
      /\ row_group' = row_group /\ group_position' = group_position
      /\ initialized' = initialized /\ row_mask' = row_mask
      /\ position' = position /\ cursor_error' = cursor_error
      /\ reader_position' = reader_position /\ error' = error
      /\ count' = count /\ answer' = answer /\ passed' = passed /\ Fixed
    BY DEF Get
<1>2. /\ file' = file /\ match_all_rows' = match_all_rows
      /\ MatchingRows' = MatchingRows
    BY <1>1, FileStays
<1>3. Frontier' = Frontier /\ (Loaded <=> Loaded')
    BY <1>1 DEF Frontier, Loaded
<1>4. ShapeInv' /\ FlagInv'
    BY <1>1, <1>2, <1>3 DEF ScanInv, ShapeInv, FlagInv
<1>5. ExactInv'
    BY <1>1, <1>3 DEF ScanInv, ExactInv
<1>6. PlaceInv'
    BY <1>1, <1>2, <1>3, PlaceIs DEF ScanInv, PlaceInv
<1>7. ColumnInv'
    <2>1. CASE Loaded /\ GetValue(c, value')
        <3>1. /\ row_group \in RowGroups /\ group_position \in Nat /\ CursorTypes
              /\ group_position < row_group.rows
            BY <1>1, <2>1 DEF Inv, CursorTypes, MaskInv, Loaded
        <3>2. \A d \in Columns : /\ read[d] <= group_position + Batch
                                 /\ AtBatch(d, group_position)
            BY <2>1 DEF Inv, BatchInv
        <3>3. FetchBatch({c}, group_position) /\ group_position % Batch = 0
            BY <2>1 DEF GetValue, ScanInv, ShapeInv
        <3>4. ColumnInv /\ {c} \in SUBSET Columns
            BY DEF ScanInv
        <3>5. QED
            BY <1>1, <2>1, <3>1, <3>2, <3>3, <3>4, FetchKeepsColumns
    <2>2. CASE UNCHANGED <<read, first>>
        BY <1>1, <1>3, <2>2 DEF ScanInv, ColumnInv
    <2>3. QED
        BY <2>1, <2>2 DEF Get
<1>8. ScanStep
    BY <1>1, Quiet
<1>9. QED
    BY <1>4, <1>5, <1>6, <1>7, <1>8 DEF ScanInv

\* A step at which a call gives up, whatever it was at.
LEMMA FailScans ==
    ASSUME Inv, ScanInv, UNCHANGED cursorVars, Fixed, call # "idle",
           error' = TRUE, Return(<<"error">>),
           UNCHANGED <<reader_position, count, passed>>,
           call = "count" => ~Loaded \/ cursor_error
    PROVE  ScanInv' /\ ScanStep
<1>1. /\ file' = file /\ match_all_rows' = match_all_rows
      /\ MatchingRows' = MatchingRows /\ call' = "idle"
    BY FileStays DEF Return
<1>2. /\ Frontier' = Frontier /\ ColumnInv' /\ ExactInv'
      /\ row_group' = row_group /\ group_position' = group_position
      /\ initialized' = initialized /\ row_mask' = row_mask
      /\ position' = position /\ cursor_error' = cursor_error
      /\ (Loaded <=> Loaded')
    BY FrontierStays DEF ScanInv
<1>3. ShapeInv'
    <2>1. error' \in BOOLEAN
        BY Zenon
    <2>2. QED
        BY <1>1, <1>2, <2>1 DEF ScanInv, ShapeInv
<1>4. FlagInv'
    BY <1>1, <1>2 DEF ScanInv, FlagInv
<1>5. PlaceInv'
    BY <1>1, <1>2 DEF ScanInv, PlaceInv
<1>6. ScanStep
    BY <1>1 DEF ScanStep, Scan!Next, Scan!Fail, Return
<1>7. QED
    BY <1>2, <1>3, <1>4, <1>5, <1>6 DEF ScanInv

\* Opening a row group leaves the reader before its first row.
LEMMA LoadCursorScans ==
    ASSUME Inv, ScanInv, LoadCursor
    PROVE  ScanInv' /\ ScanStep
<1>1. /\ call # "idle" /\ ReaderValid /\ ~Loaded /\ Fixed
      /\ reader_position' = reader_position
      /\ count' = count /\ passed' = passed
    BY DEF LoadCursor, InLoop
<1>2. CASE /\ CursorNew(file[reader_position + 1])
           /\ UNCHANGED <<error, call, answer>>
    <2>1. /\ file' = file /\ match_all_rows' = match_all_rows
          /\ MatchingRows' = MatchingRows
        BY <1>1, FileStays
    <2>2. /\ file \in Files /\ reader_position \in 0..(Len(file) - 1)
        BY <1>1, ReaderAssumption
           DEF Inv, CursorTypes, ScanInv, ShapeInv, ReaderValid
    <2>3. /\ row_group' = file[reader_position + 1] /\ row_group' \in RowGroups
          /\ CursorRewind
        BY <1>2, <2>2, GroupTypes DEF CursorNew
    <2>4. /\ Frontier' = 0 /\ ColumnInv' /\ ExactInv'
          /\ group_position' % Batch = 0
          /\ row_mask' \subseteq 0..(Batch - 1) /\ position' \in 0..Batch
          /\ row_mask' = {} /\ ~initialized' /\ ~cursor_error'
        BY <2>3, RewoundScan
    <2>5. Frontier = 0 /\ ~error /\ ~cursor_error
        BY <1>1 DEF Frontier, ScanInv, FlagInv
    <2>6. ShapeInv'
        BY <1>1, <1>2, <2>1, <2>4 DEF ScanInv, ShapeInv
    <2>7. FlagInv'
        BY <1>1, <1>2, <2>1, <2>3, <2>4, <2>5 DEF FlagInv
    <2>8. PlaceInv'
        BY <1>1, <1>2, <2>1, <2>4, <2>5, PlaceIs DEF ScanInv, PlaceInv
    <2>9. ScanStep
        BY <1>1, <1>2, Quiet
    <2>10. QED
        BY <2>4, <2>6, <2>7, <2>8, <2>9 DEF ScanInv
<1>3. CASE error' = TRUE /\ Return(<<"error">>) /\ UNCHANGED cursorVars
    BY <1>1, <1>3, FailScans
<1>4. QED
    BY <1>2, <1>3 DEF LoadCursor

\* The row at which next stops is the first that remains.
LEMMA NextRowTaken ==
    ASSUME Inv, ScanInv, Fixed, ~error, error' = error,
           reader_position' = reader_position,
           NEW n \in Nat, passed = Gone(MatchingRows, reader_position, n),
           NEW r \in RowsIn(MatchingRows, reader_position), n <= r,
           NoneBetween(MatchingRows, reader_position, n, r),
           passed' = passed \cup {<<reader_position, r>>},
           answer' = <<"row", <<reader_position, r>>>>
    PROVE  /\ ScanStep
           /\ passed' = Gone(MatchingRows, reader_position, r + 1)
           /\ passed' \subseteq MatchingRows
<1> DEFINE x == <<reader_position, r>>
<1>1. /\ MatchingRows' = MatchingRows /\ Pairs(MatchingRows)
      /\ reader_position \in Nat /\ r \in Nat
    BY FileStays, MatchingAre DEF Inv, CursorTypes, RowsIn
<1>2. PICK g, m : g = reader_position /\ g \in Nat /\ m = MatchingRows
    BY <1>1
<1>3. /\ <<g, r>> \in m \ Gone(m, g, n)
      /\ Gone(m, g, r + 1) = Gone(m, g, n) \cup {<<g, r>>}
      /\ \A y \in (m \ Gone(m, g, n)) \ {<<g, r>>} :
            g < y[1] \/ (g = y[1] /\ r < y[2])
    BY <1>1, <1>2, GoneStep
<1>4. /\ x \in MatchingRows \ passed
      /\ \A y \in (MatchingRows \ passed) \ {x} :
            x[1] < y[1] \/ (x[1] = y[1] /\ x[2] < y[2])
    BY <1>2, <1>3
<1>5. Scan!NextRow
    BY <1>1, <1>4 DEF Scan!NextRow, Scan!Remaining, Scan!Before
<1>6. ScanStep
    BY <1>5 DEF ScanStep, Scan!Next
<1>7. QED
    BY <1>2, <1>3, <1>6 DEF Gone

\* Going on in a batch hands out its next match.
LEMMA StepInBatchScans ==
    ASSUME Inv, ScanInv, StepInBatch
    PROVE  ScanInv' /\ ScanStep
<1> DEFINE p == Min(Ahead)
           r == group_position + p
<1>1. /\ call = "next" /\ Loaded /\ Ahead # {} /\ Fixed
      /\ row_group' = row_group /\ group_position' = group_position
      /\ initialized' = initialized /\ read' = read /\ first' = first
      /\ row_mask' = row_mask /\ cursor_error' = cursor_error
      /\ reader_position' = reader_position /\ error' = error /\ count' = count
      /\ position' = p /\ call' = "idle"
      /\ answer' = <<"row", <<reader_position, r>>>>
      /\ passed' = passed \cup {<<reader_position, r>>}
    BY DEF StepInBatch, InLoop, Yield, Return, groupCursorVars
<1>2. /\ file' = file /\ match_all_rows' = match_all_rows
      /\ MatchingRows' = MatchingRows
    BY <1>1, FileStays
<1>3. /\ row_mask # {} /\ Ahead \subseteq row_mask
      /\ initialized /\ ~cursor_error /\ ~error
    BY <1>1 DEF Ahead, Inv, MaskInv, CallInv, ScanInv, FlagInv
<1>4. /\ row_mask = InBatch(row_group.matches, group_position)
      /\ row_mask \subseteq 0..(Batch - 1) /\ position \in Nat
      /\ group_position \in Nat /\ Batch \in Nat \ {0}
    BY <1>1, <1>3, RowCursorAssumption
       DEF ScanInv, ExactInv, ShapeInv, Inv, CursorTypes
<1>5. /\ p \in Ahead /\ \A q \in Ahead : p <= q
    BY <1>1, <1>3, <1>4, MinOfMask
<1> HIDE DEF p
<1>6. p \in row_mask /\ p \in 0..(Batch - 1) /\ p > position
    BY <1>3, <1>4, <1>5 DEF Ahead
<1>7. Frontier = group_position + position + 1
    BY <1>1, <1>3 DEF Frontier
<1>8. RowsIn(MatchingRows, reader_position) = row_group.matches
    BY <1>1, LoadedIs DEF ScanInv
<1>9. r \in row_group.matches
    BY <1>4, <1>6 DEF InBatch
<1>10. NoneBetween(MatchingRows, reader_position, Frontier, r)
    <2>1. ASSUME NEW q \in row_group.matches, Frontier <= q, q < r
          PROVE  FALSE
        <3>1. q \in Nat
            BY <1>1, LoadedIs DEF ScanInv
        <3>2. q - group_position \in 0..(Batch - 1)
              /\ group_position + (q - group_position) = q
            BY <1>4, <1>6, <1>7, <2>1, <3>1
        <3>3. q - group_position \in row_mask
            BY <1>4, <3>2 DEF InBatch
        <3>4. q - group_position > position
            BY <1>4, <1>7, <2>1, <3>1
        <3>5. q - group_position \in Ahead
            BY <3>3, <3>4 DEF Ahead
        <3>6. p <= q - group_position
            BY <1>5, <3>5
        <3>7. QED
            BY <1>4, <1>6, <2>1, <3>1, <3>6
    <2>2. QED
        BY <1>8, <2>1 DEF NoneBetween
<1>11. passed = Gone(MatchingRows, reader_position, Frontier)
    BY <1>1, <1>3, PlaceIs DEF ScanInv
<1>12. /\ ScanStep
       /\ passed' = Gone(MatchingRows, reader_position, r + 1)
       /\ passed' \subseteq MatchingRows
    <2>1. Frontier \in Nat /\ Frontier <= r
        BY <1>4, <1>6, <1>7
    <2>2. PICK n \in Nat : n = Frontier
        BY <2>1
    <2>3. r \in RowsIn(MatchingRows, reader_position)
        BY <1>8, <1>9
    <2> HIDE DEF r
    <2>4. QED
        BY <1>1, <1>3, <1>10, <1>11, <2>1, <2>2, <2>3, NextRowTaken
<1>13. Frontier' = r + 1 /\ Loaded'
    BY <1>1, <1>3, <1>4, <1>6 DEF Frontier, Loaded
<1>14. PlaceInv'
    BY <1>1, <1>2, <1>12, <1>13 DEF PlaceInv
<1>15. ShapeInv'
    BY <1>1, <1>2, <1>4, <1>6 DEF ScanInv, ShapeInv
<1>16. FlagInv'
    BY <1>1, <1>2, <1>3, <1>13 DEF ScanInv, FlagInv
<1>17. ExactInv' /\ ColumnInv'
    BY <1>1, <1>4, <1>13 DEF ScanInv, ExactInv, ColumnInv
<1>18. QED
    BY <1>12, <1>14, <1>15, <1>16, <1>17 DEF ScanInv

\* Between what has been decided on and the next batch nothing matches.
LEMMA ToTheNextBatch ==
    ASSUME Inv, ScanInv, Loaded, ~error, ~cursor_error, Ahead = {}
    PROVE  /\ Frontier \in Nat /\ GroupPositionNext \in Nat
           /\ Gone(MatchingRows, reader_position, GroupPositionNext) =
                  Gone(MatchingRows, reader_position, Frontier)
<1> DEFINE at == GroupPositionNext
<1>1. /\ group_position \in Nat /\ position \in Nat /\ Batch \in Nat \ {0}
      /\ reader_position \in Nat /\ file \in Files /\ initialized \in BOOLEAN
    BY RowCursorAssumption DEF Inv, CursorTypes
<1>2. /\ Frontier \in Nat /\ at \in Nat /\ Frontier <= at
      /\ Frontier # at => /\ row_mask # {} /\ initialized
                          /\ Frontier = group_position + position + 1
                          /\ at = group_position + Batch
    <2>1. CASE ~initialized
        BY <1>1, <2>1 DEF Frontier, GroupPositionNext
    <2>2. CASE initialized /\ row_mask = {}
        BY <1>1, <2>2 DEF Frontier, GroupPositionNext
    <2>3. CASE initialized /\ row_mask # {}
        <3>1. position < Batch
            BY <2>3 DEF ScanInv, ShapeInv
        <3>2. QED
            BY <1>1, <2>3, <3>1 DEF Frontier, GroupPositionNext
    <2>4. QED
        BY <2>1, <2>2, <2>3
<1>3. /\ RowsIn(MatchingRows, reader_position) = row_group.matches
      /\ row_group.matches \in SUBSET Nat
    BY LoadedIs DEF ScanInv
<1>4. ASSUME NEW q \in row_group.matches, Frontier <= q, q < at
      PROVE  FALSE
    <2>1. /\ row_mask # {} /\ initialized
          /\ Frontier = group_position + position + 1
          /\ at = group_position + Batch /\ q \in Nat
        BY <1>2, <1>3, <1>4
    <2>2. call # "count"
        BY <2>1 DEF Inv, CallInv
    <2>3. row_mask = InBatch(row_group.matches, group_position)
        BY <2>1, <2>2 DEF ScanInv, ExactInv
    <2>4. q - group_position \in 0..(Batch - 1)
          /\ group_position + (q - group_position) = q
        BY <1>1, <1>4, <2>1
    <2>5. q - group_position \in row_mask
        BY <1>4, <2>3, <2>4 DEF InBatch
    <2>6. q - group_position > position
        BY <1>1, <1>4, <2>1
    <2>7. QED
        BY <2>5, <2>6 DEF Ahead
<1>5. NoneBetween(MatchingRows, reader_position, Frontier, at)
    BY <1>3, <1>4 DEF NoneBetween
<1>6. PICK n, n2 : n = Frontier /\ n2 = at /\ n \in Nat /\ n2 \in Nat /\ n <= n2
    BY <1>2
<1>7. Pairs(MatchingRows)
    BY <1>1, MatchingAre
<1>8. PICK m, g : m = MatchingRows /\ g = reader_position
    OBVIOUS
<1>9. Gone(m, g, n2) = Gone(m, g, n)
    BY <1>1, <1>5, <1>6, <1>7, <1>8, GoneSame
<1>10. QED
    BY <1>2, <1>6, <1>8, <1>9

\* Going on to the next batch hands out its first match, or nothing if it has
\* none.
LEMMA StepToBatchScans ==
    ASSUME Inv, ScanInv, StepToBatch
    PROVE  ScanInv' /\ ScanStep
<1> DEFINE at == GroupPositionNext
<1>1. /\ call = "next" /\ Loaded /\ Ahead = {} /\ Fixed
      /\ row_group' = row_group
      /\ reader_position' = reader_position /\ error' = error /\ count' = count
    BY DEF StepToBatch, InLoop
<1>2. PICK mask \in SUBSET (0..(Batch - 1)) :
        /\ LoadRowMask(mask)
        /\ row_mask' = mask
        /\ \/ mask # {} /\ Yield(GroupPositionNext, Min(mask))
           \/ mask = {} /\ UNCHANGED <<position, call, answer, passed>>
    BY DEF StepToBatch
<1>3. /\ file' = file /\ match_all_rows' = match_all_rows
      /\ MatchingRows' = MatchingRows
    BY <1>1, FileStays
<1>4. ~cursor_error /\ ~error
    BY <1>1, <1>2 DEF LoadRowMask, ScanInv, FlagInv
<1>5. /\ group_position' = at /\ initialized' = TRUE
      /\ mask # {} => cursor_error' = FALSE
      /\ cursor_error' \in BOOLEAN
    BY <1>1, <1>2, LoadIsSafe
<1>6. /\ ColumnInv' /\ group_position' % Batch = 0
      /\ ~cursor_error' => mask = InBatch(row_group.matches, at)
    BY <1>1, <1>2, LoadIsExact DEF ScanInv
<1>7. /\ at \in Nat
      /\ passed = Gone(MatchingRows, reader_position, at)
    BY <1>1, <1>4, ToTheNextBatch, PlaceIs DEF ScanInv
<1>8. /\ RowsIn(MatchingRows, reader_position) = row_group.matches
      /\ row_group.matches \in SUBSET Nat
    BY <1>1, LoadedIs DEF ScanInv
<1>9. Batch \in Nat \ {0} /\ (Loaded <=> Loaded')
    BY <1>1, RowCursorAssumption DEF Loaded
<1>10. ExactInv'
    BY <1>1, <1>2, <1>5, <1>6 DEF ExactInv
<1>11. CASE mask # {}
    <2> DEFINE p == Min(mask)
               r == at + p
    <2>1. /\ position' = p /\ call' = "idle"
          /\ answer' = <<"row", <<reader_position, r>>>>
          /\ passed' = passed \cup {<<reader_position, r>>}
        BY <1>2, <1>11 DEF Yield, Return
    <2>2. mask \in SUBSET Nat
        BY <1>2, <1>9
    <2>3. p \in mask /\ \A q \in mask : p <= q
        BY <1>11, <2>2, MinOfMask
    <2> HIDE DEF p
    <2>4. p \in 0..(Batch - 1) /\ r \in row_group.matches
        BY <1>2, <1>5, <1>6, <1>11, <2>3 DEF InBatch
    <2>5. NoneBetween(MatchingRows, reader_position, at, r)
        <3>1. ASSUME NEW q \in row_group.matches, at <= q, q < r PROVE FALSE
            <4>1. q \in Nat
                BY <1>8
            <4>2. q - at \in 0..(Batch - 1) /\ at + (q - at) = q /\ q - at < p
                BY <1>7, <1>9, <2>4, <3>1, <4>1
            <4>3. q - at \in mask
                BY <1>5, <1>6, <1>11, <4>2 DEF InBatch
            <4>4. QED
                BY <2>3, <2>4, <4>2, <4>3
        <3>2. QED
            BY <1>8, <3>1 DEF NoneBetween
    <2>6. /\ ScanStep
          /\ passed' = Gone(MatchingRows, reader_position, r + 1)
          /\ passed' \subseteq MatchingRows
        <3>1. r \in RowsIn(MatchingRows, reader_position) /\ at <= r
            BY <1>7, <1>8, <2>4
        <3>2. PICK n \in Nat : n = at
            BY <1>7
        <3> HIDE DEF r, at
        <3>3. QED
            BY <1>1, <1>4, <1>7, <2>1, <2>5, <3>1, <3>2, NextRowTaken
    <2>7. Frontier' = r + 1
        BY <1>1, <1>2, <1>5, <1>9, <1>11, <2>1 DEF Frontier
    <2>8. PlaceInv'
        BY <1>1, <1>3, <2>1, <2>6, <2>7 DEF PlaceInv
    <2>9. ShapeInv'
        BY <1>1, <1>2, <1>3, <1>6, <1>9, <2>1, <2>4 DEF ScanInv, ShapeInv
    <2>10. FlagInv'
        BY <1>1, <1>3, <1>4, <1>5, <1>11, <2>1 DEF ScanInv, FlagInv, Loaded
    <2>11. QED
        BY <1>6, <1>10, <2>6, <2>8, <2>9, <2>10 DEF ScanInv
<1>12. CASE mask = {}
    <2>1. /\ position' = position /\ call' = call /\ answer' = answer
          /\ passed' = passed
        BY <1>2, <1>12
    <2>2. ~cursor_error' =>
              passed' = Gone(MatchingRows, reader_position, Frontier')
        <3>1. SUFFICES ASSUME ~cursor_error'
                       PROVE  passed' = Gone(MatchingRows, reader_position, Frontier')
            OBVIOUS
        <3>2. Frontier' = at + Batch
            BY <1>1, <1>2, <1>5, <1>9, <1>12 DEF Frontier
        <3>3. ASSUME NEW q \in row_group.matches, at <= q, q < at + Batch
              PROVE  FALSE
            <4>1. q - at \in 0..(Batch - 1) /\ at + (q - at) = q
                BY <1>7, <1>8, <1>9, <3>3
            <4>2. q - at \in InBatch(row_group.matches, at)
                BY <4>1 DEF InBatch
            <4>3. QED
                BY <1>6, <1>12, <3>1, <4>2
        <3>4. NoneBetween(MatchingRows, reader_position, at, at + Batch)
            BY <1>8, <3>3 DEF NoneBetween
        <3>5. PICK m, g, n : /\ m = MatchingRows /\ g = reader_position /\ n = at
                             /\ Pairs(m) /\ g \in Nat /\ n \in Nat
            BY <1>7, MatchingAre DEF Inv, CursorTypes
        <3>6. n + Batch \in Nat /\ n <= n + Batch
            BY <1>9, <3>5
        <3>7. Gone(m, g, n + Batch) = Gone(m, g, n)
            BY <3>4, <3>5, <3>6, GoneSame
        <3>8. QED
            BY <1>7, <2>1, <3>2, <3>5, <3>7
    <2>3. PlaceInv'
        BY <1>1, <1>3, <1>4, <2>1, <2>2 DEF PlaceInv, ScanInv
    <2>4. ShapeInv'
        BY <1>1, <1>2, <1>3, <1>6, <1>12, <2>1 DEF ScanInv, ShapeInv
    <2>5. FlagInv'
        BY <1>1, <1>3, <1>4, <1>5, <1>9, <2>1 DEF ScanInv, FlagInv
    <2>6. ScanStep
        BY <1>1, <2>1, Quiet
    <2>7. QED
        BY <1>6, <1>10, <2>3, <2>4, <2>5, <2>6 DEF ScanInv
<1>13. QED
    BY <1>11, <1>12

\* Counting a batch adds its matches.
LEMMA CountBatchScans ==
    ASSUME Inv, ScanInv, CountBatch
    PROVE  ScanInv' /\ ScanStep
<1> DEFINE at == GroupPositionNext
<1>1. /\ call = "count" /\ Loaded /\ row_group.verdict = "UNKNOWN" /\ Fixed
      /\ row_group' = row_group /\ row_mask' = row_mask
      /\ position' = position /\ reader_position' = reader_position
      /\ error' = error /\ call' = call /\ answer' = answer /\ passed' = passed
    BY DEF CountBatch, InLoop
<1>2. PICK mask \in SUBSET (0..(Batch - 1)) :
          LoadRowMask(mask) /\ count' = count + Cardinality(mask)
    BY DEF CountBatch
<1>3. /\ file' = file /\ match_all_rows' = match_all_rows
      /\ MatchingRows' = MatchingRows
    BY <1>1, FileStays
<1>4. ~cursor_error /\ ~error /\ row_mask = {} /\ Ahead = {}
    BY <1>1, <1>2 DEF LoadRowMask, ScanInv, FlagInv, Inv, CallInv, Ahead
<1>5. /\ group_position' = at /\ initialized' = TRUE
      /\ cursor_error' \in BOOLEAN
    BY <1>1, <1>2, LoadIsSafe
<1>6. /\ ColumnInv' /\ group_position' % Batch = 0
      /\ ~cursor_error' => mask = InBatch(row_group.matches, at)
    BY <1>1, <1>2, LoadIsExact DEF ScanInv
<1>7. /\ at \in Nat /\ passed = {}
      /\ count = Cardinality(Gone(MatchingRows, reader_position, at))
    BY <1>1, <1>4, ToTheNextBatch, PlaceIs DEF ScanInv
<1>8. /\ RowsIn(MatchingRows, reader_position) = row_group.matches
      /\ Batch \in Nat \ {0} /\ (Loaded <=> Loaded')
    BY <1>1, LoadedIs, RowCursorAssumption DEF ScanInv, Loaded
<1>9. Cardinality(mask) \in Nat
    BY <1>2, <1>8, RowsFinite, FS_Subset, FS_CardinalityType
<1>10. Frontier' = at + Batch
    BY <1>1, <1>4, <1>5, <1>8 DEF Frontier
<1>11. ~cursor_error' =>
           count' = Cardinality(Gone(MatchingRows, reader_position, at + Batch))
    <2>1. PICK m, g, n : /\ m = MatchingRows /\ g = reader_position /\ n = at
                         /\ Pairs(m) /\ IsFiniteSet(m) /\ g \in Nat /\ n \in Nat
        BY <1>7, MatchingAre, FiniteFile DEF Inv, CursorTypes
    <2>2. Cardinality(Gone(m, g, n + Batch)) =
              Cardinality(Gone(m, g, n)) + Cardinality(InBatch(RowsIn(m, g), n))
        BY <2>1, GoneBatch
    <2>3. QED
        BY <1>2, <1>6, <1>7, <1>8, <2>1, <2>2
<1>12. PlaceInv'
    BY <1>1, <1>3, <1>7, <1>10, <1>11 DEF PlaceInv, ScanInv
<1>13. ShapeInv'
    BY <1>1, <1>2, <1>3, <1>4, <1>6, <1>9 DEF ScanInv, ShapeInv
<1>14. FlagInv'
    BY <1>1, <1>3, <1>4, <1>5, <1>8 DEF ScanInv, FlagInv
<1>15. ExactInv'
    BY <1>1 DEF ExactInv
<1>16. ScanStep
    BY <1>1, Quiet
<1>17. QED
    BY <1>6, <1>12, <1>13, <1>14, <1>15, <1>16 DEF ScanInv

\* On to the next row group, with what this one had to give.
LEMMA AdvanceScans ==
    ASSUME Inv, ScanInv, Advance, Fixed, ReaderValid, call # "idle",
           UNCHANGED <<error, call, answer, passed>>, count' \in Nat,
           call = "count" =>
               /\ passed = {}
               /\ count' = Cardinality(Gone(MatchingRows, reader_position + 1, 0)),
           call # "count" => passed = Gone(MatchingRows, reader_position + 1, 0)
    PROVE  ScanInv' /\ ScanStep
<1>1. /\ row_group' = None /\ CursorRewind
      /\ reader_position' = reader_position + 1
    BY DEF Advance, CursorFree
<1>2. /\ file' = file /\ match_all_rows' = match_all_rows
      /\ MatchingRows' = MatchingRows
    BY FileStays
<1>3. /\ Frontier' = 0 /\ ColumnInv' /\ ExactInv'
      /\ group_position' % Batch = 0
      /\ row_mask' \subseteq 0..(Batch - 1) /\ position' \in 0..Batch
      /\ row_mask' = {} /\ ~initialized' /\ ~cursor_error'
    BY <1>1, RewoundScan
<1>4. reader_position' \in 0..Len(file')
    <2>1. file \in Files /\ reader_position \in Nat /\ reader_position < Len(file)
        BY DEF Inv, CursorTypes, ReaderValid
    <2>2. Len(file) \in Nat
        BY <2>1, ReaderAssumption
    <2>3. QED
        BY <1>1, <1>2, <2>1, <2>2
<1>5. ShapeInv'
    BY <1>2, <1>3, <1>4 DEF ScanInv, ShapeInv
<1>6. FlagInv'
    BY <1>1, <1>3 DEF ScanInv, FlagInv, Loaded
<1>7. PlaceInv'
    BY <1>1, <1>2, <1>3 DEF ScanInv, PlaceInv
<1>8. ScanStep
    BY Quiet
<1>9. QED
    BY <1>3, <1>5, <1>6, <1>7, <1>8 DEF ScanInv

\* A row group counted by its index adds all its rows, or none, and those are
\* its matches.
LEMMA CountByIndexScans ==
    ASSUME Inv, ScanInv, CountByIndex
    PROVE  ScanInv' /\ ScanStep
<1> DEFINE n == IF row_group.verdict = "ALL" THEN row_group.rows ELSE 0
<1>1. /\ call = "count" /\ Loaded /\ ReaderValid
      /\ row_group.verdict # "UNKNOWN" /\ Fixed /\ Advance
      /\ count' = count + n
      /\ UNCHANGED <<error, call, answer, passed>>
    BY DEF CountByIndex, InLoop
<1>2. ~initialized /\ ~cursor_error /\ ~error /\ Frontier = 0
    BY <1>1 DEF ScanInv, FlagInv, Frontier
<1>3. /\ passed = {}
      /\ count = Cardinality(Gone(MatchingRows, reader_position, 0))
    BY <1>1, <1>2, PlaceIs DEF ScanInv
<1>4. /\ row_group \in RowGroups /\ row_group.rows \in Nat
      /\ IsFiniteSet(row_group.matches)
      /\ RowsIn(MatchingRows, reader_position) = row_group.matches
    BY <1>1, LoadedIs DEF ScanInv
<1>5. Cardinality(row_group.matches) = n
    <2>1. CASE row_group.verdict = "ALL"
        BY <1>4, <2>1, RowsFinite DEF RowGroups
    <2>2. CASE row_group.verdict # "ALL"
        <3>1. row_group.matches = {}
            BY <1>1, <1>4, <2>2 DEF RowGroups
        <3>2. QED
            BY <2>2, <3>1, FS_EmptySet
    <2>3. QED
        BY <2>1, <2>2
<1>6. Cardinality(Gone(MatchingRows, reader_position + 1, 0)) = count + n
    <2>1. PICK m, g : /\ m = MatchingRows /\ g = reader_position
                      /\ Pairs(m) /\ IsFiniteSet(m) /\ g \in Nat
                      /\ IsFiniteSet(RowsIn(m, g))
        BY <1>4, MatchingAre, FiniteFile DEF Inv, CursorTypes
    <2>2. Cardinality(Gone(m, g + 1, 0)) =
              Cardinality(Gone(m, g, 0)) + Cardinality(RowsIn(m, g))
        BY <2>1, GoneWhole
    <2>3. QED
        BY <1>3, <1>4, <1>5, <2>1, <2>2
<1>7. count' \in Nat
    BY <1>1, <1>4 DEF ScanInv, ShapeInv
<1>8. QED
    BY <1>1, <1>3, <1>6, <1>7, AdvanceScans

\* A row group that has run out of batches has nothing left to hand out.
LEMMA NextGroupScans ==
    ASSUME Inv, ScanInv, NextGroup
    PROVE  ScanInv' /\ ScanStep
<1>1. /\ call # "idle" /\ Loaded /\ ReaderValid /\ ~cursor_error
      /\ initialized /\ group_position >= row_group.rows /\ Fixed /\ Advance
      /\ UNCHANGED <<error, call, count, answer, passed>>
    BY DEF NextGroup, InLoop, GroupExhausted
<1>2. /\ row_group.rows \in Nat /\ row_group.matches \in SUBSET Nat
      /\ row_group.matches \subseteq 0..(row_group.rows - 1)
      /\ RowsIn(MatchingRows, reader_position) = row_group.matches
    BY <1>1, LoadedIs DEF ScanInv
<1>3. group_position \in Nat /\ Batch \in Nat \ {0}
    BY RowCursorAssumption DEF Inv, CursorTypes
<1>4. row_mask = {}
    BY <1>1, <1>2, <1>3 DEF Inv, MaskInv
<1>5. Frontier = group_position + Batch /\ Frontier \in Nat
    BY <1>1, <1>3, <1>4 DEF Frontier
<1>6. \A r \in row_group.matches : r < Frontier
    BY <1>1, <1>2, <1>3, <1>5
<1>7. Gone(MatchingRows, reader_position + 1, 0) =
          Gone(MatchingRows, reader_position, Frontier)
    <2>1. PICK m, g, n : /\ m = MatchingRows /\ g = reader_position
                         /\ n = Frontier /\ Pairs(m) /\ g \in Nat /\ n \in Nat
        BY <1>5, MatchingAre DEF Inv, CursorTypes
    <2>2. \A r \in RowsIn(m, g) : r < n
        BY <1>2, <1>6, <2>1
    <2>3. Gone(m, g + 1, 0) = Gone(m, g, n)
        BY <2>1, <2>2, GoneGroup
    <2>4. QED
        BY <2>1, <2>3
<1>8. ~error /\ count' \in Nat
    BY <1>1 DEF ScanInv, FlagInv, ShapeInv
<1>9. QED
    BY <1>1, <1>7, <1>8, PlaceIs, AdvanceScans DEF ScanInv

\* Past the last row group everything has been handed out, or counted.
LEMMA FinishScans ==
    ASSUME Inv, ScanInv, Finish
    PROVE  ScanInv' /\ ScanStep
<1>1. /\ call # "idle" /\ ~ReaderValid /\ call' = "idle" /\ Fixed
      /\ UNCHANGED cursorVars /\ reader_position' = reader_position
      /\ error' = error /\ count' = count
      /\ \/ call = "next" /\ answer' = <<"end">> /\ passed' = passed
         \/ /\ call = "count" /\ answer' = <<"count", count>>
            /\ passed' = MatchingRows
    BY DEF Finish, Return
<1>2. /\ file' = file /\ match_all_rows' = match_all_rows
      /\ MatchingRows' = MatchingRows
    BY <1>1, FileStays
<1>3. ~Loaded /\ ~cursor_error /\ ~error /\ Frontier = 0
    BY <1>1 DEF Inv, CallInv, ScanInv, FlagInv, Frontier
<1>4. /\ Frontier' = Frontier /\ ColumnInv' /\ ExactInv'
      /\ row_group' = row_group /\ group_position' = group_position
      /\ initialized' = initialized /\ row_mask' = row_mask
      /\ position' = position /\ cursor_error' = cursor_error
      /\ (Loaded <=> Loaded')
    BY <1>1, <1>3, FrontierStays DEF ScanInv
<1>5. Gone(MatchingRows, reader_position, 0) = MatchingRows
    <2>1. PICK m, g : /\ m = MatchingRows /\ g = reader_position
                      /\ Pairs(m) /\ g \in Nat /\ file \in Files
                      /\ \A x \in m : x[1] < Len(file)
        BY MatchingAre DEF Inv, CursorTypes
    <2>2. Len(file) \in Nat /\ g >= Len(file)
        BY <1>1, <2>1, ReaderAssumption DEF ReaderValid
    <2>3. \A x \in m : x[1] < g
        <3>1. SUFFICES ASSUME NEW x \in m PROVE x[1] < g
            OBVIOUS
        <3>2. x[1] \in Nat /\ x[1] < Len(file)
            BY <2>1 DEF Pairs
        <3>3. QED
            BY <2>1, <2>2, <3>2
    <2>4. Gone(m, g, 0) = m
        BY <2>1, <2>3, GoneAtTheEnds
    <2>5. QED
        BY <2>1, <2>4
<1>6. ShapeInv' /\ FlagInv'
    BY <1>1, <1>2, <1>3, <1>4 DEF ScanInv, ShapeInv, FlagInv
<1>7. CASE call = "next"
    <2>1. /\ answer' = <<"end">> /\ passed' = passed
          /\ passed = MatchingRows
        BY <1>1, <1>3, <1>5, <1>7, PlaceIs DEF ScanInv
    <2>2. PlaceInv'
        BY <1>1, <1>2, <1>3, <1>4, <1>5, <2>1 DEF PlaceInv
    <2>3. Scan!NextEnd
        BY <1>1, <1>2, <1>3, <2>1 DEF Scan!NextEnd, Scan!Remaining
    <2>4. QED
        BY <1>4, <1>6, <2>2, <2>3 DEF ScanInv, ScanStep, Scan!Next
<1>8. CASE call = "count"
    <2>1. /\ answer' = <<"count", Cardinality(MatchingRows)>>
          /\ passed' = MatchingRows
        BY <1>1, <1>3, <1>5, <1>8, PlaceIs DEF ScanInv
    <2>2. PlaceInv'
        BY <1>1, <1>2, <1>3, <1>4, <1>5, <2>1 DEF PlaceInv
    <2>3. Scan!Count
        BY <1>1, <1>2, <1>3, <2>1, SameCardinality DEF Scan!Count
    <2>4. QED
        BY <1>4, <1>6, <2>2, <2>3 DEF ScanInv, ScanStep, Scan!Next
<1>9. QED
    BY <1>1, <1>7, <1>8

\* A step that changes nothing.
LEMMA StutterScans ==
    ASSUME Inv, ScanInv, UNCHANGED vars
    PROVE  ScanInv' /\ ScanStep
<1>1. /\ UNCHANGED cursorVars /\ Fixed /\ reader_position' = reader_position
      /\ error' = error /\ count' = count /\ passed' = passed
      /\ call' = call /\ answer' = answer
    BY DEF vars, readerVars, Fixed
<1>2. /\ file' = file /\ match_all_rows' = match_all_rows
      /\ MatchingRows' = MatchingRows
    BY <1>1, FileStays
<1>3. /\ Frontier' = Frontier /\ ColumnInv' /\ ExactInv'
      /\ row_group' = row_group /\ group_position' = group_position
      /\ initialized' = initialized /\ row_mask' = row_mask
      /\ position' = position /\ cursor_error' = cursor_error
      /\ (Loaded <=> Loaded')
    BY <1>1, FrontierStays DEF ScanInv
<1>4. ShapeInv' /\ FlagInv' /\ PlaceInv'
    BY <1>1, <1>2, <1>3 DEF ScanInv, ShapeInv, FlagInv, PlaceInv
<1>5. QED
    BY <1>1, <1>3, <1>4, Quiet DEF ScanInv

\* A file is opened before its first row.
LEMMA ScanInitially == Init => ScanInv /\ Scan!Init
<1> SUFFICES ASSUME Init PROVE ScanInv /\ Scan!Init
    OBVIOUS
<1>1. /\ file \in Files /\ reader_position = 0 /\ error = FALSE
      /\ call = "idle" /\ count = 0 /\ answer = <<"none">> /\ passed = {}
      /\ row_group = None /\ row_mask = {} /\ position = Batch
      /\ group_position = 0 /\ initialized = FALSE
      /\ read = [c \in Columns |-> 0] /\ first = [c \in Columns |-> 0]
      /\ cursor_error = FALSE /\ Batch \in Nat \ {0}
    BY RowCursorAssumption DEF Init
<1>2. Len(file) \in Nat
    BY <1>1, ReaderAssumption
<1>3. 0 % Batch = 0
    BY <1>1
<1>4. error \in BOOLEAN
    BY <1>1, Zenon
<1>5. ShapeInv
    <2>1. match_all_rows => \A i \in DOMAIN file :
              file[i].rows > 0 => file[i].verdict = "ALL"
        BY DEF Init
    <2>2. QED
        BY <1>1, <1>2, <1>3, <1>4, <2>1 DEF ShapeInv
<1>6. ColumnInv /\ FlagInv /\ ExactInv
    BY <1>1, <1>3 DEF ColumnInv, FlagInv, ExactInv, Loaded
<1>7. PlaceInv
    <2>1. Frontier = 0 /\ Gone(MatchingRows, 0, 0) = {}
        BY <1>1, MatchingAre, GoneAtTheEnds DEF Frontier, Loaded
    <2>2. QED
        BY <1>1, <2>1 DEF PlaceInv
<1>8. Scan!Init
    BY <1>1, FiniteFile, SameFiniteness DEF Scan!Init
<1>9. QED
    BY <1>5, <1>6, <1>7, <1>8 DEF ScanInv

\* So every step preserves ScanInv, and is a step of RowScan or shows nothing.
LEMMA ScanInductive == Inv /\ ScanInv /\ [Next]_vars => ScanInv' /\ ScanStep
<1> SUFFICES ASSUME Inv, ScanInv, [Next]_vars PROVE ScanInv' /\ ScanStep
    OBVIOUS
<1>1. CASE NextCall
    BY <1>1, NextCallScans
<1>2. CASE RewindCall
    BY <1>2, RewindScans DEF RewindCall, Begin
<1>3. CASE RowCountCall
    BY <1>3, RowCountCallScans
<1>4. CASE \E c \in Columns : Get(c)
    BY <1>4, GetScans
<1>5. CASE LoadCursor
    BY <1>5, LoadCursorScans
<1>6. CASE StepInBatch
    BY <1>6, StepInBatchScans
<1>7. CASE StepToBatch
    BY <1>7, StepToBatchScans
<1>8. CASE CountBatch
    BY <1>8, CountBatchScans
<1>9. CASE CountByIndex
    BY <1>9, CountByIndexScans
<1>10. CASE NextGroup
    BY <1>10, NextGroupScans
<1>11. CASE GiveUp
    BY <1>11, FailScans DEF GiveUp, InLoop
<1>12. CASE Finish
    BY <1>12, FinishScans
<1>13. CASE UNCHANGED vars
    BY <1>13, StutterScans
<1>14. QED
    BY <1>1, <1>2, <1>3, <1>4, <1>5, <1>6, <1>7, <1>8, <1>9, <1>10, <1>11,
       <1>12, <1>13 DEF Next, Step

\* The inductive invariant about what is handed out holds in every reachable
\* state.
THEOREM ScanInvariance == Spec => []ScanInv
  BY Initially, Inductive, ScanInitially, ScanInductive, PTL DEF Spec

\* Variables keep their types, batches are aligned and columns stay in them,
\* and only rows that match are ever handed out, for every batch size, number
\* of columns and file.
THEOREM TypeCorrect == Spec => []TypeOK
<1>1. Inv /\ ScanInv => TypeOK
    BY DEF Inv, CursorTypes, ScanInv, ShapeInv, ColumnInv, PlaceInv, TypeOK
<1>2. QED
    BY <1>1, Invariance, ScanInvariance, PTL

\* cx_reader_next hands out the matching rows once each and in order, says that
\* there are no more only when there are none, and cx_reader_row_count returns
\* their number, by the index or row by row: Reader implements RowScan.
THEOREM ImplementsScan == Spec => ImplementsRowScan
<1>1. Init => Scan!Init
    BY ScanInitially
<1>2. Inv /\ ScanInv /\ [Next]_vars => [Scan!Next]_(Scan!vars)
    BY ScanInductive DEF ScanStep
<1>3. QED
    BY <1>1, <1>2, Invariance, ScanInvariance, PTL
       DEF Spec, ImplementsRowScan, Scan!Spec
===============================================================================
