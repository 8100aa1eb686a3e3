------------------------------ MODULE StdioFile ------------------------------
(***************************************************************************)
(* The file a writer holds open with fopen(path, "wb"), as lib/writer.c    *)
(* uses it: stdio keeps written blocks in a buffer and hands them to the   *)
(* operating system in order; fseeko hands over all of them; ftruncate and *)
(* fsync act on what the operating system has and do not see the buffer.   *)
(*                                                                         *)
(* Offsets are counted in units, two to the writer's alignment: a block    *)
(* starts at an even offset.  It reaches the file in pieces of two units,  *)
(* the last one of two or one, and the first of them stands for it.        *)
(***************************************************************************)
EXTENDS Integers, Sequences, SequencesExt

Align(offset) == offset + (offset % 2)
Slot(offset)  == offset \div 2 + 1

Hole == [kind |-> "hole"]   \* bytes never written: zeros
Torn == [kind |-> "torn"]   \* part of a block that could not be written
Rest == [kind |-> "rest"]   \* two units of a block after its first two

\* Files of such blocks, and writes to them.
File(B)   == [size : Nat, at : Seq(B)]
Writes(B) == {w \in [offset : Nat, size : Nat \ {0}, block : B] : w.offset % 2 = 0}

\* Writes that end by end.
Within(writes, end) ==
    \A k \in 1..Len(writes) : writes[k].offset + writes[k].size <= end

EmptyFile == [size |-> 0, at |-> <<>>]

BlockAt(file, offset) ==
    IF offset % 2 = 0 /\ Slot(offset) \in DOMAIN file.at
    THEN file.at[Slot(offset)]
    ELSE Hole

\* The writes of a block of size units at start.
Pieces(start, size, block) ==
    [i \in 1..((size + 1) \div 2) |->
        [offset |-> start + 2 * (i - 1),
         size   |-> IF 2 * i <= size THEN 2 ELSE 1,
         block  |-> IF i = 1 THEN block ELSE Rest]]

\* They are all there, and no other is.
HasPieces(file, start, size, block) ==
    \A i \in 1..((size + 1) \div 2) :
        BlockAt(file, start + 2 * (i - 1)) = IF i = 1 THEN block ELSE Rest

\* The file once a sequence of writes [offset, size, block] has reached it: the
\* last write to a slot is the one that counts.
ApplyAll(file, writes) ==
    LET to(i)   == {k \in DOMAIN writes : Slot(writes[k].offset) = i}
        extent  == Max({Len(file.at)} \cup {Slot(w.offset) : w \in Range(writes)})
    IN [size |-> Max({file.size} \cup {w.offset + w.size : w \in Range(writes)}),
        at   |-> [i \in 1..extent |->
                     IF to(i) # {} THEN writes[Max(to(i))].block
                     ELSE IF i <= Len(file.at) THEN file.at[i] ELSE Hole]]

\* The file cut or extended to size units; size is even.
Truncate(file, size) ==
    [size |-> size,
     at |-> [i \in 1..(size \div 2) |->
                IF i <= Len(file.at) THEN file.at[i] ELSE Hole]]

\* stdio has handed the first n of the writes to the operating system.
Handed(os, os2, writes, rest, n) ==
    /\ os2 = ApplyAll(os, SubSeq(writes, 1, n))
    /\ rest = SubSeq(writes, n + 1, Len(writes))
==============================================================================
