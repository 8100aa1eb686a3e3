------------------------------- MODULE SealedLog -------------------------------
(***************************************************************************)
(* What a columnix file is to those who write and open it: row groups are  *)
(* appended while the file cannot be opened; at one moment it becomes      *)
(* readable with every row group appended so far, and it never changes     *)
(* again.                                                                  *)
(***************************************************************************)
EXTENDS Integers, Sequences

CONSTANT Unreadable   \* what a file that cannot be opened shows

VARIABLES appended,   \* the row groups written so far, in order
          visible     \* the row groups a reader of the file sees

vars == <<appended, visible>>

Init == appended = <<>> /\ visible = Unreadable

Add == /\ Len(appended') = Len(appended) + 1
       /\ visible = Unreadable
       /\ SubSeq(appended', 1, Len(appended)) = appended
       /\ UNCHANGED visible

Seal == /\ visible = Unreadable
        /\ visible' = appended
        /\ UNCHANGED appended

Next == Add \/ Seal

Spec == Init /\ [][Next]_vars
==============================================================================
