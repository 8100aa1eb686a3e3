------------------------------- MODULE MCQuery -------------------------------
(* Query for TLC: the threads are numbers, the absence of one a
   model value. *)
EXTENDS Query
==============================================================================
