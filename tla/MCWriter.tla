------------------------------- MODULE MCWriter -------------------------------
(* Cat, and with it Writer, for TLC, with everything that may fail. *)
EXTENDS Cat

AnyFault == {"name", "flush", "headers", "ensure", "value", "null", "finish"}
==============================================================================
