-------------------------------- MODULE MCIndex --------------------------------
(* Index for TLC: among these values are a signed type, the bits, the lengths  *)
(* of strings and a floating point type.                                       *)
EXTENDS Index

AnyValue == {-1, 0, 1, 2, NaN}
==============================================================================
