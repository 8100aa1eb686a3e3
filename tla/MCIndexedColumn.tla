--------------------------- MODULE MCIndexedColumn ---------------------------
(* IndexedColumn for TLC: among these values are a signed type, the bits, the *)
(* lengths of strings and a floating point type.                              *)
EXTENDS IndexedColumn

AnyValue == {-1, 0, 1, 2, NaN}
==============================================================================
