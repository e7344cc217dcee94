---------------------------- MODULE MCFieldPage -----------------------------
(* Instances of FieldPage for TLC: scalars, empty fields, vectors and two- *)
(* dimensional fields of a kind sliceValues knows and of one it does not.  *)
EXTENDS FieldPage

Field(kind, scalar, rows, cols) ==
  [kind |-> kind, scalar |-> scalar, rows |-> rows, cols |-> cols]

Kinds == {"float64", "uint16"}

AllFields ==
  {Field(kind, TRUE, 1, 1) : kind \in Kinds}
    \cup {Field(kind, FALSE, rows, cols) :
            kind \in Kinds, rows \in 0 .. 4, cols \in {1, 3}}

AskedOffsets == 0 .. 5

AskedLimits == {NoLimit, -1, 0, 1, 2, 3, 7}
=============================================================================
