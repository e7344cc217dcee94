----------------------------- MODULE FieldData -----------------------------
(***************************************************************************)
(* What becomes of the value of a field when it is written to a dataset    *)
(* and read again: writeDatasetValue and readDatasetValue of hdf5io.go,    *)
(* inferDtype of util.go.  A value is a scalar or a flat slice of elements *)
(* of one kind; a number is what it is and a string is its text with a     *)
(* number of NUL characters behind it.  The kinds are those the NXfield    *)
(* comment lists without bool, and "nil" for no value; Go's int is left    *)
(* out, as its width in a file is a matter of the HDF5 binding.            *)
(***************************************************************************)
EXTENDS Naturals, SequencesExt

CONSTANT Garbage    \* an element that no value has, such as what memory holds
                    \* behind the end of a slice

\* The type of the datasets in which the HDF5 binding stores a kind of number.
IntegerType(size, unsigned) ==
  [class |-> "integer", size |-> size, unsigned |-> unsigned]
FloatType(size) == [class |-> "float", size |-> size, unsigned |-> FALSE]

TypeOf ==
  [int8 |-> IntegerType(1, FALSE), uint8 |-> IntegerType(1, TRUE),
   int16 |-> IntegerType(2, FALSE), uint16 |-> IntegerType(2, TRUE),
   int32 |-> IntegerType(4, FALSE), uint32 |-> IntegerType(4, TRUE),
   int64 |-> IntegerType(8, FALSE), uint64 |-> IntegerType(8, TRUE),
   float32 |-> FloatType(4), float64 |-> FloatType(8)]

NumberKinds == DOMAIN TypeOf

\* Text of a fixed width, which stands for any: it is chosen so that the
\* longest string fits.
TextType == [class |-> "string", size |-> 1, unsigned |-> FALSE]

Nil == [kind |-> "nil", slice |-> FALSE, elems |-> <<>>]

\* The values a field may have, of numbers in N and texts in T.
Values(N, T) ==
  LET Scalar(E) == {e \in Seq(E) : Len(e) = 1}
  IN {Nil} \cup
     [kind : NumberKinds, slice : {FALSE}, elems : Scalar(N)] \cup
     [kind : NumberKinds, slice : {TRUE}, elems : Seq(N)] \cup
     [kind : {"string"}, slice : {FALSE}, elems : Scalar([text : T, nuls : Nat])] \cup
     [kind : {"string"}, slice : {TRUE}, elems : Seq([text : T, nuls : Nat])]

-----------------------------------------------------------------------------
(* Writing.                                                                *)

\* inferDtype: the shape NewField gives a field.
Inferred(v) == IF v.slice THEN <<Len(v.elems)>> ELSE <<>>

\* A shape <<>> is that of a scalar.
NumElements(shape) ==
  LET upto[i \in 0 .. Len(shape)] == IF i = 0 THEN 1 ELSE upto[i - 1] * shape[i]
  IN upto[Len(shape)]

\* writeDatasetValue has nothing to write for nil and for an empty slice.
Writable(v) == v.kind # "nil" /\ v.elems # <<>>

\* A scalar string is written with no shape, whatever the field says.
WrittenShape(v, shape) ==
  IF v.kind = "string" /\ ~v.slice THEN <<>> ELSE shape

MutEncode(v, shape) ==
  LET dims == Inferred(v)
  IN [type |-> IF v.kind = "string" THEN TextType ELSE TypeOf[v.kind],
      dims |-> dims,
      elems |-> [i \in 1 .. NumElements(dims) |->
                   IF v.kind = "string" THEN v.elems[i].text ELSE v.elems[i]]]

\* The dataset gets as many elements as the shape has, from the memory the value
\* starts at: nothing compares the two.  Strings are filled up with NULs to one
\* width, so the number of NULs behind a text is not stored.
Encode(v, shape) ==
  LET dims == WrittenShape(v, shape)
      Element(i) == IF i > Len(v.elems) THEN Garbage
                    ELSE IF v.kind = "string" THEN v.elems[i].text ELSE v.elems[i]
  IN [type |-> IF v.kind = "string" THEN TextType ELSE TypeOf[v.kind],
      dims |-> dims,
      elems |-> [i \in 1 .. NumElements(dims) |-> Element(i)]]

-----------------------------------------------------------------------------
(* Reading.                                                                *)

Signed == <<"int8", "int16", "none", "int32", "none", "none", "none", "int64">>
Unsigned == <<"uint8", "uint16", "none", "uint32", "none", "none", "none", "uint64">>

\* elementGoType: class and size decide, and the hint of the binding only
\* between signed and unsigned.  Anything else gets a Go type of another size,
\* which checkElemSize refuses, or none at all.
ElementGoType(t) ==
  CASE t.class = "string" -> "string"
    [] t.class = "float" /\ t.size = 4 -> "float32"
    [] t.class = "float" /\ t.size = 8 -> "float64"
    [] t.class \in {"integer", "enum", "bitfield"} /\ t.size \in 1 .. 8 ->
         IF t.unsigned THEN Unsigned[t.size] ELSE Signed[t.size]
    [] OTHER -> "none"

Readable(d) == ElementGoType(d.type) # "none"

\* Trailing NULs are trimmed; without dimensions the one element is unwrapped.
Decode(d) ==
  LET kind == ElementGoType(d.type)
      Element(i) == IF kind = "string" THEN [text |-> d.elems[i], nuls |-> 0]
                    ELSE d.elems[i]
  IN [value |-> [kind |-> kind, slice |-> d.dims # <<>>,
                 elems |-> [i \in 1 .. NumElements(d.dims) |-> Element(i)]],
      shape |-> d.dims]

-----------------------------------------------------------------------------

\* The shape is that of the value: what NewField makes of every value but an
\* empty slice, and what the README asks of a shape that is set by hand.
Fits(v, shape) ==
  /\ v.slice <=> shape # <<>>
  /\ NumElements(shape) = Len(v.elems)

\* The value without NULs behind its texts.
Trimmed(v) ==
  [v EXCEPT !.elems = [i \in DOMAIN v.elems |->
     IF v.kind = "string" THEN [text |-> v.elems[i].text, nuls |-> 0]
     ELSE v.elems[i]]]
=============================================================================
