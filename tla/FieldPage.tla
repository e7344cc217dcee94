----------------------------- MODULE FieldPage ------------------------------
(***************************************************************************)
(* The /field endpoint of the two servers and a client that pages through  *)
(* a field with it: handleField of servers/go/main.go with buildField and  *)
(* sliceGeneric of nexusview.go, and field() of servers/py/server.py with  *)
(* build_field of nexusview.py.                                            *)
(*                                                                         *)
(* A field is an array of rows of equal width; the element in column c of  *)
(* row r is the number r * cols + c.  The Go server slices the flattened   *)
(* array, the Python server slices rows.  A scalar has one element.        *)
(***************************************************************************)
EXTENDS Integers, Sequences

CONSTANTS
  Fields,         \* records [kind, scalar, rows, cols] of the fields
  Offsets,        \* offsets a client may start from
  Limits,         \* values of the limit parameter, NoLimit when it is absent
  NoLimit,        \* the parameter is absent or is not a number
  DefaultLimit,   \* FIELD_DEFAULT_LIMIT
  MaxLimit,       \* FIELD_MAX_LIMIT
  IntMax          \* the largest Go int

\* Kinds sliceValues has a case for, and the other kinds a file may hold.
SlicedKinds == {"float64", "float32", "int64", "int32", "string", "bool"}
OtherKinds == {"int16", "int8", "uint64", "uint32", "uint16", "uint8"}

ASSUME FieldPageAssumption ==
  /\ Fields \subseteq [kind : SlicedKinds \cup OtherKinds, scalar : BOOLEAN,
                       rows : Nat, cols : Nat \ {0}]
  /\ Offsets \subseteq Int
  /\ NoLimit \notin Int
  /\ Limits \subseteq Int \cup {NoLimit}
  /\ DefaultLimit \in Int
  /\ MaxLimit \in Nat \ {0}
  /\ IntMax \in Nat
  /\ \A f \in Fields : f.rows * f.cols + MaxLimit <= IntMax

VARIABLES
  server,     \* which server the client talks to: "go" or "py"
  field,      \* the field it pages through
  start,      \* the offset it started from
  next,       \* the offset of its next request
  collected,  \* the elements it has received, in order
  page,       \* the response it has received last
  phase       \* does it "ask" for a page, "read" one, or is it "done"?

vars == <<server, field, start, next, collected, page, phase>>

-----------------------------------------------------------------------------
(* The servers.                                                            *)

MutEffective(l) == IF l = NoLimit THEN DefaultLimit
                   ELSE IF l > MaxLimit THEN MaxLimit ELSE l

\* The limit in force: the default is capped like any other.
Effective(l) ==
  LET asked == IF l = NoLimit THEN DefaultLimit ELSE l
  IN IF asked <= 0 \/ asked > MaxLimit THEN MaxLimit ELSE asked

\* a + b in a Go int, which wraps around.
Plus(a, b) == IF a + b > IntMax THEN a + b - 2 * (IntMax + 1) ELSE a + b

Clamp(offset, total) ==
  IF offset < 0 THEN 0 ELSE IF offset > total THEN total ELSE offset

MutEnd(offset, limit, total) ==
  IF limit > 0 /\ Plus(offset, limit) < total THEN Plus(offset, limit) - 1
  ELSE total

\* The end of the slice that starts at an offset already clamped.
End(offset, limit, total) ==
  IF limit > 0 /\ Plus(offset, limit) < total THEN Plus(offset, limit) ELSE total

\* The elements first, first + 1, ..., last - 1.
Elements(first, last) == [i \in 1 .. last - first |-> first + i - 1]

MutSlice(offset, limit, total) ==
  LET first == Clamp(offset, total)
      last == End(first, limit, total)
  IN [first |-> first, last |-> last, total |-> total,
      truncated |-> last < total - 1]

\* sliceGeneric, and the same arithmetic in build_field.
Slice(offset, limit, total) ==
  LET first == Clamp(offset, total)
      last == End(first, limit, total)
  IN [first |-> first, last |-> last, total |-> total, truncated |-> last < total]

\* A field without a shape: offset and limit do not apply.
ScalarPage == [offset |-> 0, count |-> 1, total |-> 1, truncated |-> FALSE,
               values |-> Elements(0, 1)]

\* The Go response: the offset is echoed as it was asked; a kind without a case
\* in sliceValues is returned whole, with no count.
GoPage(f, offset, limit) ==
  IF f.kind \in SlicedKinds
  THEN LET s == Slice(offset, limit, f.rows * f.cols)
       IN [offset |-> offset, count |-> s.last - s.first, total |-> s.total,
           truncated |-> s.truncated, values |-> Elements(s.first, s.last)]
  ELSE [offset |-> offset, count |-> 0, total |-> 1, truncated |-> FALSE,
        values |-> Elements(0, f.rows * f.cols)]

MutPyPage(f, offset, limit) ==
  LET s == Slice(offset, limit, f.rows)
  IN [offset |-> s.first, count |-> s.last - s.first, total |-> s.total,
      truncated |-> s.truncated, values |-> Elements(s.first, s.last)]

\* The Python response: total and count are rows, every kind can be sliced.
PyPage(f, offset, limit) ==
  LET s == Slice(offset, limit, f.rows)
  IN [offset |-> s.first, count |-> s.last - s.first, total |-> s.total,
      truncated |-> s.truncated,
      values |-> Elements(s.first * f.cols, s.last * f.cols)]

Response(l) ==
  IF field.scalar THEN ScalarPage
  ELSE IF server = "go" THEN GoPage(field, next, Effective(l))
  ELSE PyPage(field, next, Effective(l))

-----------------------------------------------------------------------------
(* The client of servers/README.md: "keep paging with a larger offset".    *)

Init ==
  /\ server \in {"go", "py"}
  /\ field \in Fields
  /\ start \in Offsets
  /\ next = start
  /\ collected = <<>>
  /\ page = ScalarPage
  /\ phase = "ask"

Request(l) ==
  /\ phase = "ask"
  /\ page' = Response(l)
  /\ phase' = "read"
  /\ UNCHANGED <<server, field, start, next, collected>>

Read ==
  /\ phase = "read"
  /\ collected' = collected \o page.values
  /\ next' = page.offset + page.count
  /\ phase' = IF page.truncated THEN "ask" ELSE "done"
  /\ UNCHANGED <<server, field, start, page>>

Next == (\E l \in Limits : Request(l)) \/ Read

Spec == Init /\ [][Next]_vars

-----------------------------------------------------------------------------
(* Properties.                                                             *)

\* Does the server slice this field?
Sliced == ~field.scalar /\ (server = "py" \/ field.kind \in SlicedKinds)

\* What offset and limit count: elements for Go, rows for Python.
Unit == IF server = "py" THEN field.cols ELSE 1
Total == IF server = "py" THEN field.rows ELSE field.rows * field.cols

\* Whatever limits the client asks for, absent, zero, negative or beyond the
\* cap, its pages lie side by side: no element is skipped and none comes twice.
PagesTile ==
  Sliced => collected = Elements(Clamp(start, Total) * Unit,
                                 Clamp(next, Total) * Unit)

\* A client that stops because a page is not truncated has the whole field
\* from where it started, of any kind and shape.
NothingMissed ==
  phase = "done" =>
    collected = Elements(IF Sliced THEN Clamp(start, Total) * Unit ELSE 0,
                         IF field.scalar THEN 1 ELSE field.rows * field.cols)

\* A page of a field that the server slices never exceeds FIELD_MAX_LIMIT.  A
\* field of several dimensions is no exception: servers/go/apis.md, "Limitation:
\* the 2D I field", expects an int64 matrix whole in one response with "total" 1,
\* but gonexus reads every array flat, and a flat []int64 is sliced.
PageWithinCap == Sliced /\ phase = "read" => Len(page.values) <= MaxLimit * Unit

-----------------------------------------------------------------------------
(* A claim of the documentation that the code does not meet.               *)

\* servers/README.md: FIELD_MAX_LIMIT is a "Hard cap on /field's limit", and
\* slicing "keeps responses for big per-scan-point arrays bounded".
EveryPageWithinCap == phase = "read" => Len(page.values) <= MaxLimit * Unit
=============================================================================
