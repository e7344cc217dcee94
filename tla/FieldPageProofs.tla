-------------------------- MODULE FieldPageProofs ---------------------------
(***************************************************************************)
(* Theorems about FieldPage, for fields of any size, any limits and any    *)
(* offset.  What a client has in the end is said of those that do not      *)
(* start from a negative offset: the Go server echoes that as it is, and a *)
(* client that adds count to it reads some elements again.                 *)
(***************************************************************************)
EXTENDS FieldPage, SequenceTheorems, TLAPS

-----------------------------------------------------------------------------
(* The arithmetic of a slice.                                              *)

\* What sliceGeneric returns for an array it can index without overflow: the
\* part of it that starts at the offset and is no longer than the limit, and
\* it is marked as truncated exactly when something is left.
LEMMA SliceIsRange ==
  ASSUME NEW offset \in Int, NEW limit \in 1 .. MaxLimit, NEW total \in Nat,
         total + MaxLimit <= IntMax
  PROVE  LET s == Slice(offset, limit, total)
         IN /\ s.total = total
            /\ s.first \in 0 .. total /\ s.first = Clamp(offset, total)
            /\ s.last \in s.first .. total
            /\ s.last - s.first <= limit
            /\ s.truncated <=> s.last < total
            /\ s.truncated => s.last - s.first = limit
            /\ offset \in Nat => Clamp(offset + (s.last - s.first), total) = s.last
<1> DEFINE first == Clamp(offset, total)
           last == End(first, limit, total)
<1>1. first \in 0 .. total /\ (offset \in 0 .. total => first = offset)
      BY DEF Clamp
<1>2. MaxLimit \in Nat /\ IntMax \in Nat
      BY FieldPageAssumption
<1>3. Plus(first, limit) = first + limit
      BY <1>1, <1>2 DEF Plus
<1>4. last = IF first + limit < total THEN first + limit ELSE total
      BY <1>2, <1>3 DEF End
<1>5. last \in first .. total /\ last - first <= limit
      BY <1>1, <1>2, <1>4
<1>6. offset \in Nat => Clamp(offset + (last - first), total) = last
      BY <1>1, <1>5 DEF Clamp
<1>7. last < total => last - first = limit
      BY <1>1, <1>4
<1>8. Slice(offset, limit, total) =
        [first |-> first, last |-> last, total |-> total,
         truncated |-> last < total]
      BY DEF Slice
<1> HIDE DEF last
<1>9. Clamp(offset, total) = first
      OBVIOUS
<1> HIDE DEF first
<1> DEFINE s == Slice(offset, limit, total)
<1>10. s.first = first /\ s.last = last /\ s.total = total
      BY <1>8
<1> DEFINE left == last < total
<1>11. s.truncated = left
  <2>1. s = [first |-> first, last |-> last, total |-> total, truncated |-> left]
        BY <1>8
  <2> HIDE DEF left, s
  <2>2. QED BY <2>1
<1> HIDE DEF s
<1>12. /\ s.total = total
       /\ s.first \in 0 .. total /\ s.first = Clamp(offset, total)
       /\ s.last \in s.first .. total
       /\ s.last - s.first <= limit
       /\ s.truncated <=> s.last < total
       /\ s.truncated => s.last - s.first = limit
       /\ offset \in Nat => Clamp(offset + (s.last - s.first), total) = s.last
       BY <1>1, <1>5, <1>6, <1>9, <1>10, <1>11, <1>7
<1>13. QED BY <1>12 DEF s

LEMMA EffectiveInRange ==
  ASSUME NEW l \in Limits
  PROVE  Effective(l) \in 1 .. MaxLimit
BY FieldPageAssumption DEF Effective

LEMMA LenElements ==
  ASSUME NEW a \in Nat, NEW b \in Nat, a <= b
  PROVE  Len(Elements(a, b)) = b - a /\ Elements(a, b) \in Seq(Int)
BY DEF Elements

LEMMA ElementsEmpty ==
  ASSUME NEW a \in Nat
  PROVE  Elements(a, a) = <<>>
<1>1. Len(Elements(a, a)) = 0 /\ Elements(a, a) \in Seq(Int)
      BY LenElements
<1>2. QED BY <1>1, EmptySeq

\* Pages that lie side by side make one range.
LEMMA ElementsJoin ==
  ASSUME NEW a \in Nat, NEW b \in Nat, NEW c \in Nat, a <= b, b <= c
  PROVE  Elements(a, b) \o Elements(b, c) = Elements(a, c)
<1>1. /\ Len(Elements(a, b)) = b - a /\ Elements(a, b) \in Seq(Int)
      /\ Len(Elements(b, c)) = c - b /\ Elements(b, c) \in Seq(Int)
      /\ Len(Elements(a, c)) = c - a /\ Elements(a, c) \in Seq(Int)
      BY LenElements, a <= c
<1>2. /\ Elements(a, b) \o Elements(b, c) \in Seq(Int)
      /\ Len(Elements(a, b) \o Elements(b, c)) = c - a
      /\ \A i \in 1 .. c - a :
           (Elements(a, b) \o Elements(b, c))[i] =
             IF i <= b - a THEN Elements(a, b)[i] ELSE Elements(b, c)[i - (b - a)]
  <2> DEFINE s == Elements(a, b)
             t == Elements(b, c)
  <2>1. s \in Seq(Int) /\ t \in Seq(Int) /\ Len(s) = b - a /\ Len(t) = c - b
        BY <1>1
  <2> HIDE DEF s, t
  <2>2. /\ s \o t \in Seq(Int) /\ Len(s \o t) = Len(s) + Len(t)
        /\ \A i \in 1 .. Len(s) + Len(t) :
             (s \o t)[i] = IF i <= Len(s) THEN s[i] ELSE t[i - Len(s)]
        BY <2>1, ConcatProperties
  <2>3. Len(s) + Len(t) = c - a
        BY <2>1
  <2>4. QED BY <2>1, <2>2, <2>3 DEF s, t
<1>3. ASSUME NEW i \in 1 .. c - a
      PROVE  (Elements(a, b) \o Elements(b, c))[i] = Elements(a, c)[i]
  <2>1. Elements(a, c)[i] = a + i - 1
        BY DEF Elements
  <2>2. i <= b - a => Elements(a, b)[i] = a + i - 1
        BY DEF Elements
  <2>3. i > b - a => Elements(b, c)[i - (b - a)] = a + i - 1
    <3>1. i > b - a => i - (b - a) \in 1 .. c - b
          OBVIOUS
    <3>2. QED BY <3>1 DEF Elements
  <2>4. QED BY <1>2, <2>1, <2>2, <2>3
<1>4. QED BY <1>1, <1>2, <1>3, SeqEqual

LEMMA TimesMonotone ==
  ASSUME NEW m \in Nat, NEW n \in Nat, m <= n, NEW c \in Nat \ {0}
  PROVE  /\ m * c \in Nat /\ n * c \in Nat
         /\ m * c <= n * c /\ m <= m * c
         /\ (n - m) * c = n * c - m * c
<1>1. PICK d \in Nat : n = m + d
      BY n - m \in Nat
<1>2. (m + d) * c = m * c + d * c /\ d * c \in Nat /\ m * c \in Nat
      OBVIOUS
<1>3. m <= m * c
      OBVIOUS
<1>4. QED BY <1>1, <1>2, <1>3

-----------------------------------------------------------------------------
(* The inductive invariant.                                                *)

\* The client has begun, ...
AnyClient ==
  /\ server \in {"go", "py"} /\ field \in Fields
  /\ start \in Int /\ next \in Int
  /\ phase \in {"ask", "read", "done"}

\* ... at an offset that the server counts the same way.
ClientTyped == AnyClient /\ start \in Nat /\ next \in Nat

\* What the client reads is what the server answered to its last request.
PageIsResponse == phase = "read" => \E l \in Limits : page = Response(l)

\* The client only goes forward, and stops at the end of a sliced field; of
\* any other it has nothing before it has all.
Progress ==
  /\ Sliced => /\ Clamp(start, Total) <= Clamp(next, Total)
               /\ phase = "done" => Clamp(next, Total) = Total
  /\ ~Sliced => collected =
                  IF phase # "done" THEN <<>>
                  ELSE Elements(0, IF field.scalar THEN 1
                                   ELSE field.rows * field.cols)

PagingInv == ClientTyped /\ PageIsResponse /\ PagesTile /\ Progress

-----------------------------------------------------------------------------
(* The pages of a sliced field.                                            *)

LEMMA Sizes ==
  ASSUME AnyClient
  PROVE  /\ field.rows \in Nat /\ field.cols \in Nat \ {0} /\ MaxLimit \in Nat
         /\ Total \in Nat /\ Total + MaxLimit <= IntMax
         /\ Unit \in Nat \ {0}
         /\ Total * Unit = field.rows * field.cols
         /\ field.rows * field.cols \in Nat
<1>1. field.rows \in Nat /\ field.cols \in Nat \ {0} /\ MaxLimit \in Nat
      BY FieldPageAssumption DEF AnyClient
<1>2. field.rows * field.cols \in Nat /\ field.rows <= field.rows * field.cols
      BY <1>1, TimesMonotone
<1>3. Total \in Nat /\ Total + MaxLimit <= IntMax
      BY <1>1, <1>2, FieldPageAssumption DEF Total, AnyClient
<1>4. QED BY <1>1, <1>2, <1>3 DEF Total, Unit

LEMMA ClampInRange ==
  ASSUME NEW o \in Nat, NEW total \in Nat
  PROVE  Clamp(o, total) \in Nat /\ Clamp(o, total) <= total
BY DEF Clamp

\* The response to a request for a sliced field is the slice that the limit in
\* force cuts out of it, in elements or in rows.
LEMMA ResponseIsSlice ==
  ASSUME AnyClient, Sliced, NEW l \in Limits
  PROVE  LET r == Response(l)
             s == Slice(next, Effective(l), Total)
         IN /\ r.offset = IF server = "go" THEN next ELSE s.first
            /\ r.count = s.last - s.first
            /\ r.truncated = s.truncated
            /\ r.values = Elements(s.first * Unit, s.last * Unit)
<1> DEFINE s == Slice(next, Effective(l), Total)
           r == Response(l)
<1>1. Total \in Nat /\ s.first \in Int /\ s.last \in Int
  <2>1. Total \in Nat /\ Total + MaxLimit <= IntMax /\ next \in Int
        BY Sizes DEF AnyClient
  <2>2. s.first \in 0 .. Total /\ s.last \in s.first .. Total
        BY <2>1, EffectiveInRange, SliceIsRange
  <2>3. QED BY <2>1, <2>2
<1> HIDE DEF s
<1>2. CASE server = "go"
  <2>1. Total = field.rows * field.cols
        BY <1>2 DEF Total
  <2>2. Unit = 1
        BY <1>2 DEF Unit
  <2>3. r = [offset |-> next, count |-> s.last - s.first, total |-> s.total,
             truncated |-> s.truncated, values |-> Elements(s.first, s.last)]
        BY <1>2, <2>1 DEF Response, GoPage, Sliced, s
  <2>4. s.first * Unit = s.first /\ s.last * Unit = s.last
        BY <1>1, <2>2
  <2> HIDE DEF r
  <2>5. /\ r.offset = next /\ r.count = s.last - s.first
        /\ r.truncated = s.truncated /\ r.values = Elements(s.first, s.last)
        BY <2>3
  <2>6. QED BY <1>2, <2>4, <2>5 DEF r, s
<1>3. CASE server = "py"
  <2>1. Total = field.rows /\ Unit = field.cols
        BY <1>3 DEF Total, Unit
  <2>2. r = [offset |-> s.first, count |-> s.last - s.first, total |-> s.total,
             truncated |-> s.truncated,
             values |-> Elements(s.first * Unit, s.last * Unit)]
        BY <1>3, <2>1 DEF Response, PyPage, Sliced, s
  <2> HIDE DEF r
  <2>3. /\ r.offset = s.first /\ r.count = s.last - s.first
        /\ r.truncated = s.truncated
        /\ r.values = Elements(s.first * Unit, s.last * Unit)
        BY <2>2
  <2>4. QED BY <1>3, <2>3 DEF r, s
<1>4. QED BY <1>2, <1>3 DEF AnyClient

\* Whatever the offset, a page is within the cap, and one that is truncated
\* leads on, but not beyond the field.
LEMMA ResponseLeadsOn ==
  ASSUME AnyClient, NEW l \in Limits
  PROVE  LET r == Response(l)
         IN /\ r.offset + r.count \in Int
            /\ Sliced => Len(r.values) <= MaxLimit * Unit
            /\ r.truncated => /\ next < r.offset + r.count
                              /\ r.offset + r.count < Total
<1> DEFINE r == Response(l)
           limit == Effective(l)
           s == Slice(next, limit, Total)
<1>1. /\ Total \in Nat /\ Total + MaxLimit <= IntMax /\ MaxLimit \in Nat
      /\ Unit \in Nat \ {0} /\ next \in Int
      BY Sizes DEF AnyClient
<1>2. limit \in 1 .. MaxLimit
      BY EffectiveInRange
<1> HIDE DEF limit
<1>3. CASE Sliced
  <2>1. /\ s.first \in 0 .. Total /\ s.first = Clamp(next, Total)
        /\ s.last \in s.first .. Total
        /\ s.last - s.first <= limit
        /\ s.truncated <=> s.last < Total
        /\ s.truncated => s.last - s.first = limit
        BY <1>1, <1>2, SliceIsRange
  <2>2. /\ r.offset = IF server = "go" THEN next ELSE s.first
        /\ r.count = s.last - s.first
        /\ r.truncated = s.truncated
        /\ r.values = Elements(s.first * Unit, s.last * Unit)
        BY <1>3, ResponseIsSlice DEF limit
  <2> HIDE DEF r, s
  <2>3. s.first \in Nat /\ s.last \in Nat /\ s.first <= s.last
        BY <1>1, <2>1
  <2>4. Len(r.values) = s.last * Unit - s.first * Unit
    <3>1. /\ s.first * Unit \in Nat /\ s.last * Unit \in Nat
          /\ s.first * Unit <= s.last * Unit
          BY <1>1, <2>3, TimesMonotone
    <3>2. QED BY <2>2, <3>1, LenElements
  <2>5. s.last * Unit - s.first * Unit = (s.last - s.first) * Unit
        BY <1>1, <2>3, TimesMonotone
  <2>6. (s.last - s.first) * Unit <= MaxLimit * Unit
    <3>1. s.last - s.first \in Nat /\ s.last - s.first <= MaxLimit
          BY <1>1, <1>2, <2>1, <2>3
    <3>2. QED BY <1>1, <3>1, TimesMonotone
  <2>7. Len(r.values) <= MaxLimit * Unit
        BY <2>4, <2>5, <2>6
  <2>8. r.offset + r.count \in Int
        BY <1>1, <2>2, <2>3
  <2>9. r.truncated => next < r.offset + r.count /\ r.offset + r.count < Total
    <3> SUFFICES ASSUME r.truncated
                 PROVE  next < r.offset + r.count /\ r.offset + r.count < Total
        OBVIOUS
    <3>1. s.last < Total /\ s.last - s.first = limit
          BY <2>1, <2>2
    <3>2. next <= s.first
          BY <1>1, <1>2, <2>3, <3>1, <2>1 DEF Clamp
    <3>3. QED BY <1>1, <1>2, <2>2, <2>3, <3>1, <3>2
  <2>10. QED BY <2>7, <2>8, <2>9 DEF r
<1>4. CASE ~Sliced
  <2>1. r.offset + r.count \in Int /\ ~r.truncated
        BY <1>1, <1>4 DEF Response, ScalarPage, GoPage, Sliced, AnyClient
  <2>2. QED BY <1>4, <2>1
<1>5. QED BY <1>3, <1>4

\* Of a sliced field, the response holds the elements from where the client
\* is to where adding count to the offset leads it, and says whether anything
\* is left.
LEMMA ResponseIsPage ==
  ASSUME ClientTyped, Sliced, NEW l \in Limits
  PROVE  LET r == Response(l)
             to == Clamp(r.offset + r.count, Total)
         IN /\ Clamp(next, Total) <= to /\ to <= Total
            /\ r.offset + r.count \in Nat
            /\ r.values = Elements(Clamp(next, Total) * Unit, to * Unit)
            /\ ~r.truncated => to = Total
<1> DEFINE r == Response(l)
           s == Slice(next, Effective(l), Total)
           to == Clamp(r.offset + r.count, Total)
<1>1. Total \in Nat /\ Total + MaxLimit <= IntMax /\ next \in Nat
      BY Sizes DEF ClientTyped
<1>2. /\ s.first \in 0 .. Total /\ s.first = Clamp(next, Total)
      /\ s.last \in s.first .. Total
      /\ s.truncated <=> s.last < Total
      /\ Clamp(next + (s.last - s.first), Total) = s.last
      BY <1>1, EffectiveInRange, SliceIsRange
<1>3. /\ r.offset = IF server = "go" THEN next ELSE s.first
      /\ r.count = s.last - s.first
      /\ r.truncated = s.truncated
      /\ r.values = Elements(s.first * Unit, s.last * Unit)
      BY ResponseIsSlice DEF ClientTyped
<1> HIDE DEF r, s
<1>4. to = s.last /\ r.offset + r.count \in Nat
      BY <1>1, <1>2, <1>3 DEF Clamp
<1> HIDE DEF to
<1>5. /\ Clamp(next, Total) <= to /\ to <= Total
      /\ r.values = Elements(Clamp(next, Total) * Unit, to * Unit)
      /\ ~r.truncated => to = Total
      BY <1>1, <1>2, <1>3, <1>4
<1>6. QED BY <1>4, <1>5 DEF r, to

-----------------------------------------------------------------------------
(* The invariant is inductive.                                             *)

LEMMA PagingInit ==
  ASSUME Offsets \subseteq Nat
  PROVE  Init => PagingInv
<1> SUFFICES ASSUME Init
             PROVE  PagingInv
    OBVIOUS
<1>1. ClientTyped
      BY DEF Init, ClientTyped, AnyClient
<1>2. PageIsResponse
      BY DEF Init, PageIsResponse
<1>3. next = start /\ Clamp(start, Total) \in Nat
      BY <1>1, Sizes, ClampInRange DEF Init, ClientTyped, AnyClient
<1>4. Clamp(start, Total) * Unit \in Nat
      BY <1>1, <1>3, Sizes DEF ClientTyped
<1>5. Elements(Clamp(start, Total) * Unit, Clamp(next, Total) * Unit) = <<>>
      BY <1>3, <1>4, ElementsEmpty
<1>6. PagesTile /\ Progress
      BY <1>3, <1>5 DEF Init, PagesTile, Progress
<1>7. QED BY <1>1, <1>2, <1>6 DEF PagingInv

LEMMA PagingNext == PagingInv /\ [Next]_vars => PagingInv'
<1> SUFFICES ASSUME PagingInv, [Next]_vars
             PROVE  PagingInv'
    OBVIOUS
<1> USE DEF PagingInv
<1>1. ASSUME NEW l \in Limits, Request(l)
      PROVE  PagingInv'
  <2>1. UNCHANGED <<server, field, start, next, collected>> /\ phase = "ask"
        BY <1>1 DEF Request
  <2>2. ClientTyped' /\ PagesTile' /\ Progress'
        BY <1>1, <2>1 DEF Request, ClientTyped, AnyClient, PagesTile, Progress,
           Sliced, Total, Unit
  <2>3. page' = Response(l)'
        BY <1>1, <2>1 DEF Request, Response
  <2>4. PageIsResponse'
        BY <2>3 DEF PageIsResponse
  <2>5. QED BY <2>2, <2>4
<1>2. CASE Read
  <2>1. UNCHANGED <<server, field, start, page>> /\ phase = "read"
        BY <1>2 DEF Read
  <2>2. PICK l \in Limits : page = Response(l)
        BY <2>1 DEF PageIsResponse
  <2>3. PageIsResponse'
        BY <1>2 DEF Read, PageIsResponse
  <2>4. CASE Sliced
    <3> DEFINE to == Clamp(page.offset + page.count, Total)
    <3>1. /\ Clamp(next, Total) <= to /\ to <= Total
          /\ page.offset + page.count \in Nat
          /\ page.values = Elements(Clamp(next, Total) * Unit, to * Unit)
          /\ ~page.truncated => to = Total
          BY <2>2, <2>4, ResponseIsPage
    <3>2. /\ Clamp(start, Total) \in Nat /\ Clamp(next, Total) \in Nat
          /\ to \in Nat /\ Unit \in Nat \ {0}
      <4>1. Total \in Nat /\ Unit \in Nat \ {0}
            BY Sizes DEF ClientTyped
      <4>2. start \in Nat /\ next \in Nat
            BY DEF ClientTyped, AnyClient
      <4>3. QED BY <3>1, <4>1, <4>2, ClampInRange
    <3>3. Sliced' /\ Total' = Total /\ Unit' = Unit
          BY <2>1, <2>4 DEF Sliced, Total, Unit
    <3>4. next' = page.offset + page.count /\ Clamp(next, Total)' = to
          BY <1>2, <3>3 DEF Read, Clamp
    <3>5. ClientTyped'
          BY <1>2, <2>1, <3>1, <3>4 DEF ClientTyped, AnyClient, Read
    <3>6. Clamp(start, Total) <= Clamp(next, Total)
          BY <2>4 DEF Progress
    <3>7. collected' = Elements(Clamp(start, Total) * Unit, to * Unit)
      <4> DEFINE from == Clamp(start, Total) * Unit
                 here == Clamp(next, Total) * Unit
                 there == to * Unit
      <4>1. Clamp(start, Total) <= Clamp(next, Total) /\ Clamp(next, Total) <= to
            BY <3>1, <3>6
      <4>2. /\ from \in Nat /\ here \in Nat /\ there \in Nat
            /\ from <= here /\ here <= there
            BY <3>2, <4>1, TimesMonotone
      <4>3. collected = Elements(from, here) /\ page.values = Elements(here, there)
            BY <2>4, <3>1 DEF PagesTile
      <4>4. collected' = collected \o page.values
            BY <1>2 DEF Read
      <4> HIDE DEF from, here, there
      <4>5. collected' = Elements(from, there)
            BY <4>2, <4>3, <4>4, ElementsJoin
      <4>6. QED BY <4>5 DEF from, there
    <3>8. PagesTile'
          BY <2>1, <3>3, <3>4, <3>7 DEF PagesTile, Clamp
    <3>9. phase' = "done" => to = Total
          BY <1>2, <3>1 DEF Read
    <3>10. Clamp(start, Total)' = Clamp(start, Total) /\ Clamp(start, Total) <= to
      <4>1. Clamp(start, Total)' = Clamp(start, Total)
            BY <2>1, <3>3 DEF Clamp
      <4>2. QED BY <3>2, <3>1, <3>6, <4>1
    <3>11. Progress'
          BY <3>3, <3>4, <3>9, <3>10 DEF Progress
    <3>12. QED BY <2>3, <3>5, <3>8, <3>11
  <2>5. CASE ~Sliced
    <3> DEFINE all == Elements(0, IF field.scalar THEN 1
                                  ELSE field.rows * field.cols)
    <3>1. page.values = all /\ page.offset + page.count \in Nat /\ ~page.truncated
          BY <2>2, <2>5, Sizes
          DEF Response, ScalarPage, GoPage, Sliced, ClientTyped, AnyClient
    <3>2. collected = <<>>
          BY <2>1, <2>5 DEF Progress
    <3>3. all \in Seq(Int)
      <4>1. field.rows * field.cols \in Nat
            BY Sizes DEF ClientTyped
      <4> DEFINE size == IF field.scalar THEN 1 ELSE field.rows * field.cols
      <4>2. size \in Nat /\ 0 <= size
            BY <4>1
      <4> HIDE DEF size
      <4>3. Elements(0, size) \in Seq(Int)
            BY <4>2, LenElements
      <4>4. QED BY <4>3 DEF size
    <3>4. collected' = all /\ phase' = "done"
          BY <1>2, <3>1, <3>2, <3>3, ConcatEmptySeq DEF Read
    <3>5. ~Sliced'
          BY <2>1, <2>5 DEF Sliced
    <3>6. ClientTyped'
          BY <1>2, <2>1, <3>1, <3>4 DEF ClientTyped, AnyClient, Read
    <3>7. Progress' /\ PagesTile'
          BY <2>1, <3>4, <3>5 DEF Progress, PagesTile
    <3>8. QED BY <2>3, <3>6, <3>7
  <2>6. QED BY <2>4, <2>5
<1>3. CASE UNCHANGED vars
      BY <1>3 DEF vars, ClientTyped, AnyClient, PageIsResponse, PagesTile,
         Progress,
         Response, Sliced, Total, Unit
<1>4. QED BY <1>1, <1>2, <1>3 DEF Next

LEMMA PagingAlways ==
  ASSUME Offsets \subseteq Nat
  PROVE  Spec => []PagingInv
<1>1. Init => PagingInv
      BY PagingInit
<1>2. PagingInv /\ [Next]_vars => PagingInv'
      BY PagingNext
<1>3. QED BY <1>1, <1>2, PTL DEF Spec

-----------------------------------------------------------------------------
(* The theorems, for clients that do not start at a negative offset.       *)

\* The pages of any field that is sliced lie side by side, for any shape, any
\* limits and any cap that keeps the arithmetic of Go's int from wrapping.
THEOREM PagesAlwaysTile ==
  ASSUME Offsets \subseteq Nat
  PROVE  Spec => []PagesTile
<1>1. PagingInv => PagesTile
      BY DEF PagingInv
<1>2. QED BY <1>1, PagingAlways, PTL

\* A client that stops when it is told to has the whole field.
THEOREM NothingIsMissed ==
  ASSUME Offsets \subseteq Nat
  PROVE  Spec => []NothingMissed
<1>1. PagingInv => NothingMissed
  <2> SUFFICES ASSUME PagingInv, phase = "done"
               PROVE  NothingMissed
      BY DEF NothingMissed
  <2> USE DEF PagingInv
  <2>1. CASE Sliced
    <3>1. collected = Elements(Clamp(start, Total) * Unit, Total * Unit)
          BY <2>1 DEF PagesTile, Progress
    <3>2. Total * Unit = field.rows * field.cols /\ ~field.scalar
          BY <2>1, Sizes DEF Sliced, ClientTyped
    <3>3. QED BY <2>1, <3>1, <3>2 DEF NothingMissed
  <2>2. CASE ~Sliced
        BY <2>2 DEF NothingMissed, Progress
  <2>3. QED BY <2>1, <2>2
<1>2. QED BY <1>1, PagingAlways, PTL

-----------------------------------------------------------------------------
(* The theorems for any client.                                            *)

ClientInv == AnyClient /\ PageIsResponse

LEMMA ClientInit == Init => ClientInv
BY FieldPageAssumption DEF Init, ClientInv, AnyClient, PageIsResponse

LEMMA ClientNext == ClientInv /\ [Next]_vars => ClientInv'
<1> SUFFICES ASSUME ClientInv, [Next]_vars
             PROVE  ClientInv'
    OBVIOUS
<1> USE DEF ClientInv
<1>1. ASSUME NEW l \in Limits, Request(l)
      PROVE  ClientInv'
  <2>1. AnyClient'
        BY <1>1 DEF Request, AnyClient
  <2>2. page' = Response(l)'
        BY <1>1 DEF Request, Response
  <2>3. QED BY <2>1, <2>2 DEF PageIsResponse
<1>2. CASE Read
  <2>1. PICK l \in Limits : page = Response(l)
        BY <1>2 DEF Read, PageIsResponse
  <2>2. page.offset + page.count \in Int
        BY <2>1, ResponseLeadsOn
  <2>3. AnyClient'
        BY <1>2, <2>2 DEF Read, AnyClient
  <2>4. QED BY <1>2, <2>3 DEF Read, PageIsResponse
<1>3. CASE UNCHANGED vars
      BY <1>3 DEF vars, AnyClient, PageIsResponse, Response
<1>4. QED BY <1>1, <1>2, <1>3 DEF Next

LEMMA ClientAlways == Spec => []ClientInv
BY ClientInit, ClientNext, PTL DEF Spec

\* No page of a field that is sliced exceeds FIELD_MAX_LIMIT, whatever offset and
\* limit the client asks for and whatever the default is.
THEOREM PagesWithinCap == Spec => []PageWithinCap
<1>1. ClientInv => PageWithinCap
  <2> SUFFICES ASSUME ClientInv, Sliced, phase = "read"
               PROVE  Len(page.values) <= MaxLimit * Unit
      BY DEF PageWithinCap
  <2>1. PICK l \in Limits : page = Response(l)
        BY DEF ClientInv, PageIsResponse
  <2>2. QED BY <2>1, ResponseLeadsOn DEF ClientInv
<1>2. QED BY <1>1, ClientAlways, PTL

\* A client that is to ask once more asks for something further on, and for
\* something the field has.
PagesGoOn ==
  [][phase = "read" /\ phase' = "ask" => next < next' /\ next' < Total']_vars

\* What SessionEnds rests on: whatever limits the client asks for and whatever
\* offset it starts from, it never asks for a page again, nor for more pages
\* than there are numbers from its offset to the field's total.
THEOREM PagesAlwaysGoOn == Spec => PagesGoOn
<1>1. ASSUME ClientInv, Next, phase = "read", phase' = "ask"
      PROVE  next < next' /\ next' < Total'
  <2>1. /\ next' = page.offset + page.count /\ page.truncated
        /\ UNCHANGED <<server, field>>
        BY <1>1 DEF Next, Request, Read
  <2>2. PICK l \in Limits : page = Response(l)
        BY <1>1 DEF ClientInv, PageIsResponse
  <2>3. Total' = Total
        BY <2>1 DEF Total
  <2>4. QED BY <1>1, <2>1, <2>2, <2>3, ResponseLeadsOn DEF ClientInv
<1>2. ClientInv /\ [Next]_vars
        => [phase = "read" /\ phase' = "ask" => next < next' /\ next' < Total']_vars
      BY <1>1
<1>3. QED BY <1>2, ClientAlways, PTL DEF Spec, PagesGoOn
=============================================================================
