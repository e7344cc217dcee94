---------------------------- MODULE NXTreeProofs ----------------------------
(***************************************************************************)
(* Theorems about NXTree, for any objects, names and attributes: the slice *)
(* and the map of a group and of an attribute set stay in step, no         *)
(* operation moves an entry that it does not remove, the groups are nested *)
(* without a cycle, and so paths, views and Component lead to what is in   *)
(* the tree.                                                               *)
(*                                                                         *)
(* A recursive function of the model is a CHOOSE: before anything can be   *)
(* said of it, there has to be a function that satisfies its equation.     *)
(* That is RecursionExists for one over numbers, and for one over groups   *)
(* follows from Acyclic, the finiteness of the tree as its users see it.   *)
(***************************************************************************)
EXTENDS NXTree, SequenceTheorems, FiniteSetTheorems, WellFoundedInduction, TLAPS

-----------------------------------------------------------------------------
(* Recursion over numbers.                                                 *)

LEMMA LeastNat ==
  ASSUME NEW S \in SUBSET Nat, NEW n \in S
  PROVE  \E m \in S : \A k \in S : m <= k
<1> DEFINE R == {p \in Nat \X Nat : p[1] < p[2]}
<1>1. IsWellFoundedOn(R, Nat)
      BY NatLessThanWellFounded, Zenon DEF OpToRel
<1>2. PICK m \in S : \A k \in S : <<k, m>> \notin R
      BY <1>1, WFMin
<1>3. \A k \in S : ~(k < m)
      BY <1>2
<1>4. QED
      BY <1>3

LEMMA NatInd ==
  ASSUME NEW N \in Nat, NEW S, 0 \in S, \A i \in 0 .. N - 1 : i \in S => i + 1 \in S
  PROVE  0 .. N \subseteq S
<1> SUFFICES ASSUME NEW b \in (0 .. N) \ S PROVE FALSE
    OBVIOUS
<1> DEFINE M == (0 .. N) \ S
<1> HIDE DEF M
<1>0. M \in SUBSET Nat /\ b \in M
      BY DEF M
<1>1. PICK m \in M : \A k \in M : m <= k
      BY <1>0, LeastNat
<1> USE DEF M
<1>2. m - 1 \in 0 .. N - 1 /\ m - 1 \notin (0 .. N) \ S
      BY <1>1
<1>3. QED
      BY <1>1, <1>2

\* F takes a place i in 1 .. N and the value before it to the value there.
IsRule(F, N, T) == F \in [(1 .. N) \X T -> T]

Solves(f, n, T, a, F) ==
  /\ f \in [0 .. n -> T]
  /\ f[0] = a
  /\ \A i \in 1 .. n : f[i] = F[<<i, f[i - 1]>>]

LEMMA RecursionExists ==
  ASSUME NEW N \in Nat, NEW T, NEW a \in T, NEW F, IsRule(F, N, T)
  PROVE  \E f : Solves(f, N, T, a, F)
<1> DEFINE S == {n \in 0 .. N : \E f : Solves(f, n, T, a, F)}
<1> USE DEF IsRule
<1>1. 0 \in S
  <2>1. Solves([i \in 0 .. 0 |-> a], 0, T, a, F)
        BY DEF Solves
  <2>2. QED
        BY <2>1
<1>2. ASSUME NEW n \in 0 .. N - 1, n \in S PROVE n + 1 \in S
  <2>1. PICK f : Solves(f, n, T, a, F)
        BY <1>2
  <2> DEFINE x == F[<<n + 1, f[n]>>]
             g == [i \in 0 .. n + 1 |-> IF i = n + 1 THEN x ELSE f[i]]
  <2> USE DEF Solves
  <2>2. x \in T
        BY <2>1
  <2> HIDE DEF x
  <2>3. g \in [0 .. n + 1 -> T]
        BY <2>1, <2>2
  <2>4. g[0] = a
        BY <2>1
  <2>5. \A i \in 1 .. n : g[i] = F[<<i, g[i - 1]>>]
    <3> SUFFICES ASSUME NEW i \in 1 .. n PROVE g[i] = F[<<i, g[i - 1]>>]
        OBVIOUS
    <3>1. g[i] = f[i] /\ g[i - 1] = f[i - 1]
          OBVIOUS
    <3>2. QED
          BY <2>1, <3>1
  <2>6. g[n + 1] = F[<<n + 1, g[n]>>]
    <3>1. g[n + 1] = x /\ g[n] = f[n]
          OBVIOUS
    <3>2. QED
          BY <3>1 DEF x
  <2> HIDE DEF g
  <2>7. Solves(g, n + 1, T, a, F)
        BY <2>3, <2>4, <2>5, <2>6 DEF Solves
  <2> HIDE DEF Solves
  <2>8. QED
        BY <2>7
<1>3. N \in S
  <2> HIDE DEF S
  <2>1. QED
        BY <1>1, <1>2, NatInd
<1>4. QED
      BY <1>3

\* What solves a recursion is determined by it.
InLockStep(f, g, N) ==
  /\ f[0] = g[0]
  /\ \A i \in 1 .. N : f[i - 1] = g[i - 1] => f[i] = g[i]

LEMMA RecursionUnique ==
  ASSUME NEW N \in Nat, NEW f, NEW g, InLockStep(f, g, N)
  PROVE  \A i \in 0 .. N : f[i] = g[i]
<1> DEFINE S == {i \in 0 .. N : f[i] = g[i]}
<1> USE DEF InLockStep
<1>1. 0 \in S
      OBVIOUS
<1>2. ASSUME NEW i \in 0 .. N - 1, i \in S PROVE i + 1 \in S
  <2>1. i + 1 \in 1 .. N /\ (i + 1) - 1 = i
        OBVIOUS
  <2>2. f[i] = g[i] => f[i + 1] = g[i + 1]
        BY <2>1
  <2>3. QED
        BY <1>2, <2>1, <2>2
<1>3. 0 .. N \subseteq S
  <2> HIDE DEF S
  <2>1. QED
        BY <1>1, <1>2, NatInd
<1>4. QED
      BY <1>3

-----------------------------------------------------------------------------
(* OrderedMap.                                                             *)

\* m is an ordered map with keys in N.
Sound(m, N) == m.order \in Seq(N) /\ InStep(m)

LEMMA EmptyIsSound == ASSUME NEW N PROVE Sound(Empty, N)
BY DEF Sound, Empty, InStep, IsInjective, ToSet, Names

LEMMA PutIsSound ==
  ASSUME NEW N, NEW m, Sound(m, N), NEW n \in N, NEW x
  PROVE  Sound(Put(m, n, x), N)
<1> DEFINE p == Put(m, n, x)
<1>1. /\ m.order \in Seq(N)
      /\ IsInjective(m.order)
      /\ ToSet(m.order) = Names(m)
      BY DEF Sound, InStep
<1>2. Names(p) = Names(m) \cup {n}
      BY DEF Put, Names
<1>3. CASE n \in Names(m)
  <2>1. p.order = m.order
        BY <1>3 DEF Put
  <2>2. QED
        BY <1>1, <1>2, <1>3, <2>1 DEF Sound, InStep
<1>4. CASE n \notin Names(m)
  <2>1. p.order = Append(m.order, n)
        BY <1>4 DEF Put
  <2>2. /\ p.order \in Seq(N)
        /\ Len(p.order) = Len(m.order) + 1
        /\ \A i \in 1 .. Len(m.order) : p.order[i] = m.order[i]
        /\ p.order[Len(m.order) + 1] = n
        BY <1>1, <2>1, AppendProperties
  <2>3. \A i \in 1 .. Len(m.order) : m.order[i] # n
        BY <1>1, <1>4 DEF ToSet
  <2>4. IsInjective(p.order)
        BY <1>1, <2>2, <2>3 DEF IsInjective
  <2>5. ToSet(p.order) = ToSet(m.order) \cup {n}
    <3>1. DOMAIN p.order = (DOMAIN m.order) \cup {Len(m.order) + 1}
          BY <1>1, <2>2
    <3>2. \A i \in DOMAIN m.order : p.order[i] = m.order[i]
          BY <1>1, <2>2
    <3>3. QED
          BY <2>2, <3>1, <3>2 DEF ToSet
  <2>6. QED
        BY <1>1, <1>2, <2>2, <2>4, <2>5 DEF Sound, InStep
<1>5. QED
      BY <1>3, <1>4

\* What is there before a Put stays where it is.
LEMMA PutKeepsOrder ==
  ASSUME NEW N, NEW m, Sound(m, N), NEW n \in N, NEW x
  PROVE  SameOrder(m, Put(m, n, x))
<1> DEFINE p == Put(m, n, x)
<1>1. m.order \in Seq(N) /\ ToSet(m.order) = Names(m)
      BY DEF Sound, InStep
<1>2. CASE n \in Names(m)
  <2>1. p.order = m.order
        BY <1>2 DEF Put
  <2>2. QED
        BY <2>1 DEF SameOrder, Before
<1>3. CASE n \notin Names(m)
  <2>1. /\ Len(m.order) \in Nat
        /\ Len(p.order) = Len(m.order) + 1
        /\ \A i \in 1 .. Len(m.order) : p.order[i] = m.order[i]
        /\ p.order[Len(m.order) + 1] = n
        BY <1>1, <1>3, AppendProperties DEF Put
  <2> SUFFICES ASSUME NEW a \in Names(m), NEW b \in Names(m)
               PROVE  Before(m, a, b) <=> Before(p, a, b)
      BY DEF SameOrder
  <2>2. ASSUME Before(m, a, b) PROVE Before(p, a, b)
        BY <2>1, <2>2 DEF Before
  <2>3. ASSUME Before(p, a, b) PROVE Before(m, a, b)
    <3>1. PICK i, j \in 1 .. Len(p.order) :
                 i < j /\ p.order[i] = a /\ p.order[j] = b
          BY <2>3 DEF Before
    <3>2. j # Len(m.order) + 1
          BY <1>3, <2>1, <3>1
    <3>3. i \in 1 .. Len(m.order) /\ j \in 1 .. Len(m.order)
          BY <2>1, <3>1, <3>2
    <3>4. QED
          BY <2>1, <3>1, <3>3 DEF Before
  <2>4. QED
        BY <2>2, <2>3
<1>4. QED
      BY <1>2, <1>3

\* Drop closes the gap: what was behind it moves up by one.
LEMMA DropShifts ==
  ASSUME NEW N, NEW m, Sound(m, N), NEW n \in Names(m)
  PROVE  LET s == m.order
             t == Drop(m, n).order
         IN /\ t \in Seq(N)
            /\ \E k \in 1 .. Len(s) :
                 /\ s[k] = n
                 /\ Len(t) = Len(s) - 1
                 /\ \A i \in 1 .. Len(t) : t[i] = IF i < k THEN s[i] ELSE s[i + 1]
<1> DEFINE s == m.order
           t == Drop(m, n).order
<1>1. s \in Seq(N) /\ IsInjective(s) /\ ToSet(s) = Names(m)
      BY DEF Sound, InStep
<1>2. PICK k \in 1 .. Len(s) : s[k] = n
      BY <1>1 DEF ToSet
<1>3. {i \in 1 .. Len(s) : s[i] = n} = {k}
      BY <1>1, <1>2 DEF IsInjective
<1>4. Min({k}) = k
      BY DEF Min
<1>5. t = RemoveFirst(s, n)
      BY DEF Drop
<1> DEFINE a == SubSeq(s, 1, k - 1)
           b == SubSeq(s, k + 1, Len(s))
<1> HIDE DEF s, t
<1>6. t = a \o b
      BY <1>2, <1>3, <1>4, <1>5 DEF RemoveFirst, RemoveAt, SelectInSeq
<1> HIDE DEF a, b
<1>7. Len(s) \in Nat /\ k \in Nat
      BY <1>1
<1>8. \A i \in 1 .. Len(s) : s[i] \in N
      BY <1>1
<1>9. /\ a \in Seq(N)
      /\ Len(a) = k - 1
      /\ \A i \in 1 .. k - 1 : a[i] = s[i]
  <2>1. \A i \in 1 .. k - 1 : s[i] \in N
        BY <1>2, <1>7, <1>8
  <2>2. /\ a \in Seq(N)
        /\ Len(a) = IF 1 <= k - 1 THEN k - 1 - 1 + 1 ELSE 0
        /\ \A i \in 1 .. k - 1 - 1 + 1 : a[i] = s[1 + i - 1]
        BY <1>7, <2>1, SubSeqProperties DEF a
  <2>3. QED
        BY <1>2, <1>7, <2>2
<1>10. /\ b \in Seq(N)
       /\ Len(b) = Len(s) - k
       /\ \A i \in 1 .. Len(s) - k : b[i] = s[k + i]
  <2>1. \A i \in k + 1 .. Len(s) : s[i] \in N
        BY <1>2, <1>7, <1>8
  <2>2. /\ b \in Seq(N)
        /\ Len(b) = IF k + 1 <= Len(s) THEN Len(s) - (k + 1) + 1 ELSE 0
        /\ \A i \in 1 .. Len(s) - (k + 1) + 1 : b[i] = s[k + 1 + i - 1]
        BY <1>7, <2>1, SubSeqProperties DEF b
  <2>3. QED
        BY <1>2, <1>7, <2>2
<1>11. /\ t \in Seq(N)
       /\ Len(t) = Len(a) + Len(b)
       /\ \A i \in 1 .. Len(a) + Len(b) :
            t[i] = IF i <= Len(a) THEN a[i] ELSE b[i - Len(a)]
       BY <1>6, <1>9, <1>10, ConcatProperties
<1>12. Len(t) = Len(s) - 1
       BY <1>7, <1>9, <1>10, <1>11
<1>13. ASSUME NEW i \in 1 .. Len(t)
       PROVE  t[i] = IF i < k THEN s[i] ELSE s[i + 1]
  <2>1. CASE i < k
        BY <1>7, <1>9, <1>10, <1>11, <2>1
  <2>2. CASE ~(i < k)
    <3>1. t[i] = b[i - (k - 1)]
          BY <1>7, <1>9, <1>10, <1>11, <2>2
    <3>2. i - (k - 1) \in 1 .. Len(s) - k
          BY <1>2, <1>7, <1>12, <2>2
    <3>3. k + (i - (k - 1)) = i + 1
          BY <1>7
    <3>4. QED
          BY <1>10, <2>2, <3>1, <3>2, <3>3
  <2>3. QED
        BY <2>1, <2>2
<1>14. QED
       BY <1>2, <1>11, <1>12, <1>13 DEF s, t

LEMMA DropIsSound ==
  ASSUME NEW N, NEW m, Sound(m, N), NEW n \in Names(m)
  PROVE  Sound(Drop(m, n), N)
<1> DEFINE s == m.order
           t == Drop(m, n).order
<1>1. s \in Seq(N) /\ IsInjective(s) /\ ToSet(s) = Names(m)
      BY DEF Sound, InStep
<1>2. Len(s) \in Nat /\ DOMAIN s = 1 .. Len(s)
      BY <1>1
<1>3. t \in Seq(N)
      BY DropShifts
<1>4. PICK k \in 1 .. Len(s) :
             /\ s[k] = n
             /\ Len(t) = Len(s) - 1
             /\ \A i \in 1 .. Len(t) : t[i] = IF i < k THEN s[i] ELSE s[i + 1]
      BY DropShifts
<1>5. DOMAIN t = 1 .. Len(s) - 1
      BY <1>3, <1>4
<1>6. IsInjective(t)
  <2> SUFFICES ASSUME NEW i \in 1 .. Len(s) - 1, NEW j \in 1 .. Len(s) - 1,
                      t[i] = t[j]
               PROVE  i = j
      BY <1>5 DEF IsInjective
  <2>1. PICK x \in 1 .. Len(s) : t[i] = s[x] /\ x = IF i < k THEN i ELSE i + 1
        BY <1>2, <1>4
  <2>2. PICK y \in 1 .. Len(s) : t[j] = s[y] /\ y = IF j < k THEN j ELSE j + 1
        BY <1>2, <1>4
  <2>3. x = y
        BY <1>1, <1>2, <2>1, <2>2 DEF IsInjective
  <2>4. QED
        BY <1>2, <2>1, <2>2, <2>3
<1>7. ToSet(t) = Names(m) \ {n}
  <2>1. ASSUME NEW i \in 1 .. Len(s) - 1
        PROVE  t[i] \in Names(m) \ {n}
    <3>1. PICK x \in 1 .. Len(s) : t[i] = s[x] /\ x # k
          BY <1>2, <1>4
    <3>2. s[x] # n
          BY <1>1, <1>2, <1>4, <3>1 DEF IsInjective
    <3>3. QED
          BY <1>1, <1>2, <3>1, <3>2 DEF ToSet
  <2>2. ASSUME NEW o \in Names(m) \ {n}
        PROVE  \E i \in 1 .. Len(s) - 1 : t[i] = o
    <3>1. PICK x \in 1 .. Len(s) : s[x] = o
          BY <1>1, <1>2 DEF ToSet
    <3>2. x # k
          BY <1>4, <3>1
    <3>3. CASE x < k
          BY <1>2, <1>4, <3>1, <3>3
    <3>4. CASE x > k
      <4>1. x - 1 \in 1 .. Len(s) - 1 /\ ~(x - 1 < k) /\ (x - 1) + 1 = x
            BY <1>2, <3>4
      <4>2. QED
            BY <1>4, <3>1, <4>1
    <3>5. QED
          BY <1>2, <3>2, <3>3, <3>4
  <2>3. QED
        BY <1>5, <2>1, <2>2 DEF ToSet
<1>8. Names(Drop(m, n)) = Names(m) \ {n}
      BY DEF Drop, Names
<1>9. QED
      BY <1>3, <1>6, <1>7, <1>8 DEF Sound, InStep

LEMMA DropKeepsOrder ==
  ASSUME NEW N, NEW m, Sound(m, N), NEW n \in Names(m)
  PROVE  SameOrder(m, Drop(m, n))
<1> DEFINE s == m.order
           t == Drop(m, n).order
<1>1. s \in Seq(N)
      BY DEF Sound
<1>2. Len(s) \in Nat
      BY <1>1
<1>3. PICK k \in 1 .. Len(s) :
             /\ s[k] = n
             /\ Len(t) = Len(s) - 1
             /\ \A i \in 1 .. Len(t) : t[i] = IF i < k THEN s[i] ELSE s[i + 1]
      BY DropShifts
<1>4. Names(Drop(m, n)) = Names(m) \ {n}
      BY DEF Drop, Names
<1> SUFFICES ASSUME NEW a \in Names(m) \ {n}, NEW b \in Names(m) \ {n}
             PROVE  Before(m, a, b) <=> Before(Drop(m, n), a, b)
    BY <1>4 DEF SameOrder
<1>5. ASSUME Before(m, a, b) PROVE Before(Drop(m, n), a, b)
  <2>1. PICK i, j \in 1 .. Len(s) : i < j /\ s[i] = a /\ s[j] = b
        BY <1>5 DEF Before
  <2>2. i # k /\ j # k
        BY <1>3, <2>1
  <2>3. PICK x \in 1 .. Len(t) : t[x] = s[i] /\ x = IF i < k THEN i ELSE i - 1
        BY <1>2, <1>3, <2>2
  <2>4. PICK y \in 1 .. Len(t) : t[y] = s[j] /\ y = IF j < k THEN j ELSE j - 1
        BY <1>2, <1>3, <2>2
  <2>5. x < y
        BY <1>2, <2>1, <2>2, <2>3, <2>4
  <2>6. QED
        BY <2>1, <2>3, <2>4, <2>5 DEF Before
<1>6. ASSUME Before(Drop(m, n), a, b) PROVE Before(m, a, b)
  <2>1. PICK i, j \in 1 .. Len(t) : i < j /\ t[i] = a /\ t[j] = b
        BY <1>6 DEF Before
  <2> DEFINE x == IF i < k THEN i ELSE i + 1
             y == IF j < k THEN j ELSE j + 1
  <2>2. x \in 1 .. Len(s) /\ y \in 1 .. Len(s) /\ x < y
        BY <1>2, <1>3, <2>1
  <2>3. s[x] = a /\ s[y] = b
        BY <1>3, <2>1
  <2>4. QED
        BY <2>2, <2>3 DEF Before
<1>7. QED
      BY <1>5, <1>6

-----------------------------------------------------------------------------
(* The tree.                                                               *)

TreeTyped ==
  /\ DOMAIN children = GroupLike
  /\ DOMAIN attrs = Objects
  /\ name \in [Objects -> ChildNames]
  /\ parent \in [Objects -> GroupLike \cup {None}]

\* Slices and maps are in step, and the entries are objects.
TreeSound ==
  /\ \A g \in GroupLike : Sound(children[g], ChildNames)
  /\ \A o \in Objects : Sound(attrs[o], AttrNames)
  /\ \A g \in GroupLike : \A n \in Names(children[g]) : children[g].at[n] \in Objects

IInv == TreeTyped /\ TreeSound /\ KnowsItsPlace

LEMMA GroupsAreObjects == GroupLike \subseteq Objects
BY DEF Objects

LEMMA NamesAreNames ==
  ASSUME NEW N, NEW m, Sound(m, N) PROVE Names(m) \subseteq N
BY DEF Sound, InStep, ToSet

LEMMA NamesOfPut ==
  ASSUME NEW m, NEW n, NEW x
  PROVE  /\ Names(Put(m, n, x)) = Names(m) \cup {n}
         /\ \A l \in Names(m) \cup {n} :
              Put(m, n, x).at[l] = IF l = n THEN x ELSE m.at[l]
BY DEF Put, Names

LEMMA NamesOfDrop ==
  ASSUME NEW m, NEW n
  PROVE  /\ Names(Drop(m, n)) = Names(m) \ {n}
         /\ \A l \in Names(m) \ {n} : Drop(m, n).at[l] = m.at[l]
BY DEF Drop, Names

LEMMA NamesOfEmpty == Names(Empty) = {}
BY DEF Empty, Names

LEMMA IInvInit == TreeInit => IInv
<1> SUFFICES ASSUME TreeInit PROVE IInv
    OBVIOUS
<1>1. TreeTyped
      BY NXTreeAssumption DEF TreeInit, TreeTyped
<1>2. /\ \A g \in GroupLike : children[g] = Empty
      /\ \A o \in Objects : attrs[o] = Empty
      BY DEF TreeInit
<1>3. TreeSound
      BY <1>2, EmptyIsSound, NamesOfEmpty DEF TreeSound
<1>4. KnowsItsPlace
      BY <1>2, NamesOfEmpty DEF KnowsItsPlace
<1>5. QED
      BY <1>1, <1>3, <1>4 DEF IInv

LEMMA InsertKeeps ==
  ASSUME IInv, NEW g \in GroupLike, NEW n \in ChildNames, NEW o \in Objects,
         Insert(g, n, o)
  PROVE  IInv'
<1> USE DEF IInv
<1>1. \A h \in GroupLike :
        children'[h] = IF h = g THEN Put(children[g], n, o) ELSE children[h]
      BY DEF Insert, TreeTyped
<1>2. TreeTyped'
      BY DEF Insert, TreeTyped
<1>3. TreeSound'
  <2>1. \A h \in GroupLike : Sound(children'[h], ChildNames)
        BY <1>1, PutIsSound DEF TreeSound
  <2>2. \A h \in GroupLike : \A l \in Names(children'[h]) : children'[h].at[l] \in Objects
        BY <1>1, NamesOfPut DEF TreeSound
  <2>3. QED
        BY <2>1, <2>2 DEF Insert, TreeSound
<1>4. KnowsItsPlace'
  <2> SUFFICES ASSUME NEW h \in GroupLike, NEW l \in Names(children'[h])
               PROVE  LET c == children'[h].at[l] IN name'[c] = l /\ parent'[c] = h
      BY DEF KnowsItsPlace
  <2>1. /\ name' = [name EXCEPT ![o] = n]
        /\ parent' = [parent EXCEPT ![o] = g]
        BY DEF Insert
  <2>2. CASE h = g /\ l = n
    <3>1. children'[h].at[l] = o
          BY <1>1, <2>2, NamesOfPut
    <3>2. QED
          BY <2>1, <2>2, <3>1 DEF TreeTyped
  <2>3. CASE ~(h = g /\ l = n)
    <3>1. l \in Names(children[h]) /\ children'[h].at[l] = children[h].at[l]
          BY <1>1, <2>3, NamesOfPut
    <3>2. children[h].at[l] \in Objects /\ l \in ChildNames
          BY <3>1, NamesAreNames DEF TreeSound
    <3>3. children[h].at[l] # o
          BY <3>1, <3>2 DEF Insert, Attached, Kids
    <3>4. name[children[h].at[l]] = l /\ parent[children[h].at[l]] = h
          BY <3>1 DEF KnowsItsPlace
    <3>5. QED
          BY <2>1, <3>1, <3>2, <3>3, <3>4 DEF TreeTyped
  <2>4. QED
        BY <2>2, <2>3
<1>5. QED
      BY <1>2, <1>3, <1>4

LEMMA ConstructKeeps ==
  ASSUME IInv, NEW g \in GroupLike, NEW o \in Objects, NEW p \in Objects,
         Construct(g, o, p)
  PROVE  IInv'
<1> USE DEF IInv
<1> DEFINE one == Put(Empty, name[o], o)
           two == Put(one, name[p], p)
<1> HIDE DEF one, two
<1>1. \A h \in GroupLike : children'[h] = IF h = g THEN two ELSE children[h]
      BY DEF Construct, TreeTyped, one, two
<1>2. name[o] \in ChildNames /\ name[p] \in ChildNames
      BY DEF TreeTyped
<1>3. TreeTyped'
      BY DEF Construct, TreeTyped
<1>4. \A l \in Names(two) : \/ l = name[o] /\ two.at[l] = o
                            \/ l = name[p] /\ two.at[l] = p
  <2>1. Names(one) = {name[o]} /\ one.at[name[o]] = o
        BY NamesOfEmpty, NamesOfPut DEF one
  <2>2. QED
        BY <2>1, NamesOfPut DEF two
<1>5. TreeSound'
  <2>1. Sound(two, ChildNames)
        BY <1>2, EmptyIsSound, PutIsSound DEF one, two
  <2>2. \A h \in GroupLike : Sound(children'[h], ChildNames)
        BY <1>1, <2>1 DEF TreeSound
  <2>3. \A h \in GroupLike : \A l \in Names(children'[h]) : children'[h].at[l] \in Objects
        BY <1>1, <1>4 DEF TreeSound
  <2>4. QED
        BY <2>2, <2>3 DEF Construct, TreeSound
<1>6. KnowsItsPlace'
  <2> SUFFICES ASSUME NEW h \in GroupLike, NEW l \in Names(children'[h])
               PROVE  LET c == children'[h].at[l] IN name'[c] = l /\ parent'[c] = h
      BY DEF KnowsItsPlace
  <2>1. /\ name' = name
        /\ parent' = [parent EXCEPT ![o] = g, ![p] = g]
        BY DEF Construct
  <2>2. CASE h = g
    <3>1. \/ l = name[o] /\ children'[h].at[l] = o
          \/ l = name[p] /\ children'[h].at[l] = p
          BY <1>1, <1>4, <2>2
    <3>2. QED
          BY <2>1, <2>2, <3>1 DEF TreeTyped
  <2>3. CASE h # g
    <3>1. l \in Names(children[h]) /\ children'[h].at[l] = children[h].at[l]
          BY <1>1, <2>3
    <3>2. children[h].at[l] \in Objects /\ l \in ChildNames
          BY <3>1, NamesAreNames DEF TreeSound
    <3>3. children[h].at[l] \notin {o, p}
          BY <3>1, <3>2 DEF Construct, Attached, Kids
    <3>4. name[children[h].at[l]] = l /\ parent[children[h].at[l]] = h
          BY <3>1 DEF KnowsItsPlace
    <3>5. QED
          BY <2>1, <3>1, <3>2, <3>3, <3>4 DEF TreeTyped
  <2>4. QED
        BY <2>2, <2>3
<1>7. QED
      BY <1>3, <1>5, <1>6

LEMMA DeleteKeeps ==
  ASSUME IInv, NEW g \in GroupLike, NEW n \in ChildNames, Delete(g, n)
  PROVE  IInv'
<1> USE DEF IInv
<1>1. /\ n \in Names(children[g])
      /\ \A h \in GroupLike :
           children'[h] = IF h = g THEN Drop(children[g], n) ELSE children[h]
      BY DEF Delete, TreeTyped
<1>2. TreeTyped'
      BY DEF Delete, TreeTyped
<1>3. \A h \in GroupLike : \A l \in Names(children'[h]) :
        l \in Names(children[h]) /\ children'[h].at[l] = children[h].at[l]
      BY <1>1, NamesOfDrop
<1>4. \A h \in GroupLike : Sound(children'[h], ChildNames)
      BY <1>1, DropIsSound DEF TreeSound
<1>5. TreeSound'
      BY <1>3, <1>4 DEF Delete, TreeSound
<1>6. KnowsItsPlace'
      BY <1>3 DEF Delete, KnowsItsPlace
<1>7. QED
      BY <1>2, <1>5, <1>6

LEMMA AttrsKeep ==
  ASSUME IInv, NEW o \in Objects, NEW a \in AttrNames,
         SetAttr(o, a) \/ DeleteAttr(o, a)
  PROVE  IInv'
<1> USE DEF IInv
<1>1. TreeTyped' /\ KnowsItsPlace'
      BY DEF SetAttr, DeleteAttr, TreeTyped, KnowsItsPlace
<1>2. \A q \in Objects : Sound(attrs'[q], AttrNames)
  <2>1. CASE SetAttr(o, a)
        BY <2>1, PutIsSound DEF SetAttr, TreeSound, TreeTyped
  <2>2. CASE DeleteAttr(o, a)
        BY <2>2, DropIsSound DEF DeleteAttr, TreeSound, TreeTyped
  <2>3. QED
        BY <2>1, <2>2
<1>3. TreeSound'
      BY <1>2 DEF SetAttr, DeleteAttr, TreeSound
<1>4. QED
      BY <1>1, <1>3

LEMMA IInvNext == IInv /\ [TreeNext]_treeVars => IInv'
<1> SUFFICES ASSUME IInv, [TreeNext]_treeVars PROVE IInv'
    OBVIOUS
<1>1. CASE UNCHANGED treeVars
      BY <1>1 DEF treeVars, IInv, TreeTyped, TreeSound, KnowsItsPlace
<1>2. CASE TreeNext
      BY <1>2, InsertKeeps, ConstructKeeps, DeleteKeeps, AttrsKeep, NXTreeAssumption
         DEF TreeNext, Rearrange, ChangeAttr
<1>3. QED
      BY <1>1, <1>2

LEMMA TreeInvariant == TreeSpec => []IInv
BY IInvInit, IInvNext, PTL DEF TreeSpec

-----------------------------------------------------------------------------
(* Theorems.                                                               *)

\* No sequence of operations lets the slice and the map of a group or of an
\* attribute set come apart (group.go, attr.go).
THEOREM OrderAlwaysMatches == TreeSpec => []OrderMatchesEntries
<1>1. IInv => OrderMatchesEntries
      BY DEF IInv, TreeSound, Sound, OrderMatchesEntries
<1>2. QED
      BY <1>1, TreeInvariant, PTL

\* An object in a group has the name it has there and the group as its parent,
\* after any history of insertions, replacements and deletions (object.go): the
\* step from the object up that nxPath is made of is always right.
THEOREM PlaceAlwaysKnown == TreeSpec => []KnowsItsPlace
<1>1. IInv => KnowsItsPlace
      BY DEF IInv
<1>2. QED
      BY <1>1, TreeInvariant, PTL

LEMMA SameOrderAsSelf == ASSUME NEW m PROVE SameOrder(m, m)
BY DEF SameOrder

LEMMA EmptySaysNothing == ASSUME NEW m PROVE SameOrder(Empty, m)
BY NamesOfEmpty DEF SameOrder

LEMMA StepKeepsOrder ==
  IInv /\ [TreeNext]_treeVars =>
    [/\ \A g \in GroupLike : SameOrder(children[g], children'[g])
     /\ \A o \in Objects : SameOrder(attrs[o], attrs'[o])]_treeVars
<1> SUFFICES ASSUME IInv, TreeNext
             PROVE  /\ \A g \in GroupLike : SameOrder(children[g], children'[g])
                    /\ \A o \in Objects : SameOrder(attrs[o], attrs'[o])
    OBVIOUS
<1> USE DEF IInv
<1>1. ASSUME NEW g \in GroupLike, NEW n \in ChildNames, NEW o \in Objects, Insert(g, n, o)
      PROVE  /\ \A h \in GroupLike : SameOrder(children[h], children'[h])
             /\ attrs' = attrs
      BY <1>1, PutKeepsOrder, SameOrderAsSelf DEF Insert, TreeSound, TreeTyped
<1>2. ASSUME NEW g \in GroupLike, NEW o \in Objects, NEW p \in Objects, Construct(g, o, p)
      PROVE  /\ \A h \in GroupLike : SameOrder(children[h], children'[h])
             /\ attrs' = attrs
      BY <1>2, EmptySaysNothing, SameOrderAsSelf DEF Construct, TreeTyped
<1>3. ASSUME NEW g \in GroupLike, NEW n \in ChildNames, Delete(g, n)
      PROVE  /\ \A h \in GroupLike : SameOrder(children[h], children'[h])
             /\ attrs' = attrs
      BY <1>3, DropKeepsOrder, SameOrderAsSelf DEF Delete, TreeSound, TreeTyped
<1>4. ASSUME NEW o \in Objects, NEW a \in AttrNames, SetAttr(o, a)
      PROVE  /\ \A q \in Objects : SameOrder(attrs[q], attrs'[q])
             /\ children' = children
      BY <1>4, PutKeepsOrder, SameOrderAsSelf DEF SetAttr, TreeSound, TreeTyped
<1>5. ASSUME NEW o \in Objects, NEW a \in AttrNames, DeleteAttr(o, a)
      PROVE  /\ \A q \in Objects : SameOrder(attrs[q], attrs'[q])
             /\ children' = children
      BY <1>5, DropKeepsOrder, SameOrderAsSelf DEF DeleteAttr, TreeSound, TreeTyped
<1>6. QED
      BY <1>1, <1>2, <1>3, <1>4, <1>5, SameOrderAsSelf, NXTreeAssumption
         DEF TreeNext, Rearrange, ChangeAttr

\* Replacing or deleting an entry never moves the others, which a listing and
\* the order of a saved tree depend on (group.go:62-92, attr.go:45-107).
THEOREM OrderAlwaysKept == TreeSpec => OrderIsKept
<1>1. QED
      BY TreeInvariant, StepKeepsOrder, PTL DEF TreeSpec, OrderIsKept

-----------------------------------------------------------------------------
(* Groups in groups.                                                       *)

\* In every set of groups there is one that holds no other of the set.
Acyclic ==
  \A X \in SUBSET GroupLike :
    X # {} => \E h \in X : Kids(h) \cap X = {}

\* Nothing below g leads out of X.
Closed(X, g) ==
  /\ Kids(g) \subseteq X
  /\ \A h \in X \cap GroupLike : Kids(h) \subseteq X

\* What Under is of a group, in terms of what it is of the groups in it.
Unfolded ==
  \A g \in GroupLike :
    Under[g] = Kids(g) \cup UNION {Under[h] : h \in Kids(g) \cap GroupLike}

LEMMA UnderUnfolds == Unfolded
<1> DEFINE closed(g) == {X \in SUBSET GroupLike :
                          g \in X /\ \A h \in X : Kids(h) \cap GroupLike \subseteq X}
           from(g) == {h \in GroupLike : \A X \in closed(g) : h \in X}
           f == [g \in GroupLike |-> UNION {Kids(h) : h \in from(g)}]
<1>1. ASSUME NEW g \in GroupLike
      PROVE  from(g) \in closed(g)
      OBVIOUS
<1>2. ASSUME NEW g \in GroupLike, NEW X \in closed(g)
      PROVE  from(g) \subseteq X
      OBVIOUS
<1>3. ASSUME NEW g \in GroupLike
      PROVE  from(g) = {g} \cup UNION {from(h) : h \in Kids(g) \cap GroupLike}
  <2> DEFINE Z == {g} \cup UNION {from(h) : h \in Kids(g) \cap GroupLike}
  <2>1. Z \in closed(g)
    <3>1. Z \subseteq GroupLike /\ g \in Z
          OBVIOUS
    <3>2. ASSUME NEW h \in Z, NEW k \in Kids(h) \cap GroupLike PROVE k \in Z
      <4>1. CASE h = g
        <5>1. from(k) \in closed(k)
              BY <1>1
        <5>2. k \in from(k)
              BY <5>1
        <5> HIDE DEF from
        <5>3. QED
              BY <3>2, <4>1, <5>2
      <4>2. ASSUME NEW j \in Kids(g) \cap GroupLike, h \in from(j) PROVE k \in Z
        <5>1. from(j) \in closed(j)
              BY <1>1
        <5>2. k \in from(j)
              BY <3>2, <4>2, <5>1
        <5> HIDE DEF from
        <5>3. QED
              BY <5>2
      <4> HIDE DEF from
      <4>3. QED
            BY <4>1, <4>2
    <3>3. QED
          BY <3>1, <3>2
  <2>2. from(g) \subseteq Z
        BY <1>2, <2>1
  <2>3. ASSUME NEW h \in Kids(g) \cap GroupLike PROVE from(h) \subseteq from(g)
    <3>1. from(g) \in closed(g)
          BY <1>1
    <3>2. from(g) \in closed(h)
          BY <3>1
    <3>3. QED
          BY <1>2, <3>2
  <2>4. g \in from(g)
        OBVIOUS
  <2> HIDE DEF from
  <2>5. QED
        BY <2>2, <2>3, <2>4
<1> HIDE DEF from
<1>4. \A g \in GroupLike :
        f[g] = Kids(g) \cup UNION {f[h] : h \in Kids(g) \cap GroupLike}
  <2> SUFFICES ASSUME NEW g \in GroupLike
               PROVE  UNION {Kids(h) : h \in from(g)} =
                        Kids(g) \cup UNION {UNION {Kids(h) : h \in from(k)} :
                                             k \in Kids(g) \cap GroupLike}
      OBVIOUS
  <2>1. QED
        BY <1>3
<1> HIDE DEF f
<1>5. f = [g \in GroupLike |->
             Kids(g) \cup UNION {f[h] : h \in Kids(g) \cap GroupLike}]
  <2>1. f = [g \in GroupLike |-> f[g]]
        BY DEF f
  <2>2. QED
        BY <1>4, <2>1
<1>6. Under = [g \in GroupLike |->
                 Kids(g) \cup UNION {Under[h] : h \in Kids(g) \cap GroupLike}]
      BY <1>5 DEF Under
<1>7. QED
      BY <1>6 DEF Unfolded

\* Induction over what is below a group.
LEMMA Descent ==
  ASSUME Acyclic, NEW X, NEW g \in GroupLike, Closed(X, g)
  PROVE  Under[g] \subseteq X
<1> DEFINE B == {h \in GroupLike : Kids(h) \subseteq X /\ ~(Under[h] \subseteq X)}
<1> SUFFICES ASSUME g \in B PROVE FALSE
    BY DEF Closed
<1>1. PICK h \in B : Kids(h) \cap B = {}
      BY DEF Acyclic
<1>2. ASSUME NEW k \in Kids(h) \cap GroupLike PROVE Under[k] \subseteq X
      BY <1>1, <1>2 DEF Closed
<1>3. Under[h] \subseteq X
      BY <1>1, <1>2, UnderUnfolds DEF Unfolded
<1>4. QED
      BY <1>1, <1>3

LEMMA UnderIsClosed ==
  ASSUME Acyclic, NEW g \in GroupLike PROVE Closed(Under[g], g)
<1> DEFINE B == {h \in GroupLike : ~Closed(Under[h], h)}
<1> SUFFICES ASSUME g \in B PROVE FALSE
    OBVIOUS
<1>1. PICK h \in B : Kids(h) \cap B = {}
      BY DEF Acyclic
<1>2. Under[h] = Kids(h) \cup UNION {Under[k] : k \in Kids(h) \cap GroupLike}
      BY UnderUnfolds DEF Unfolded
<1>3. ASSUME NEW k \in Under[h] \cap GroupLike PROVE Kids(k) \subseteq Under[h]
  <2>1. CASE k \in Kids(h)
    <3>1. Kids(k) \subseteq Under[k]
          BY UnderUnfolds DEF Unfolded
    <3>2. QED
          BY <1>2, <2>1, <3>1
  <2>2. ASSUME NEW j \in Kids(h) \cap GroupLike, k \in Under[j]
        PROVE  Kids(k) \subseteq Under[h]
    <3>1. Closed(Under[j], j)
          BY <1>1
    <3>2. Kids(k) \subseteq Under[j]
          BY <1>3, <2>2, <3>1 DEF Closed
    <3>3. QED
          BY <1>2, <3>2
  <2>3. QED
        BY <1>2, <1>3, <2>1, <2>2
<1>4. Closed(Under[h], h)
      BY <1>2, <1>3 DEF Closed
<1>5. QED
      BY <1>1, <1>4
-----------------------------------------------------------------------------
(* No group comes to be below itself.                                      *)

RootIsTop == parent[Root] = None

TreeInv == IInv /\ RootIsTop /\ Acyclic

LEMMA KidsHaveParent ==
  ASSUME IInv, NEW g \in GroupLike, NEW o \in Kids(g)
  PROVE  /\ o \in Objects
         /\ name[o] \in Names(children[g])
         /\ children[g].at[name[o]] = o
         /\ parent[o] = g
<1>1. PICK n \in Names(children[g]) : o = children[g].at[n]
      BY DEF Kids
<1>2. QED
      BY <1>1 DEF IInv, TreeSound, KnowsItsPlace

\* Fewer children make no cycle, and neither do those of a group that no group
\* holds.
LEMMA FewerKids ==
  ASSUME Acyclic, \A h \in GroupLike : Kids(h)' \subseteq Kids(h)
  PROVE  Acyclic'
BY DEF Acyclic

LEMMA InsertAcyclic ==
  ASSUME TreeInv, NEW g \in GroupLike, NEW n \in ChildNames, NEW o \in Objects,
         Insert(g, n, o)
  PROVE  Acyclic'
<1>1. \A h \in GroupLike : Kids(h)' \subseteq IF h = g THEN Kids(h) \cup {o} ELSE Kids(h)
  <2>1. \A h \in GroupLike :
          children'[h] = IF h = g THEN Put(children[g], n, o) ELSE children[h]
        BY DEF Insert, TreeInv, IInv, TreeTyped
  <2>2. QED
        BY <2>1, NamesOfPut DEF Kids
<1> SUFFICES ASSUME NEW X \in SUBSET GroupLike, X # {}
             PROVE  \E h \in X : Kids(h)' \cap X = {}
    BY DEF Acyclic
<1>2. CASE o \in GroupLike /\ X \cap ({o} \cup Under[o]) # {}
  <2> DEFINE Y == X \cap ({o} \cup Under[o])
  <2>1. PICK h \in Y : Kids(h) \cap Y = {}
        BY <1>2 DEF TreeInv, Acyclic
  <2>2. Kids(h) \subseteq Under[o]
        BY <1>2, <2>1, UnderIsClosed DEF TreeInv, Closed
  <2>3. h # g
        BY <1>2, <2>1 DEF Insert
  <2>4. QED
        BY <1>1, <2>1, <2>2, <2>3
<1>3. CASE o \notin X
  <2>1. PICK h \in X : Kids(h) \cap X = {}
        BY DEF TreeInv, Acyclic
  <2>2. QED
        BY <1>1, <1>3, <2>1
<1>4. QED
      BY <1>2, <1>3

LEMMA ConstructAcyclic ==
  ASSUME TreeInv, NEW g \in GroupLike, NEW o \in Objects, NEW p \in Objects,
         Construct(g, o, p)
  PROVE  Acyclic'
<1>1. \A h \in GroupLike : Kids(h)' \subseteq IF h = g THEN {o, p} ELSE Kids(h)
  <2> DEFINE one == Put(Empty, name[o], o)
             two == Put(one, name[p], p)
  <2> HIDE DEF one, two
  <2>1. \A h \in GroupLike : children'[h] = IF h = g THEN two ELSE children[h]
        BY DEF Construct, TreeInv, IInv, TreeTyped, one, two
  <2>2. Names(one) = {name[o]} /\ one.at[name[o]] = o
        BY NamesOfEmpty, NamesOfPut DEF one
  <2>3. \A l \in Names(two) : two.at[l] \in {o, p}
        BY <2>2, NamesOfPut DEF two
  <2>4. QED
        BY <2>1, <2>3 DEF Kids
<1>2. \A h \in GroupLike : g \notin Kids(h)
      BY KidsHaveParent, NXTreeAssumption DEF Construct, TreeInv, Objects
<1>3. g \notin {o, p}
      BY DEF Construct
<1> SUFFICES ASSUME NEW X \in SUBSET GroupLike, X # {}
             PROVE  \E h \in X : Kids(h)' \cap X = {}
    BY DEF Acyclic
<1>4. CASE X \subseteq {g}
      BY <1>1, <1>3, <1>4
<1>5. CASE ~(X \subseteq {g})
  <2>1. PICK h \in X \ {g} : Kids(h) \cap (X \ {g}) = {}
        BY <1>5 DEF TreeInv, Acyclic
  <2>2. QED
        BY <1>1, <1>2, <2>1
<1>6. QED
      BY <1>4, <1>5

LEMMA TreeInvInit == TreeInit => TreeInv
<1> SUFFICES ASSUME TreeInit PROVE TreeInv
    OBVIOUS
<1>1. \A g \in GroupLike : Kids(g) = {}
      BY NamesOfEmpty DEF TreeInit, Kids
<1>2. Acyclic
      BY <1>1 DEF Acyclic
<1>3. RootIsTop
      BY NXTreeAssumption DEF TreeInit, RootIsTop, Objects, GroupLike
<1>4. QED
      BY <1>2, <1>3, IInvInit DEF TreeInv

LEMMA TreeInvNext == TreeInv /\ [TreeNext]_treeVars => TreeInv'
<1> SUFFICES ASSUME TreeInv, [TreeNext]_treeVars PROVE TreeInv'
    OBVIOUS
<1>0. RootIsTop /\ Root \in DOMAIN parent
      BY NXTreeAssumption DEF TreeInv, IInv, TreeTyped, Objects, GroupLike
<1>1. IInv'
      BY IInvNext DEF TreeInv
<1>2. ASSUME NEW g \in GroupLike, NEW n \in ChildNames, NEW o \in Objects, Insert(g, n, o)
      PROVE  Acyclic' /\ RootIsTop'
  <2>1. Acyclic'
        BY <1>2, InsertAcyclic
  <2>2. o # Root /\ parent' = [parent EXCEPT ![o] = g]
        BY <1>2 DEF Insert
  <2>3. QED
        BY <1>0, <2>1, <2>2 DEF RootIsTop
<1>3. ASSUME NEW g \in GroupLike, NEW o \in Objects, NEW p \in Objects, Construct(g, o, p)
      PROVE  Acyclic' /\ RootIsTop'
  <2>1. Acyclic'
        BY <1>3, ConstructAcyclic
  <2>2. Root \notin {o, p} /\ parent' = [parent EXCEPT ![o] = g, ![p] = g]
        BY <1>3 DEF Construct
  <2>3. QED
        BY <1>0, <2>1, <2>2 DEF RootIsTop
<1>4. ASSUME NEW g \in GroupLike, NEW n \in ChildNames, Delete(g, n)
      PROVE  Acyclic' /\ RootIsTop'
  <2>1. \A h \in GroupLike :
          children'[h] = IF h = g THEN Drop(children[g], n) ELSE children[h]
        BY <1>4 DEF Delete, TreeInv, IInv, TreeTyped
  <2>2. \A h \in GroupLike : Kids(h)' \subseteq Kids(h)
        BY <2>1, NamesOfDrop DEF Kids
  <2>3. QED
        BY <1>4, <2>2, FewerKids DEF Delete, RootIsTop, TreeInv
<1>5. ASSUME UNCHANGED children, UNCHANGED parent
      PROVE  Acyclic' /\ RootIsTop'
      BY <1>5, FewerKids DEF Kids, RootIsTop, TreeInv
<1>6. CASE UNCHANGED treeVars
      BY <1>1, <1>5, <1>6 DEF treeVars, TreeInv
<1>7. ASSUME NEW o \in Objects, NEW a \in AttrNames, SetAttr(o, a) \/ DeleteAttr(o, a)
      PROVE  Acyclic' /\ RootIsTop'
      BY <1>5, <1>7 DEF SetAttr, DeleteAttr
<1>8. CASE TreeNext
      BY <1>1, <1>2, <1>3, <1>4, <1>7, <1>8, NXTreeAssumption
         DEF TreeNext, Rearrange, ChangeAttr, TreeInv
<1>9. QED
      BY <1>6, <1>8

LEMMA TreeStaysTree == TreeSpec => []TreeInv
BY TreeInvInit, TreeInvNext, PTL DEF TreeSpec

-----------------------------------------------------------------------------
(* Walk, and Get on plain names.                                           *)

\* The way a path leads from g, one component at a time.
IsWalk(f, g, path) ==
  /\ f \in [0 .. Len(path) -> Objects \cup {None}]
  /\ f[0] = g
  /\ \A i \in 1 .. Len(path) : f[i] = Resolve(f[i - 1], path[i])

LEMMA ResolveType ==
  ASSUME TreeSound, NEW c, NEW n PROVE Resolve(c, n) \in Objects \cup {None}
BY DEF Resolve, TreeSound

LEMMA WalkWalks ==
  ASSUME TreeSound, NEW g \in Objects \cup {None}, NEW path \in Seq(ChildNames)
  PROVE  \E f : IsWalk(f, g, path) /\ Walk(g, path) = f[Len(path)]
<1> DEFINE N == Len(path)
           T == Objects \cup {None}
           F == [p \in (1 .. N) \X T |-> Resolve(p[2], path[p[1]])]
           at[i \in 0 .. N] == IF i = 0 THEN g ELSE Resolve(at[i - 1], path[i])
<1>1. N \in Nat /\ g \in T /\ IsRule(F, N, T)
      BY ResolveType DEF IsRule
<1>2. \A i \in 1 .. N, c \in T : F[<<i, c>>] = Resolve(c, path[i])
      OBVIOUS
<1>3. Walk(g, path) = at[N]
      BY Zenon DEF Walk
<1> HIDE DEF F, T, N
<1>4. PICK f : Solves(f, N, T, g, F)
      BY <1>1, RecursionExists
<1> USE DEF Solves
<1>5. \A i \in 1 .. N : f[i] = Resolve(f[i - 1], path[i])
  <2> SUFFICES ASSUME NEW i \in 1 .. N PROVE f[i] = Resolve(f[i - 1], path[i])
      OBVIOUS
  <2>1. f[i - 1] \in T
        BY <1>1, <1>4
  <2>2. QED
        BY <1>2, <1>4, <2>1
<1>6. at = [i \in 0 .. N |-> IF i = 0 THEN g ELSE Resolve(at[i - 1], path[i])]
  <2>1. \A i \in 0 .. N : f[i] = IF i = 0 THEN g ELSE Resolve(f[i - 1], path[i])
        BY <1>1, <1>4, <1>5
  <2>2. f = [i \in 0 .. N |-> IF i = 0 THEN g ELSE Resolve(f[i - 1], path[i])]
        BY <1>4, <2>1
  <2>3. QED
        BY <2>2
<1> HIDE DEF at
<1>7. \A i \in 1 .. N : at[i] = Resolve(at[i - 1], path[i])
      BY <1>1, <1>6
<1>8. at[0] = g
      BY <1>1, <1>6
<1>9. \A i \in 0 .. N : f[i] = at[i]
  <2>1. InLockStep(f, at, N)
        BY <1>4, <1>5, <1>7, <1>8 DEF InLockStep
  <2>2. QED
        BY <1>1, <2>1, RecursionUnique
<1>10. IsWalk(f, g, path)
       BY <1>4, <1>5 DEF IsWalk, N, T
<1>11. QED
       BY <1>1, <1>3, <1>9, <1>10 DEF N

LEMMA WalkEmpty ==
  ASSUME TreeSound, NEW g \in Objects \cup {None}, NEW path \in Seq(ChildNames), Len(path) = 0
  PROVE  Walk(g, path) = g
<1>1. \E f : IsWalk(f, g, path) /\ Walk(g, path) = f[Len(path)]
      BY WalkWalks
<1>2. \A f : IsWalk(f, g, path) => f[Len(path)] = g
      BY DEF IsWalk
<1>3. QED
      BY <1>1, <1>2

LEMMA WalkAppend ==
  ASSUME TreeSound, NEW g \in Objects \cup {None}, NEW path \in Seq(ChildNames), NEW n \in ChildNames
  PROVE  Walk(g, Append(path, n)) = Resolve(Walk(g, path), n)
<1> DEFINE N == Len(path)
           long == Append(path, n)
<1>1. /\ N \in Nat
      /\ long \in Seq(ChildNames)
      /\ Len(long) = N + 1
      /\ \A i \in 1 .. N : long[i] = path[i]
      /\ long[N + 1] = n
      BY AppendProperties
<1> HIDE DEF long, N
<1>2. PICK f : IsWalk(f, g, path) /\ Walk(g, path) = f[N]
      BY WalkWalks DEF N
<1>3. PICK h : IsWalk(h, g, long) /\ Walk(g, long) = h[N + 1]
      BY <1>1, WalkWalks
<1>4. \A i \in 1 .. N : f[i] = Resolve(f[i - 1], path[i])
      BY <1>2 DEF IsWalk, N
<1>5. \A i \in 1 .. N : h[i] = Resolve(h[i - 1], path[i])
  <2>1. \A i \in 1 .. N : i \in 1 .. Len(long)
        BY <1>1
  <2>2. QED
        BY <1>1, <1>3, <2>1 DEF IsWalk
<1>6. f[0] = h[0]
      BY <1>2, <1>3 DEF IsWalk
<1>7. \A i \in 0 .. N : f[i] = h[i]
  <2>1. InLockStep(f, h, N)
        BY <1>4, <1>5, <1>6 DEF InLockStep
  <2>2. QED
        BY <1>1, <2>1, RecursionUnique
<1>8. h[N + 1] = Resolve(h[N], n)
      BY <1>1, <1>3 DEF IsWalk
<1>9. QED
      BY <1>1, <1>2, <1>3, <1>7, <1>8 DEF long

LEMMA WalkOne ==
  ASSUME TreeSound, NEW c \in Objects \cup {None}, NEW n \in ChildNames
  PROVE  Walk(c, <<n>>) = Resolve(c, n)
<1>1. /\ <<>> \in Seq(ChildNames) /\ Len(<<>>) = 0
      /\ Append(<<>>, n) = <<n>>
      OBVIOUS
<1>2. Walk(c, <<>>) = c
      BY <1>1, WalkEmpty
<1>3. QED
      BY <1>1, <1>2, WalkAppend

\* A path of plain names leads where its names lead.
LEMMA PlainGet ==
  ASSUME TreeSound, NEW g \in Objects, NEW path \in Seq(ChildNames),
         \A i \in DOMAIN path : Plain(path[i])
  PROVE  Get(g, path) = Walk(g, path)
<1> DEFINE N == Len(path)
           at[i \in 0 .. N] == IF i = 0 THEN g ELSE Walk(at[i - 1], Parts[path[i]])
<1>1. N \in Nat /\ DOMAIN path = 1 .. N
      OBVIOUS
<1>2. Get(g, path) = at[N]
      BY Zenon DEF Get
<1> HIDE DEF N
<1>3. PICK f : IsWalk(f, g, path) /\ Walk(g, path) = f[N]
      BY WalkWalks DEF N
<1>4. f \in [0 .. N -> Objects \cup {None}] /\ f[0] = g
      BY <1>3 DEF IsWalk, N
<1>5. \A i \in 1 .. N : f[i] = Walk(f[i - 1], Parts[path[i]])
  <2> SUFFICES ASSUME NEW i \in 1 .. N PROVE f[i] = Walk(f[i - 1], Parts[path[i]])
      OBVIOUS
  <2>1. f[i - 1] \in Objects \cup {None} /\ path[i] \in ChildNames
        BY <1>1, <1>4
  <2>2. Parts[path[i]] = <<path[i]>>
        BY <1>1 DEF Plain
  <2>3. f[i] = Resolve(f[i - 1], path[i])
        BY <1>3 DEF IsWalk, N
  <2>4. QED
        BY <2>1, <2>2, <2>3, WalkOne
<1>6. at = [i \in 0 .. N |-> IF i = 0 THEN g ELSE Walk(at[i - 1], Parts[path[i]])]
  <2>1. \A i \in 0 .. N :
          f[i] = IF i = 0 THEN g ELSE Walk(f[i - 1], Parts[path[i]])
        BY <1>1, <1>4, <1>5
  <2>2. f = [i \in 0 .. N |-> IF i = 0 THEN g ELSE Walk(f[i - 1], Parts[path[i]])]
        BY <1>4, <2>1
  <2>3. QED
        BY <2>2
<1> HIDE DEF at
<1>7. at[0] = g /\ \A i \in 1 .. N : at[i] = Walk(at[i - 1], Parts[path[i]])
      BY <1>1, <1>6
<1>8. InLockStep(f, at, N)
      BY <1>4, <1>5, <1>7 DEF InLockStep
<1>9. f[N] = at[N]
      BY <1>1, <1>8, RecursionUnique
<1>10. QED
       BY <1>2, <1>3, <1>9

-----------------------------------------------------------------------------
(* Paths.                                                                  *)

\* s names the objects on the way from the root down to o, o among them.
IsChain(s, o) ==
  /\ s \in Seq(Objects)
  /\ Len(s) > 0
  /\ s[Len(s)] = o
  /\ parent[s[1]] = Root
  /\ \A i \in 1 .. Len(s) - 1 : parent[s[i + 1]] = s[i]

\* A sequence of two or more without its last.
LEMMA WithoutLast ==
  ASSUME NEW S, NEW s \in Seq(S), Len(s) # 0, Len(s) # 1
  PROVE  \E t \in Seq(S) :
           /\ Len(t) > 0
           /\ Len(s) = Len(t) + 1
           /\ \A i \in 1 .. Len(t) : t[i] = s[i]
           /\ s = Append(t, s[Len(s)])
<1> DEFINE k == Len(s)
           t == SubSeq(s, 1, k - 1)
<1>1. k \in Nat /\ (\A i \in 1 .. k : s[i] \in S)
      OBVIOUS
<1> HIDE DEF k
<1>2. k # 0 /\ k # 1
      BY DEF k
<1>3. /\ t \in Seq(S)
      /\ Len(t) = IF 1 <= k - 1 THEN k - 1 - 1 + 1 ELSE 0
      /\ \A i \in 1 .. k - 1 - 1 + 1 : t[i] = s[1 + i - 1]
  <2>1. \A i \in 1 .. k - 1 : s[i] \in S
        BY <1>1
  <2>2. k - 1 \in Int
        BY <1>1
  <2>3. QED
        BY <2>1, <2>2, SubSeqProperties
<1> HIDE DEF t
<1>4. Len(t) = k - 1 /\ Len(t) > 0 /\ k = Len(t) + 1
      BY <1>1, <1>2, <1>3
<1>5. \A i \in 1 .. Len(t) : t[i] = s[i]
      BY <1>1, <1>2, <1>3
<1> DEFINE u == Append(t, s[k])
<1>6. /\ u \in Seq(S)
      /\ Len(u) = k
      /\ \A i \in 1 .. k : u[i] = s[i]
  <2>1. s[k] \in S
        BY <1>1, <1>2
  <2>2. /\ u \in Seq(S)
        /\ Len(u) = Len(t) + 1
        /\ \A i \in 1 .. Len(t) : u[i] = t[i]
        /\ u[Len(t) + 1] = s[k]
        BY <1>3, <2>1, AppendProperties
  <2> HIDE DEF u
  <2>3. QED
        BY <1>1, <1>2, <1>4, <1>5, <2>2
<1> HIDE DEF u
<1>7. s = u
      BY <1>6 DEF k
<1>8. QED
      BY <1>3, <1>4, <1>5, <1>7 DEF k, u

LEMMA RootHasNoChain == ASSUME TreeInv, NEW s PROVE ~IsChain(s, Root)
<1> SUFFICES ASSUME IsChain(s, Root) PROVE FALSE
    OBVIOUS
<1>1. None # Root /\ None \notin Objects
      BY NXTreeAssumption DEF Objects, GroupLike
<1>2. s \in Seq(Objects) /\ Len(s) # 0 /\ s[Len(s)] = Root
      BY DEF IsChain
<1>3. CASE Len(s) = 1
      BY <1>1, <1>2, <1>3 DEF IsChain, TreeInv, RootIsTop
<1>4. CASE Len(s) # 1
  <2>1. PICK t \in Seq(Objects) :
               Len(t) > 0 /\ Len(s) = Len(t) + 1 /\ \A i \in 1 .. Len(t) : t[i] = s[i]
        BY <1>2, <1>4, WithoutLast
  <2>2. Len(t) \in 1 .. Len(s) - 1 /\ t[Len(t)] \in Objects
        BY <2>1
  <2>3. parent[Root] = t[Len(t)]
        BY <1>2, <2>1, <2>2 DEF IsChain
  <2>4. QED
        BY <1>1, <2>2, <2>3 DEF TreeInv, RootIsTop
<1>5. QED
      BY <1>3, <1>4

\* A longer chain holds that of the object before the last.
LEMMA ChainAbove ==
  ASSUME NEW o, NEW s, IsChain(s, o), Len(s) # 1
  PROVE  \E t : IsChain(t, parent[o]) /\ s = Append(t, o)
<1>1. s \in Seq(Objects) /\ Len(s) # 0 /\ s[Len(s)] = o
      BY DEF IsChain
<1>2. PICK t \in Seq(Objects) :
             /\ Len(t) > 0
             /\ Len(s) = Len(t) + 1
             /\ \A i \in 1 .. Len(t) : t[i] = s[i]
             /\ s = Append(t, s[Len(s)])
      BY <1>1, WithoutLast
<1>3. \A i \in 1 .. Len(t) : parent[s[i + 1]] = t[i]
      BY <1>2 DEF IsChain
<1>4. t[Len(t)] = parent[o]
      BY <1>1, <1>2, <1>3
<1>5. \A i \in 1 .. Len(t) - 1 : parent[t[i + 1]] = t[i]
      BY <1>2, <1>3
<1>6. parent[t[1]] = Root
      BY <1>2 DEF IsChain
<1>7. QED
      BY <1>1, <1>2, <1>4, <1>5, <1>6 DEF IsChain

LEMMA RootIsNotBelow == ASSUME TreeInv PROVE Root \notin Under[Root]
<1>1. \A g \in GroupLike : Root \notin Kids(g)
      BY KidsHaveParent, NXTreeAssumption DEF TreeInv, RootIsTop, Objects
<1>2. Closed(Objects \ {Root}, Root)
      BY <1>1, KidsHaveParent, NXTreeAssumption DEF Closed, TreeInv, GroupLike
<1>3. QED
      BY <1>2, Descent, NXTreeAssumption DEF TreeInv, GroupLike

\* The chain of a child of the root is the child.
LEMMA ChainOfRootsKid ==
  ASSUME TreeInv, NEW o \in Kids(Root), NEW s
  PROVE  IsChain(s, o) <=> s = <<o>>
<1>1. o \in Objects /\ parent[o] = Root
      BY KidsHaveParent, NXTreeAssumption DEF TreeInv, GroupLike
<1>2. IsChain(<<o>>, o)
      BY <1>1 DEF IsChain
<1>3. ASSUME IsChain(s, o), Len(s) # 1 PROVE FALSE
      BY <1>1, <1>3, ChainAbove, RootHasNoChain
<1>4. ASSUME IsChain(s, o) PROVE s = <<o>>
      BY <1>3, <1>4 DEF IsChain
<1>5. QED
      BY <1>2, <1>4

\* The chain of a child is that of its group, and the child.
LEMMA ChainOfKid ==
  ASSUME TreeInv, NEW h \in GroupLike, h # Root, NEW o \in Kids(h)
  PROVE  /\ \A t : IsChain(t, h) => IsChain(Append(t, o), o)
         /\ \A s : IsChain(s, o) => \E t : IsChain(t, h) /\ s = Append(t, o)
<1>1. o \in Objects /\ parent[o] = h
      BY KidsHaveParent DEF TreeInv
<1>2. ASSUME NEW t, IsChain(t, h) PROVE IsChain(Append(t, o), o)
  <2>1. t \in Seq(Objects) /\ Len(t) \in Nat /\ Len(t) > 0 /\ t[Len(t)] = h
        BY <1>2 DEF IsChain
  <2> DEFINE s == Append(t, o)
  <2>2. /\ s \in Seq(Objects)
        /\ Len(s) = Len(t) + 1
        /\ \A i \in 1 .. Len(t) : s[i] = t[i]
        /\ s[Len(t) + 1] = o
        BY <1>1, <2>1, AppendProperties
  <2> HIDE DEF s
  <2>3. ASSUME NEW i \in 1 .. Len(s) - 1 PROVE parent[s[i + 1]] = s[i]
    <3>1. CASE i = Len(t)
          BY <1>1, <2>1, <2>2, <3>1
    <3>2. CASE i # Len(t)
      <4>1. i \in 1 .. Len(t) - 1 /\ i \in 1 .. Len(t) /\ i + 1 \in 1 .. Len(t)
            BY <2>1, <2>2, <3>2
      <4>2. QED
            BY <1>2, <2>2, <4>1 DEF IsChain
    <3>3. QED
          BY <3>1, <3>2
  <2>4. QED
        BY <1>2, <2>1, <2>2, <2>3 DEF IsChain, s
<1>3. ASSUME NEW s, IsChain(s, o) PROVE \E t : IsChain(t, h) /\ s = Append(t, o)
  <2>1. Len(s) # 1
        BY <1>1, <1>3 DEF IsChain
  <2>2. QED
        BY <1>1, <1>3, <2>1, ChainAbove
<1>4. QED
      BY <1>2, <1>3

\* NXPath is the function that its definition describes: there is one.
LEMMA PathUnfolds ==
  ASSUME TreeInv
  PROVE  NXPath = [o \in {Root} \cup Under[Root] |->
                     IF parent[o] = None THEN <<>>
                     ELSE Append(NXPath[parent[o]], name[o])]
<1> DEFINE X == {o \in Under[Root] : \E s : IsChain(s, o)}
           Y == {o \in Under[Root] : \A s, t : IsChain(s, o) /\ IsChain(t, o) => s = t}
           chain(o) == CHOOSE s : IsChain(s, o)
           f == [o \in {Root} \cup Under[Root] |->
                   IF o = Root THEN <<>>
                   ELSE [i \in 1 .. Len(chain(o)) |-> name[chain(o)[i]]]]
<1>1. /\ Root \in GroupLike /\ Root \in Objects
      /\ Root \notin Under[Root]
      /\ Closed(Under[Root], Root)
      /\ \A o \in Objects : parent[o] \in GroupLike \cup {None}
      BY RootIsNotBelow, UnderIsClosed, NXTreeAssumption
         DEF TreeInv, IInv, TreeTyped, GroupLike, Objects
<1>2. Under[Root] \subseteq X
  <2>1. \A o \in Kids(Root) : IsChain(<<o>>, o)
        BY ChainOfRootsKid
  <2>2. Closed(X, Root)
        BY <1>1, <2>1, ChainOfKid DEF Closed
  <2>3. QED
        BY <1>1, <2>2, Descent DEF TreeInv
<1>3. Under[Root] \subseteq Y
  <2>1. \A h \in Y \cap GroupLike : Kids(h) \subseteq Y
    <3> SUFFICES ASSUME NEW h \in Y \cap GroupLike, NEW o \in Kids(h),
                        NEW s, NEW t, IsChain(s, o), IsChain(t, o)
                 PROVE  s = t
        BY <1>1 DEF Closed
    <3>1. h # Root
          BY <1>1
    <3>2. PICK a : IsChain(a, h) /\ s = Append(a, o)
          BY <3>1, ChainOfKid
    <3>3. PICK b : IsChain(b, h) /\ t = Append(b, o)
          BY <3>1, ChainOfKid
    <3>4. a = b
          BY <3>2, <3>3
    <3>5. QED
          BY <3>2, <3>3, <3>4
  <2>2. Closed(Y, Root)
        BY <1>1, <2>1, ChainOfRootsKid DEF Closed
  <2>3. QED
        BY <1>1, <2>2, Descent DEF TreeInv
<1> HIDE DEF X, Y
<1>4. \A o \in Under[Root] : IsChain(chain(o), o)
      BY <1>2 DEF X
<1>5. \A o \in Under[Root] : \A s : IsChain(s, o) => s = chain(o)
      BY <1>3, <1>4 DEF Y
<1> HIDE DEF chain
<1>6. \A o \in Kids(Root) : f[o] = Append(f[Root], name[o])
  <2> SUFFICES ASSUME NEW o \in Kids(Root) PROVE f[o] = Append(f[Root], name[o])
      OBVIOUS
  <2>1. o \in Under[Root]
        BY <1>1 DEF Closed
  <2>2. chain(o) = <<o>>
        BY <1>5, <2>1, ChainOfRootsKid
  <2>3. f[Root] = <<>> /\ f[o] = [i \in 1 .. 1 |-> name[o]]
        BY <1>1, <2>1, <2>2
  <2> HIDE DEF f
  <2>4. QED
        BY <2>3
<1>7. \A h \in Under[Root] \cap GroupLike : \A o \in Kids(h) :
        f[o] = Append(f[h], name[o])
  <2> SUFFICES ASSUME NEW h \in Under[Root] \cap GroupLike, NEW o \in Kids(h)
               PROVE  f[o] = Append(f[h], name[o])
      OBVIOUS
  <2>1. o \in Under[Root] /\ h # Root /\ o # Root
        BY <1>1 DEF Closed
  <2>2. chain(o) = Append(chain(h), o)
        BY <1>4, <1>5, <2>1, ChainOfKid
  <2>3. chain(h) \in Seq(Objects) /\ o \in Objects
        BY <1>4, KidsHaveParent DEF IsChain, TreeInv
  <2> DEFINE c == chain(h)
             d == chain(o)
  <2> HIDE DEF c, d
  <2>4. Len(c) \in Nat /\ Len(d) = Len(c) + 1 /\ d[Len(c) + 1] = o
        /\ \A i \in 1 .. Len(c) : d[i] = c[i]
        BY <2>2, <2>3, AppendProperties DEF c, d
  <2>5. f[o] = [i \in 1 .. Len(d) |-> name[d[i]]]
        BY <2>1 DEF d
  <2>6. f[h] = [i \in 1 .. Len(c) |-> name[c[i]]]
        BY <2>1 DEF c
  <2> HIDE DEF f
  <2>7. Append(f[h], name[o]) = [i \in 1 .. Len(d) |-> name[d[i]]]
        BY <2>4, <2>6
  <2>8. QED
        BY <2>5, <2>7
<1>8. f[Root] = <<>>
      BY <1>1
<1>9. ASSUME NEW o \in Under[Root]
      PROVE  parent[o] # None /\ f[o] = Append(f[parent[o]], name[o])
  <2> DEFINE Z == {k \in Under[Root] :
                     parent[k] # None /\ f[k] = Append(f[parent[k]], name[k])}
  <2> HIDE DEF f
  <2>1. \A h \in GroupLike : h # None /\ \A k \in Kids(h) : parent[k] = h
        BY KidsHaveParent, NXTreeAssumption DEF TreeInv, Objects
  <2>2. Closed(Z, Root)
        BY <1>1, <1>6, <1>7, <2>1 DEF Closed
  <2>3. QED
        BY <1>1, <2>2, Descent DEF TreeInv
<1>10. f = [o \in {Root} \cup Under[Root] |->
              IF parent[o] = None THEN <<>> ELSE Append(f[parent[o]], name[o])]
  <2>1. f = [o \in {Root} \cup Under[Root] |-> f[o]]
        OBVIOUS
  <2> HIDE DEF f
  <2>2. QED
        BY <1>8, <1>9, <2>1 DEF TreeInv, RootIsTop
<1> HIDE DEF f
<1>11. QED
       BY <1>10 DEF NXPath, InTree

LEMMA PathOfRoot == ASSUME TreeInv PROVE NXPath[Root] = <<>>
BY PathUnfolds DEF TreeInv, RootIsTop

\* The path of a child is that of its group and its name there.
LEMMA PathOfKid ==
  ASSUME TreeInv, NEW h \in {Root} \cup (Under[Root] \cap GroupLike), NEW o \in Kids(h)
  PROVE  o \in Under[Root] /\ NXPath[o] = Append(NXPath[h], name[o])
<1>1. h \in GroupLike /\ Root \in GroupLike
      BY NXTreeAssumption DEF GroupLike
<1>2. o \in Under[Root]
      BY <1>1, UnderIsClosed DEF TreeInv, Closed
<1>3. parent[o] = h /\ h # None
      BY <1>1, KidsHaveParent, NXTreeAssumption DEF TreeInv, Objects
<1>4. QED
      BY <1>2, <1>3, PathUnfolds

LEMMA PathTypes ==
  ASSUME TreeInv
  PROVE  /\ \A o \in Under[Root] : o \in Objects /\ NXPath[o] \in Seq(ChildNames)
         /\ NXPath[Root] \in Seq(ChildNames)
<1> DEFINE X == {o \in Under[Root] : o \in Objects /\ NXPath[o] \in Seq(ChildNames)}
<1>1. NXPath[Root] = <<>> /\ Root \in GroupLike
      BY PathOfRoot, NXTreeAssumption DEF GroupLike
<1>2. ASSUME NEW h \in {Root} \cup (Under[Root] \cap GroupLike), NEW o \in Kids(h),
             NXPath[h] \in Seq(ChildNames)
      PROVE  o \in X
  <2>1. o \in Objects /\ name[o] \in ChildNames
        BY <1>1, KidsHaveParent DEF TreeInv, IInv, TreeTyped
  <2>2. o \in Under[Root] /\ NXPath[o] = Append(NXPath[h], name[o])
        BY PathOfKid
  <2>3. Append(NXPath[h], name[o]) \in Seq(ChildNames)
        BY <1>2, <2>1, AppendProperties
  <2>4. QED
        BY <2>1, <2>2, <2>3
<1>3. \A h \in X \cap GroupLike : Kids(h) \subseteq X
      BY <1>2
<1>4. Kids(Root) \subseteq X
  <2>1. NXPath[Root] \in Seq(ChildNames)
        BY <1>1
  <2>2. QED
        BY <1>2, <2>1
<1>5. Closed(X, Root)
      BY <1>3, <1>4 DEF Closed
<1>6. QED
      BY <1>1, <1>5, Descent DEF TreeInv

\* What a group of the tree has under a name is found under its path and the name.
LEMMA KidIsFound ==
  ASSUME TreeInv, NEW h \in {Root} \cup (Under[Root] \cap GroupLike),
         Walk(Root, NXPath[h]) = h, NEW n \in Names(children[h])
  PROVE  Walk(Root, Append(NXPath[h], n)) = children[h].at[n]
<1>1. h \in GroupLike /\ Root \in Objects
      BY NXTreeAssumption DEF GroupLike, Objects
<1>2. n \in ChildNames
      BY <1>1, NamesAreNames DEF TreeInv, IInv, TreeSound
<1>3. Walk(Root, Append(NXPath[h], n)) = Resolve(h, n)
      BY <1>1, <1>2, WalkAppend, PathTypes DEF TreeInv, IInv
<1>4. QED
      BY <1>1, <1>3 DEF Resolve

LEMMA RootIsFound == ASSUME TreeInv PROVE Walk(Root, NXPath[Root]) = Root
<1>1. Root \in Objects /\ NXPath[Root] \in Seq(ChildNames) /\ Len(NXPath[Root]) = 0
      BY PathOfRoot, PathTypes, NXTreeAssumption DEF GroupLike, Objects
<1>2. QED
      BY <1>1, WalkEmpty DEF TreeInv, IInv

\* The names on the way to an object lead to it.
LEMMA EachIsFound ==
  ASSUME TreeInv
  PROVE  \A o \in Under[Root] : Walk(Root, NXPath[o]) = o
<1> DEFINE X == {o \in Under[Root] : Walk(Root, NXPath[o]) = o}
<1>1. ASSUME NEW h \in {Root} \cup (Under[Root] \cap GroupLike),
             Walk(Root, NXPath[h]) = h, NEW o \in Kids(h)
      PROVE  o \in X
  <2>1. h \in GroupLike
        BY NXTreeAssumption DEF GroupLike
  <2>2. name[o] \in Names(children[h]) /\ children[h].at[name[o]] = o
        BY <2>1, KidsHaveParent DEF TreeInv
  <2>3. QED
        BY <1>1, <2>2, KidIsFound, PathOfKid
<1>2. Closed(X, Root)
      BY <1>1, RootIsFound DEF Closed
<1>3. Under[Root] \subseteq X
      BY <1>2, Descent, NXTreeAssumption DEF TreeInv, GroupLike
<1>4. QED
      BY <1>3

\* Two objects of the tree have two paths.
LEMMA PathsDiffer ==
  ASSUME TreeInv, NEW o \in {Root} \cup Under[Root], NEW p \in {Root} \cup Under[Root],
         NXPath[o] = NXPath[p]
  PROVE  o = p
<1>1. Walk(Root, NXPath[o]) = o /\ Walk(Root, NXPath[p]) = p
      BY EachIsFound, RootIsFound
<1>2. QED
      BY <1>1

LEMMA PlainsAreFound == ASSUME TreeInv PROVE PathsResolve
<1> SUFFICES ASSUME NEW o \in Under[Root],
                    \A i \in DOMAIN NXPath[o] : Plain(NXPath[o][i])
             PROVE  Get(Root, NXPath[o]) = o
    BY DEF PathsResolve
<1>1. Root \in Objects /\ NXPath[o] \in Seq(ChildNames)
      BY PathTypes, NXTreeAssumption DEF GroupLike, Objects
<1>2. Get(Root, NXPath[o]) = Walk(Root, NXPath[o])
      BY <1>1, PlainGet DEF TreeInv, IInv
<1>3. QED
      BY <1>2, EachIsFound

\* An object that is in the tree is found under the path it gives itself, if the
\* names on its way are plain, whatever was inserted, replaced, deleted and
\* inserted again before (object.go, group.go): no stale name or parent is ever
\* on its way up, and the parts of the path are the names on its way down.
THEOREM PathsAlwaysResolve == TreeSpec => []PathsResolve
BY TreeStaysTree, PlainsAreFound, PTL

LEMMA AllAreShown ==
  ASSUME TreeInv, NEW g \in GroupLike
  PROVE  Len(Briefs(g)) = Cardinality(Names(children[g]))
<1> DEFINE s == children[g].order
<1>1. /\ s \in Seq(ChildNames)
      /\ \A i, j \in DOMAIN s : s[i] = s[j] => i = j
      /\ ToSet(s) = Names(children[g])
      BY DEF TreeInv, IInv, TreeSound, Sound, InStep, IsInjective
<1>2. Len(s) \in Nat /\ DOMAIN s = 1 .. Len(s) /\ s = [i \in 1 .. Len(s) |-> s[i]]
      BY <1>1
<1>3. s \in Bijection(1 .. Len(s), Names(children[g]))
  <2>1. s \in [1 .. Len(s) -> Names(children[g])]
        BY <1>1, <1>2 DEF ToSet
  <2>2. \A n \in Names(children[g]) : \E i \in 1 .. Len(s) : s[i] = n
        BY <1>1, <1>2 DEF ToSet
  <2> HIDE DEF s
  <2>3. QED
        BY <1>1, <1>2, <2>1, <2>2 DEF Bijection, Injection, Surjection, IsInjective
<1>4. Cardinality(Names(children[g])) = Len(s)
      BY <1>2, <1>3, FS_CountingElements DEF ExistsBijection
<1>5. Len(Briefs(g)) = Len(s)
      BY <1>2 DEF Briefs
<1>6. QED
      BY <1>4, <1>5

LEMMA ViewsAreRight == ASSUME TreeInv PROVE ViewsLeadOn
<1> SUFFICES ASSUME NEW g \in {Root} \cup (Under[Root] \cap GroupLike),
                    \A i \in DOMAIN NXPath[g] : Plain(NXPath[g][i])
             PROVE  LET path == NXPath[g]
                        view == BuildGroup(path)
                        At(b) == Append(path, b.name)
                    IN /\ view.class = ClassOf[g]
                       /\ Len(view.children) = Cardinality(Names(children[g]))
                       /\ \A b \in {c \in ToSet(view.children) : Plain(c.name)} :
                            /\ b.type = "field" <=> GetField(Root, At(b)) \in Fields
                            /\ b.type = "group" <=> GetGroup(Root, At(b)) \in Groups
                            /\ b.type = "group" => BuildGroup(At(b)).class = b.class
    BY DEF ViewsLeadOn
<1> DEFINE path == NXPath[g]
           At(b) == Append(path, b.name)
<1>1. /\ g \in GroupLike /\ None \notin Objects /\ Groups \subseteq GroupLike
      /\ Root \in Objects
      BY NXTreeAssumption DEF GroupLike, Objects
<1>2. path \in Seq(ChildNames)
      BY PathTypes
<1>3. Walk(Root, path) = g /\ Get(Root, path) = g
  <2>1. Walk(Root, path) = g
        BY EachIsFound, RootIsFound
  <2>2. Get(Root, path) = Walk(Root, path)
        BY <1>1, <1>2, PlainGet DEF TreeInv, IInv
  <2>3. QED
        BY <2>1, <2>2
<1>4. BuildGroup(path) =
        [class |-> ClassOf[g], attrs |-> attrs[g].at, children |-> Briefs(g)]
      BY <1>1, <1>3 DEF BuildGroup, GetGroup, Objects
<1>5. ASSUME NEW b \in ToSet(Briefs(g)), Plain(b.name)
      PROVE  /\ b.type = "field" <=> GetField(Root, At(b)) \in Fields
             /\ b.type = "group" <=> GetGroup(Root, At(b)) \in Groups
             /\ b.type = "group" => BuildGroup(At(b)).class = b.class
  <2>1. PICK i \in DOMAIN children[g].order :
               b = BriefOf(children[g].order[i], children[g].at[children[g].order[i]])
        BY DEF Briefs, ToSet
  <2> DEFINE n == children[g].order[i]
             o == children[g].at[n]
  <2>2. n \in Names(children[g]) /\ n \in ChildNames
    <3>1. n \in Names(children[g])
          BY <1>1, <2>1 DEF ToSet, TreeInv, IInv, TreeSound, Sound, InStep
    <3>2. Names(children[g]) \subseteq ChildNames
          BY <1>1, NamesAreNames DEF TreeInv, IInv, TreeSound
    <3>3. QED
          BY <3>1, <3>2
  <2>3. o \in Objects
        BY <1>1, <2>2 DEF TreeInv, IInv, TreeSound
  <2> HIDE DEF n, o
  <2>4. /\ b.name = n
        /\ b.type = CASE o \in Fields -> "field"
                      [] o \in Groups -> "group"
                      [] OTHER -> "NXlink"
        /\ b.class = IF o \in Groups THEN ClassOf[o] ELSE "none"
        BY <2>1 DEF BriefOf, n, o
  <2>5. Get(Root, At(b)) = o
    <3>1. Walk(Root, At(b)) = o
          BY <1>3, <2>2, <2>4, KidIsFound DEF n, o
    <3>2. /\ At(b) \in Seq(ChildNames)
          /\ \A k \in DOMAIN At(b) : Plain(At(b)[k])
      <4> DEFINE p == NXPath[g]
      <4>1. p \in Seq(ChildNames) /\ \A k \in DOMAIN p : Plain(p[k])
            BY <1>2
      <4>2. At(b) = Append(p, n)
            BY <2>4
      <4> HIDE DEF p, At
      <4>3. /\ Append(p, n) \in Seq(ChildNames)
            /\ DOMAIN Append(p, n) = 1 .. Len(p) + 1 /\ Len(p) \in Nat
            /\ DOMAIN p = 1 .. Len(p)
            /\ \A k \in 1 .. Len(p) : Append(p, n)[k] = p[k]
            /\ Append(p, n)[Len(p) + 1] = n
            BY <2>2, <4>1, AppendProperties
      <4>4. Plain(n)
            BY <1>5, <2>4
      <4>5. \A k \in DOMAIN Append(p, n) : Plain(Append(p, n)[k])
            BY <4>1, <4>3, <4>4
      <4>6. QED
            BY <4>2, <4>3, <4>5
    <3>3. QED
          BY <1>1, <3>1, <3>2, PlainGet DEF TreeInv, IInv
  <2>6. GetField(Root, At(b)) = IF o \in Fields \cup LinkFields THEN o ELSE None
        BY <2>5 DEF GetField
  <2>7. GetGroup(Root, At(b)) = IF o \in GroupLike THEN o ELSE None
        BY <2>5 DEF GetGroup
  <2>8. None \notin Fields \cup Groups /\ Fields \cap Groups = {}
        BY NXTreeAssumption DEF Objects, GroupLike
  <2>9. ASSUME o \in Groups PROVE BuildGroup(At(b)).class = ClassOf[o]
        BY <1>1, <2>3, <2>7, <2>9 DEF BuildGroup
  <2> HIDE DEF At
  <2>10. CASE o \in Fields
         BY <2>4, <2>6, <2>7, <2>8, <2>10
  <2>11. CASE o \in Groups
         BY <1>1, <2>4, <2>6, <2>7, <2>8, <2>9, <2>11
  <2>12. CASE o \notin Fields \cup Groups
         BY <2>4, <2>6, <2>7, <2>8, <2>12
  <2>13. QED
         BY <2>10, <2>11, <2>12
<1>6. QED
      BY <1>1, <1>4, <1>5, AllAreShown

\* Who walks the tree of a file through the views of the Go server, from the root
\* and on to what a listing names, sees all of it and each entry for what it is
\* (nexusview.go, group.go).
THEOREM ViewsAlwaysLeadOn == TreeSpec => []ViewsLeadOn
BY TreeStaysTree, ViewsAreRight, PTL
-----------------------------------------------------------------------------

GroupSeqs == Seq(GroupLike)

\* p says of each group that is a child of g what is found below it.
Knows(p, g) == \A h \in Kids(g) \cap GroupLike : p[h] \in GroupSeqs

\* u is what FoundIn has gathered of g after each of its children.
Gathers(u, class, p, g) ==
  LET s == children[g].order
  IN /\ u \in [0 .. Len(s) -> GroupSeqs]
     /\ u[0] = <<>>
     /\ \A i \in 1 .. Len(s) :
          u[i] = u[i - 1] \o FoundAt(class, p, children[g].at[s[i]])

LEMMA ListedKids ==
  ASSUME IInv, NEW g \in GroupLike
  PROVE  LET s == children[g].order
         IN /\ s \in Seq(ChildNames)
            /\ Len(s) \in Nat
            /\ \A i \in 1 .. Len(s) : children[g].at[s[i]] \in Kids(g)
            /\ \A i, j \in 1 .. Len(s) :
                 children[g].at[s[i]] = children[g].at[s[j]] => i = j
            /\ \A o \in Kids(g) : \E i \in 1 .. Len(s) : o = children[g].at[s[i]]
<1> DEFINE s == children[g].order
<1>1. s \in Seq(ChildNames) /\ IsInjective(s) /\ ToSet(s) = Names(children[g])
      BY DEF IInv, TreeSound, Sound, InStep
<1>2. Len(s) \in Nat /\ DOMAIN s = 1 .. Len(s)
      BY <1>1
<1>3. \A i \in 1 .. Len(s) : s[i] \in Names(children[g])
      BY <1>1, <1>2 DEF ToSet
<1>4. \A n \in Names(children[g]) : name[children[g].at[n]] = n
      BY DEF IInv, KnowsItsPlace
<1>5. \A i, j \in 1 .. Len(s) : children[g].at[s[i]] = children[g].at[s[j]] => i = j
      BY <1>1, <1>2, <1>3, <1>4 DEF IsInjective
<1>6. \A o \in Kids(g) : \E i \in 1 .. Len(s) : o = children[g].at[s[i]]
      BY <1>1, <1>2 DEF Kids, ToSet
<1>7. QED
      BY <1>1, <1>2, <1>3, <1>5, <1>6 DEF Kids

\* Two sequences without repetition that share nothing, one behind the other.
LEMMA ConcatOnce ==
  ASSUME NEW T, NEW a \in Seq(T), NEW b \in Seq(T), IsInjective(a), IsInjective(b),
         ToSet(a) \cap ToSet(b) = {}
  PROVE  /\ a \o b \in Seq(T)
         /\ IsInjective(a \o b)
         /\ ToSet(a \o b) = ToSet(a) \cup ToSet(b)
<1> DEFINE c == a \o b
           m == Len(a)
           n == Len(b)
<1>1. m \in Nat /\ DOMAIN a = 1 .. m /\ n \in Nat /\ DOMAIN b = 1 .. n
      OBVIOUS
<1>2. /\ c \in Seq(T)
      /\ Len(c) = m + n
      /\ \A i \in 1 .. m + n : c[i] = IF i <= m THEN a[i] ELSE b[i - m]
      BY ConcatProperties
<1> HIDE DEF c, m, n
<1>3. DOMAIN c = 1 .. m + n
      BY <1>2
<1>4. \A i \in 1 .. m : i \in DOMAIN c /\ c[i] = a[i]
      BY <1>1, <1>2, <1>3
<1>5. \A i \in 1 .. n : m + i \in DOMAIN c /\ c[m + i] = b[i]
  <2> SUFFICES ASSUME NEW i \in 1 .. n PROVE m + i \in DOMAIN c /\ c[m + i] = b[i]
      OBVIOUS
  <2>1. m + i \in 1 .. m + n /\ ~(m + i <= m) /\ (m + i) - m = i
        BY <1>1
  <2>2. QED
        BY <1>2, <1>3, <2>1
<1>6. \A i \in DOMAIN c : \/ i \in 1 .. m /\ c[i] = a[i]
                          \/ i - m \in 1 .. n /\ c[i] = b[i - m]
      BY <1>1, <1>2, <1>3
<1>7. ToSet(c) = ToSet(a) \cup ToSet(b)
      BY <1>1, <1>4, <1>5, <1>6 DEF ToSet
<1>8. IsInjective(c)
  <2> SUFFICES ASSUME NEW i \in DOMAIN c, NEW j \in DOMAIN c, c[i] = c[j] PROVE i = j
      BY DEF IsInjective
  <2>1. i \in Int /\ j \in Int
        BY <1>1, <1>3
  <2>2. CASE i \in 1 .. m /\ j \in 1 .. m
        BY <1>1, <1>4, <2>2 DEF IsInjective
  <2>3. CASE i - m \in 1 .. n /\ j - m \in 1 .. n
    <3>1. c[i] = b[i - m] /\ c[j] = b[j - m]
          BY <1>1, <1>6, <2>1, <2>3
    <3>2. i - m = j - m
          BY <1>1, <2>3, <3>1 DEF IsInjective
    <3>3. QED
          BY <1>1, <2>1, <3>2
  <2>4. CASE ~(i \in 1 .. m <=> j \in 1 .. m)
        BY <1>1, <1>6, <2>4 DEF ToSet
  <2>5. QED
        BY <1>6, <2>2, <2>3, <2>4
<1>9. QED
      BY <1>2, <1>7, <1>8 DEF c

LEMMA FoundAtTypes ==
  ASSUME NEW class, NEW p, NEW g, Knows(p, g), NEW o \in Kids(g)
  PROVE  FoundAt(class, p, o) \in GroupSeqs
<1>1. CASE o \in GroupLike
  <2>1. p[o] \in Seq(GroupLike)
        BY <1>1 DEF Knows, GroupSeqs
  <2>2. <<o>> \in Seq(GroupLike) /\ <<>> \in Seq(GroupLike)
        BY <1>1
  <2>3. QED
        BY <1>1, <2>1, <2>2, ConcatProperties DEF FoundAt, GroupSeqs
<1>2. CASE o \notin GroupLike
      BY <1>2 DEF FoundAt, GroupSeqs
<1>3. QED
      BY <1>1, <1>2

LEMMA FoundInGathers ==
  ASSUME IInv, NEW class, NEW p, NEW g \in GroupLike, Knows(p, g)
  PROVE  \E u : /\ Gathers(u, class, p, g)
                /\ FoundIn(class, p, g) = u[Len(children[g].order)]
<1> DEFINE s == children[g].order
           N == Len(s)
           at(i) == FoundAt(class, p, children[g].at[s[i]])
           F == [q \in (1 .. N) \X GroupSeqs |-> q[2] \o at(q[1])]
           upto[i \in 0 .. N] == IF i = 0 THEN <<>> ELSE upto[i - 1] \o at(i)
<1>1. N \in Nat /\ <<>> \in GroupSeqs /\ \A i \in 1 .. N : at(i) \in GroupSeqs
      BY ListedKids, FoundAtTypes DEF GroupSeqs
<1>2. FoundIn(class, p, g) = upto[N]
      BY Zenon DEF FoundIn
<1> HIDE DEF N, at
<1>3. \A i \in 1 .. N : \A q \in GroupSeqs : q \o at(i) \in GroupSeqs
      BY <1>1, ConcatProperties DEF GroupSeqs
<1>4. IsRule(F, N, GroupSeqs)
      BY <1>3 DEF IsRule
<1>5. \A i \in 1 .. N : \A q \in GroupSeqs : F[<<i, q>>] = q \o at(i)
      OBVIOUS
<1> HIDE DEF F
<1>6. PICK u : Solves(u, N, GroupSeqs, <<>>, F)
      BY <1>1, <1>4, RecursionExists
<1> USE DEF Solves
<1>7. \A i \in 1 .. N : u[i] = u[i - 1] \o at(i)
  <2> SUFFICES ASSUME NEW i \in 1 .. N PROVE u[i] = u[i - 1] \o at(i)
      OBVIOUS
  <2>1. u[i - 1] \in GroupSeqs
        BY <1>1, <1>6
  <2>2. QED
        BY <1>5, <1>6, <2>1
<1>8. upto = [i \in 0 .. N |-> IF i = 0 THEN <<>> ELSE upto[i - 1] \o at(i)]
  <2>1. \A i \in 0 .. N : u[i] = IF i = 0 THEN <<>> ELSE u[i - 1] \o at(i)
        BY <1>1, <1>6, <1>7
  <2>2. u = [i \in 0 .. N |-> IF i = 0 THEN <<>> ELSE u[i - 1] \o at(i)]
        BY <1>6, <2>1
  <2>3. QED
        BY <2>2
<1> HIDE DEF upto
<1>9. upto[0] = <<>> /\ \A i \in 1 .. N : upto[i] = upto[i - 1] \o at(i)
  <2>1. \A i \in 0 .. N : upto[i] = IF i = 0 THEN <<>> ELSE upto[i - 1] \o at(i)
        BY <1>8, Zenon
  <2>2. 0 \in 0 .. N /\ \A i \in 1 .. N : i \in 0 .. N /\ i # 0
        BY <1>1
  <2>3. upto[0] = <<>>
        BY <2>1, <2>2, Zenon
  <2>4. QED
        BY <2>1, <2>2, <2>3, Zenon
<1>10. InLockStep(u, upto, N)
       BY <1>6, <1>7, <1>9 DEF InLockStep
<1>11. u[N] = upto[N]
       BY <1>1, <1>10, RecursionUnique
<1>12. Gathers(u, class, p, g)
       BY <1>6, <1>7 DEF Gathers, N, at
<1>13. QED
       BY <1>2, <1>11, <1>12 DEF N

LEMMA FoundInTypes ==
  ASSUME IInv, NEW class, NEW p, NEW g \in GroupLike, Knows(p, g)
  PROVE  FoundIn(class, p, g) \in GroupSeqs
<1> DEFINE N == Len(children[g].order)
<1>1. N \in 0 .. N
      BY ListedKids
<1>2. PICK u : Gathers(u, class, p, g) /\ FoundIn(class, p, g) = u[N]
      BY FoundInGathers
<1>3. u \in [0 .. N -> GroupSeqs]
      BY <1>2 DEF Gathers
<1> HIDE DEF N
<1>4. QED
      BY <1>1, <1>2, <1>3

\* What is found in a group depends on what is found in the groups in it.
LEMMA FoundInAgrees ==
  ASSUME IInv, NEW class, NEW p, NEW q, NEW g \in GroupLike, Knows(p, g),
         \A h \in Kids(g) \cap GroupLike : p[h] = q[h]
  PROVE  FoundIn(class, p, g) = FoundIn(class, q, g)
<1> DEFINE s == children[g].order
           N == Len(s)
<1>1. Knows(q, g)
      BY DEF Knows
<1>2. PICK u : Gathers(u, class, p, g) /\ FoundIn(class, p, g) = u[N]
      BY FoundInGathers
<1>3. PICK w : Gathers(w, class, q, g) /\ FoundIn(class, q, g) = w[N]
      BY <1>1, FoundInGathers
<1>4. \A o \in Kids(g) : FoundAt(class, p, o) = FoundAt(class, q, o)
      BY DEF FoundAt
<1>5. N \in Nat /\ \A i \in 1 .. N : children[g].at[s[i]] \in Kids(g)
      BY ListedKids
<1>6. InLockStep(u, w, N)
      BY <1>2, <1>3, <1>4, <1>5 DEF InLockStep, Gathers
<1>7. QED
      BY <1>2, <1>3, <1>5, <1>6, RecursionUnique

-----------------------------------------------------------------------------

\* p is what Component finds in the groups of E and below.
Finds(p, E, class) ==
  /\ E \subseteq GroupLike
  /\ p \in [E -> GroupSeqs]
  /\ \A h \in E : Kids(h) \cap GroupLike \subseteq E /\ p[h] = FoundIn(class, p, h)

LEMMA FindsOnce ==
  ASSUME TreeInv, NEW class, NEW p, NEW E, Finds(p, E, class), NEW q, NEW D, Finds(q, D, class)
  PROVE  \A h \in E \cap D : p[h] = q[h]
<1> DEFINE B == {h \in E \cap D : p[h] # q[h]}
<1> SUFFICES ASSUME B # {} PROVE FALSE
    OBVIOUS
<1>1. PICK h \in B : Kids(h) \cap B = {}
      BY DEF TreeInv, Acyclic, Finds
<1>2. Knows(p, h) /\ \A k \in Kids(h) \cap GroupLike : p[k] = q[k]
      BY <1>1 DEF Knows, Finds
<1>3. h \in GroupLike
      BY <1>1 DEF Finds
<1>4. FoundIn(class, p, h) = FoundIn(class, q, h)
      BY <1>2, <1>3, FoundInAgrees DEF TreeInv
<1>5. QED
      BY <1>1, <1>4 DEF Finds

LEMMA SomeFind ==
  ASSUME TreeInv, NEW class PROVE \E p : Finds(p, GroupLike, class)
<1> DEFINE G == {h \in GroupLike : \E p, D : Finds(p, D, class) /\ h \in D}
           best(h) == CHOOSE p : \E D : Finds(p, D, class) /\ h \in D
           f == [h \in G |-> best(h)[h]]
<1>1. ASSUME NEW h \in G PROVE \E D : Finds(best(h), D, class) /\ h \in D
      OBVIOUS
<1> HIDE DEF best
<1>2. ASSUME NEW p, NEW D, Finds(p, D, class), NEW h \in D PROVE h \in G /\ f[h] = p[h]
  <2>1. h \in G
        BY <1>2 DEF Finds
  <2>2. PICK E : Finds(best(h), E, class) /\ h \in E
        BY <1>1, <2>1
  <2>3. best(h)[h] = p[h]
        BY <1>2, <2>2, FindsOnce
  <2>4. QED
        BY <2>1, <2>3
<1>3. Finds(f, G, class)
  <2>1. ASSUME NEW h \in G
        PROVE  /\ f[h] \in GroupSeqs
               /\ Kids(h) \cap GroupLike \subseteq G
               /\ f[h] = FoundIn(class, f, h)
    <3>1. PICK p, D : Finds(p, D, class) /\ h \in D
          OBVIOUS
    <3>2. /\ h \in GroupLike
          /\ p \in [D -> GroupSeqs]
          /\ Kids(h) \cap GroupLike \subseteq D
          /\ p[h] = FoundIn(class, p, h)
          BY <3>1 DEF Finds
    <3>3. \A k \in D : k \in G /\ f[k] = p[k]
          BY <1>2, <3>1
    <3> HIDE DEF f, G
    <3>4. Knows(p, h) /\ \A k \in Kids(h) \cap GroupLike : p[k] = f[k]
          BY <3>2, <3>3 DEF Knows
    <3>5. FoundIn(class, p, h) = FoundIn(class, f, h)
          BY <3>2, <3>4, FoundInAgrees DEF TreeInv
    <3>6. QED
          BY <3>1, <3>2, <3>3, <3>5
  <2>2. DOMAIN f = G /\ f = [h \in G |-> f[h]]
        OBVIOUS
  <2> HIDE DEF f
  <2>3. G \subseteq GroupLike
        OBVIOUS
  <2> HIDE DEF G
  <2>4. QED
        BY <2>1, <2>2, <2>3 DEF Finds
<1> HIDE DEF f
<1>4. GroupLike \subseteq G
  <2> SUFFICES ASSUME GroupLike \ G # {} PROVE FALSE
      OBVIOUS
  <2>1. PICK g \in GroupLike \ G : Kids(g) \cap (GroupLike \ G) = {}
        BY DEF TreeInv, Acyclic
  <2> DEFINE E == G \cup {g}
             x == FoundIn(class, f, g)
             e == [h \in E |-> IF h = g THEN x ELSE f[h]]
  <2>2. G \subseteq GroupLike
        OBVIOUS
  <2> HIDE DEF G
  <2>3. f \in [G -> GroupSeqs] /\ Knows(f, g)
        BY <1>3, <2>1 DEF Finds, Knows
  <2>4. x \in GroupSeqs
        BY <2>1, <2>3, FoundInTypes DEF TreeInv
  <2> HIDE DEF x
  <2>5. e \in [E -> GroupSeqs]
        BY <2>3, <2>4
  <2>6. \A h \in E : Kids(h) \cap GroupLike \subseteq G
        BY <1>3, <2>1 DEF Finds
  <2>7. \A h \in G : e[h] = f[h]
        BY <2>1
  <2>8. e[g] = x
        OBVIOUS
  <2> HIDE DEF e
  <2>9. ASSUME NEW h \in E PROVE e[h] = FoundIn(class, e, h)
    <3>1. h \in GroupLike
          BY <2>1, <2>2
    <3>2. Knows(f, h) /\ \A k \in Kids(h) \cap GroupLike : f[k] = e[k]
          BY <2>3, <2>6, <2>7 DEF Knows
    <3>3. FoundIn(class, f, h) = FoundIn(class, e, h)
          BY <3>1, <3>2, FoundInAgrees DEF TreeInv
    <3>4. CASE h = g
          BY <2>8, <3>3, <3>4 DEF x
    <3>5. CASE h \in G
          BY <1>3, <2>7, <3>3, <3>5 DEF Finds
    <3>6. QED
          BY <3>4, <3>5
  <2>10. Finds(e, E, class)
         BY <2>1, <2>2, <2>5, <2>6, <2>9 DEF Finds
  <2>11. g \in G
         BY <2>1, <2>10 DEF G
  <2>12. QED
         BY <2>1, <2>11
<1>5. G = GroupLike
      BY <1>4
<1>6. QED
      BY <1>3, <1>5

LEMMA ComponentUnfolds ==
  ASSUME TreeInv, NEW class PROVE Finds(Component(class), GroupLike, class)
<1> DEFINE found[g \in GroupLike] == FoundIn(class, found, g)
<1>1. Component(class) = found
      BY Zenon DEF Component
<1>2. PICK p : Finds(p, GroupLike, class)
      BY SomeFind
<1>3. p = [g \in GroupLike |-> FoundIn(class, p, g)]
  <2>1. p = [g \in GroupLike |-> p[g]] /\ \A g \in GroupLike : p[g] = FoundIn(class, p, g)
        BY <1>2 DEF Finds
  <2>2. QED
        BY <2>1, Zenon
<1>4. found = [g \in GroupLike |-> FoundIn(class, found, g)]
      BY <1>3
<1> HIDE DEF found
<1>5. \A g \in GroupLike : found[g] \in GroupSeqs
  <2> DEFINE B == {g \in GroupLike : found[g] \notin GroupSeqs}
  <2> SUFFICES ASSUME B # {} PROVE FALSE
      OBVIOUS
  <2>1. PICK g \in B : Kids(g) \cap B = {}
        BY DEF TreeInv, Acyclic
  <2>2. Knows(found, g)
        BY <2>1 DEF Knows
  <2>3. FoundIn(class, found, g) \in GroupSeqs
        BY <2>1, <2>2, FoundInTypes DEF TreeInv
  <2>4. found[g] = FoundIn(class, found, g)
        BY <1>4, <2>1
  <2>5. QED
        BY <2>1, <2>3, <2>4
<1>6. \A g \in GroupLike : found[g] = FoundIn(class, found, g)
      BY <1>4
<1>7. found \in [GroupLike -> GroupSeqs]
      BY <1>4, <1>5
<1>8. QED
      BY <1>1, <1>5, <1>6, <1>7 DEF Finds

-----------------------------------------------------------------------------

\* What Component is to find at o and below it.
Wanted(class, o) ==
  IF o \notin GroupLike THEN {}
  ELSE {k \in {o} \cup (Under[o] \cap GroupLike) : ClassOf[k] = class}

\* What is below a group is not above it.
LEMMA NotBelowItself == ASSUME TreeInv, NEW g \in GroupLike PROVE g \notin Under[g]
<1> DEFINE B == {h \in GroupLike : h \in Under[h]}
<1> SUFFICES ASSUME B # {} PROVE FALSE
    OBVIOUS
<1>1. PICK h \in B : Kids(h) \cap B = {}
      BY DEF TreeInv, Acyclic
<1>2. PICK k \in Kids(h) \cap GroupLike : h = k \/ h \in Under[k]
      BY <1>1, UnderUnfolds DEF Unfolded
<1>3. k \in Under[k]
  <2>1. CASE h = k
        BY <1>1, <2>1
  <2>2. CASE h \in Under[k]
        BY <1>1, <1>2, <2>2, UnderIsClosed DEF Closed, TreeInv
  <2>3. QED
        BY <1>2, <2>1, <2>2
<1>4. QED
      BY <1>1, <1>2, <1>3

\* Who is below a group has its parent there, or is a child.
LEMMA BelowHasParent ==
  ASSUME TreeInv, NEW g \in GroupLike, NEW o \in Under[g]
  PROVE  /\ o \in Objects
         /\ parent[o] \in {g} \cup (Under[g] \cap GroupLike)
<1> DEFINE inside == {g} \cup (Under[g] \cap GroupLike)
           X == {k \in Under[g] : k \in Objects /\ parent[k] \in inside}
<1>1. Closed(Under[g], g)
      BY UnderIsClosed DEF TreeInv
<1>2. \A h \in {g} \cup (Under[g] \cap GroupLike) : Kids(h) \subseteq X
      BY <1>1, KidsHaveParent DEF Closed, TreeInv
<1>3. Closed(X, g)
      BY <1>2 DEF Closed
<1>4. QED
      BY <1>3, Descent DEF TreeInv

\* What is below one child is not below another.
LEMMA KidsShareNothing ==
  ASSUME TreeInv, NEW g \in GroupLike, NEW a \in Kids(g) \cap GroupLike,
         NEW b \in Kids(g) \cap GroupLike, a # b
  PROVE  ({a} \cup Under[a]) \cap ({b} \cup Under[b]) = {}
<1>1. \A c \in Kids(g) \cap GroupLike :
        parent[c] = g /\ g \notin {c} \cup Under[c] /\ Closed(Under[c], c)
  <2> SUFFICES ASSUME NEW c \in Kids(g) \cap GroupLike
               PROVE  /\ parent[c] = g
                      /\ g \notin {c} \cup Under[c]
                      /\ Closed(Under[c], c)
      OBVIOUS
  <2>1. {c} \cup Under[c] \subseteq Under[g]
        BY UnderUnfolds DEF Unfolded
  <2>2. QED
        BY <2>1, NotBelowItself, KidsHaveParent, UnderIsClosed DEF TreeInv
<1>2. a \notin {b} \cup Under[b]
  <2>1. ASSUME a \in Under[b] PROVE FALSE
        BY <1>1, <2>1, BelowHasParent
  <2>2. QED
        BY <2>1
<1>3. b \notin {a} \cup Under[a]
  <2>1. ASSUME b \in Under[a] PROVE FALSE
        BY <1>1, <2>1, BelowHasParent
  <2>2. QED
        BY <2>1
<1> DEFINE X == {o \in Under[a] : o \notin Under[b]}
<1>4. \A h \in {a} \cup (X \cap GroupLike) : Kids(h) \subseteq X
  <2> SUFFICES ASSUME NEW h \in {a} \cup (X \cap GroupLike), NEW o \in Kids(h), o \in Under[b]
               PROVE  FALSE
      BY <1>1 DEF Closed
  <2>1. parent[o] = h
        BY KidsHaveParent DEF TreeInv
  <2>2. h \in {b} \cup Under[b]
        BY <2>1, BelowHasParent
  <2>3. QED
        BY <1>2, <1>3, <2>2
<1>5. Closed(X, a)
      BY <1>4 DEF Closed
<1>6. Under[a] \subseteq X
      BY <1>5, Descent DEF TreeInv
<1>7. QED
      BY <1>2, <1>3, <1>6

\* u[i] is all that is wanted of the first i children of g, once.
Collects(u, class, g) ==
  LET s == children[g].order
      kid(i) == children[g].at[s[i]]
  IN \A i \in 0 .. Len(s) :
       /\ IsInjective(u[i])
       /\ ToSet(u[i]) = UNION {Wanted(class, kid(j)) : j \in 1 .. i}

\* After each child, all that is wanted of the children so far has been gathered,
\* once.
LEMMA GathersWanted ==
  ASSUME TreeInv, NEW class, NEW p, NEW g \in GroupLike, Knows(p, g),
         NEW u, Gathers(u, class, p, g),
         \A h \in Kids(g) \cap GroupLike :
           /\ ToSet(p[h]) = {k \in Under[h] \cap GroupLike : ClassOf[k] = class}
           /\ IsInjective(p[h])
  PROVE  Collects(u, class, g)
<1> DEFINE s == children[g].order
           N == Len(s)
           kid(i) == children[g].at[s[i]]
           so(i) == UNION {Wanted(class, kid(j)) : j \in 1 .. i}
           S == {i \in 0 .. N : IsInjective(u[i]) /\ ToSet(u[i]) = so(i)}
<1>1. /\ N \in Nat
      /\ \A i \in 1 .. N : kid(i) \in Kids(g)
      /\ \A i, j \in 1 .. N : kid(i) = kid(j) => i = j
      BY ListedKids DEF TreeInv
<1>2. /\ u \in [0 .. N -> GroupSeqs]
      /\ u[0] = <<>>
      /\ \A i \in 1 .. N : u[i] = u[i - 1] \o FoundAt(class, p, kid(i))
      BY DEF Gathers
<1>3. ASSUME NEW i \in 1 .. N
      PROVE  LET f == FoundAt(class, p, kid(i))
             IN f \in GroupSeqs /\ IsInjective(f) /\ ToSet(f) = Wanted(class, kid(i))
  <2> DEFINE o == kid(i)
             f == FoundAt(class, p, o)
  <2>1. o \in Kids(g)
        BY <1>1
  <2> HIDE DEF kid
  <2>2. f \in Seq(GroupLike)
        BY <2>1, FoundAtTypes DEF GroupSeqs
  <2>3. CASE o \notin GroupLike
    <3>1. f = <<>> /\ Wanted(class, o) = {}
          BY <2>3 DEF FoundAt, Wanted
    <3>2. QED
          BY <2>2, <3>1 DEF GroupSeqs, IsInjective, ToSet
  <2>4. CASE o \in GroupLike /\ ClassOf[o] # class
    <3>1. f = <<>> \o p[o] /\ p[o] \in Seq(GroupLike)
          BY <2>1, <2>4 DEF FoundAt, Knows, GroupSeqs
    <3>2. f = p[o]
          BY <3>1
    <3>3. Wanted(class, o) = {k \in Under[o] \cap GroupLike : ClassOf[k] = class}
          BY <2>4 DEF Wanted
    <3>4. QED
          BY <2>1, <2>2, <2>4, <3>2, <3>3 DEF GroupSeqs
  <2>5. CASE o \in GroupLike /\ ClassOf[o] = class
    <3>1. f = <<o>> \o p[o] /\ p[o] \in Seq(GroupLike) /\ <<o>> \in Seq(GroupLike)
          BY <2>1, <2>5 DEF FoundAt, Knows, GroupSeqs
    <3>2. Wanted(class, o) = {o} \cup ToSet(p[o])
          BY <2>1, <2>5 DEF Wanted
    <3> DEFINE one == <<o>>
    <3>3. IsInjective(one) /\ ToSet(one) = {o}
          BY DEF IsInjective, ToSet
    <3> HIDE DEF one
    <3>4. {o} \cap ToSet(p[o]) = {} /\ IsInjective(p[o])
          BY <2>1, <2>5, NotBelowItself
    <3>5. f = one \o p[o] /\ one \in Seq(GroupLike) /\ p[o] \in Seq(GroupLike)
          BY <3>1 DEF one
    <3> HIDE DEF f
    <3>6. IsInjective(f) /\ ToSet(f) = Wanted(class, o)
          BY <3>2, <3>3, <3>4, <3>5, ConcatOnce
    <3>7. QED
          BY <2>2, <3>6 DEF f, GroupSeqs
  <2>6. QED
        BY <2>3, <2>4, <2>5
<1>4. ASSUME NEW i \in 1 .. N, NEW j \in 1 .. N, i # j
      PROVE  Wanted(class, kid(i)) \cap Wanted(class, kid(j)) = {}
  <2>1. kid(i) \in Kids(g) /\ kid(j) \in Kids(g) /\ kid(i) # kid(j)
        BY <1>1, <1>4
  <2> HIDE DEF kid
  <2>2. QED
        BY <2>1, KidsShareNothing DEF Wanted
<1> HIDE DEF N, kid
<1>5. 0 \in S
  <2>1. so(0) = {}
        OBVIOUS
  <2>2. IsInjective(<<>>) /\ ToSet(<<>>) = {}
        BY DEF IsInjective, ToSet
  <2>3. QED
        BY <1>1, <1>2, <2>1, <2>2
<1>6. ASSUME NEW i \in 0 .. N - 1, i \in S PROVE i + 1 \in S
  <2> DEFINE k == i + 1
             f == FoundAt(class, p, kid(k))
  <2>1. k \in 1 .. N /\ k - 1 = i /\ i \in 0 .. N /\ k \in 0 .. N
        BY <1>1
  <2>2. f \in GroupSeqs /\ IsInjective(f) /\ ToSet(f) = Wanted(class, kid(k))
        BY <1>3, <2>1
  <2>3. so(k) = so(i) \cup Wanted(class, kid(k))
    <3>1. 1 .. k = (1 .. i) \cup {k}
          BY <1>1
    <3> HIDE DEF k
    <3>2. QED
          BY <3>1
  <2>4. so(i) \cap Wanted(class, kid(k)) = {}
    <3>1. \A j \in 1 .. i : j \in 1 .. N /\ j # k
          BY <1>1
    <3> HIDE DEF k
    <3>2. QED
          BY <1>4, <2>1, <3>1
  <2> HIDE DEF f, k, so
  <2>5. u[k] = u[i] \o f /\ u[i] \in Seq(GroupLike)
        BY <1>2, <2>1 DEF f, GroupSeqs
  <2>6. IsInjective(u[i]) /\ ToSet(u[i]) = so(i)
        BY <1>6
  <2>7. IsInjective(u[k]) /\ ToSet(u[k]) = so(k)
        BY <2>2, <2>3, <2>4, <2>5, <2>6, ConcatOnce DEF GroupSeqs
  <2>8. QED
        BY <2>1, <2>7 DEF k
<1>7. 0 .. N \subseteq S
  <2> HIDE DEF S
  <2>1. QED
        BY <1>1, <1>5, <1>6, NatInd
<1>8. QED
      BY <1>7 DEF Collects, N, kid

LEMMA ComponentFindsAll == ASSUME TreeInv PROVE ComponentIsComplete
<1> SUFFICES ASSUME NEW class
             PROVE  LET found == Component(class)[Root]
                    IN /\ ToSet(found) = {o \in Under[Root] \cap GroupLike : ClassOf[o] = class}
                       /\ IsInjective(found)
    BY DEF ComponentIsComplete
<1> DEFINE p == Component(class)
           wanted(g) == {o \in Under[g] \cap GroupLike : ClassOf[o] = class}
           B == {g \in GroupLike : ~(ToSet(p[g]) = wanted(g) /\ IsInjective(p[g]))}
<1>1. p \in [GroupLike -> GroupSeqs] /\ \A g \in GroupLike : p[g] = FoundIn(class, p, g)
      BY ComponentUnfolds DEF Finds
<1> HIDE DEF p
<1>2. ASSUME B # {} PROVE FALSE
  <2>1. PICK g \in B : Kids(g) \cap B = {}
        BY <1>2 DEF TreeInv, Acyclic
  <2>2. Knows(p, g)
        BY <1>1 DEF Knows
  <2>3. \A h \in Kids(g) \cap GroupLike :
          /\ ToSet(p[h]) = {k \in Under[h] \cap GroupLike : ClassOf[k] = class}
          /\ IsInjective(p[h])
        BY <2>1
  <2> DEFINE s == children[g].order
             N == Len(s)
             kid(i) == children[g].at[s[i]]
  <2>4. PICK u : Gathers(u, class, p, g) /\ FoundIn(class, p, g) = u[N]
        BY <2>2, FoundInGathers DEF TreeInv
  <2>5. /\ N \in 0 .. N
        /\ \A i \in 1 .. N : kid(i) \in Kids(g)
        /\ \A o \in Kids(g) : \E i \in 1 .. N : o = kid(i)
        BY ListedKids DEF TreeInv
  <2>6. IsInjective(u[N]) /\ ToSet(u[N]) = UNION {Wanted(class, kid(j)) : j \in 1 .. N}
    <3>1. Collects(u, class, g)
          BY <2>1, <2>2, <2>3, <2>4, GathersWanted
    <3>2. QED
          BY <2>5, <3>1 DEF Collects
  <2> HIDE DEF N, kid
  <2>7. UNION {Wanted(class, kid(j)) : j \in 1 .. N} = UNION {Wanted(class, o) : o \in Kids(g)}
        BY <2>5
  <2>8. Under[g] = Kids(g) \cup UNION {Under[h] : h \in Kids(g) \cap GroupLike}
        BY <2>1, UnderUnfolds DEF Unfolded
  <2>9. UNION {Wanted(class, o) : o \in Kids(g)} = wanted(g)
        BY <2>8 DEF Wanted
  <2>10. p[g] = u[N]
         BY <1>1, <2>1, <2>4
  <2>11. QED
         BY <2>1, <2>6, <2>7, <2>9, <2>10
<1>3. QED
      BY <1>2, NXTreeAssumption DEF p, GroupLike

\* Component returns each group of a class that is in the tree, and once, however
\* the groups are nested (group.go).
THEOREM ComponentAlwaysComplete == TreeSpec => []ComponentIsComplete
BY TreeStaysTree, ComponentFindsAll, PTL
=============================================================================
