--------------------------- MODULE ListingProofs ----------------------------
(***************************************************************************)
(* Theorems about Listing and about Browsing, whose client makes the       *)
(* requests: for any keys in any order, any page size, and any changes of  *)
(* the bucket between the pages.                                           *)
(***************************************************************************)
EXTENDS Browsing, FiniteSetTheorems, SequenceTheorems, TLAPS

-----------------------------------------------------------------------------
(* Ranks in a finite order.                                                *)

\* upTo says what is up to each element of a finite set in a total order.
TotalOrder(S, upTo) ==
  /\ IsFiniteSet(S)
  /\ upTo \in [S -> SUBSET S]
  /\ \A i \in S : i \in upTo[i]
  /\ \A i, j \in S : i # j => \/ j \notin upTo[i] /\ upTo[i] \subseteq upTo[j]
                              \/ i \notin upTo[j] /\ upTo[j] \subseteq upTo[i]

\* The rank of an element counts what is up to it: one element at each rank.
Ranked(S, upTo) ==
  /\ \A i \in S : Cardinality(upTo[i]) \in 1 .. Cardinality(S)
  /\ \A i, j \in S : i # j /\ i \in upTo[j] =>
                       Cardinality(upTo[i]) < Cardinality(upTo[j])
  /\ \A i, j \in S : Cardinality(upTo[i]) = Cardinality(upTo[j]) => i = j
  /\ \A n \in 1 .. Cardinality(S) : \E i \in S : Cardinality(upTo[i]) = n

\* A finite total order has as many ranks as elements.
LEMMA Ranks ==
  ASSUME NEW S, NEW upTo, TotalOrder(S, upTo)
  PROVE  Ranked(S, upTo)
<1>0. /\ IsFiniteSet(S)
      /\ upTo \in [S -> SUBSET S]
      /\ \A i \in S : i \in upTo[i]
      /\ \A i, j \in S : i # j => \/ j \notin upTo[i] /\ upTo[i] \subseteq upTo[j]
                                  \/ i \notin upTo[j] /\ upTo[j] \subseteq upTo[i]
      BY DEF TotalOrder
<1> DEFINE N == Cardinality(S)
           rank == [i \in S |-> Cardinality(upTo[i])]
<1>1. N \in Nat
      BY <1>0, FS_CardinalityType
<1>2. ASSUME NEW i \in S
      PROVE  IsFiniteSet(upTo[i]) /\ Cardinality(upTo[i]) \in 1 .. N
  <2>1. upTo[i] \in SUBSET S
        BY <1>0
  <2>2. IsFiniteSet(upTo[i]) /\ Cardinality(upTo[i]) <= N
        BY <1>0, <2>1, FS_Subset
  <2>3. Cardinality(upTo[i]) \in Nat
        BY <2>2, FS_CardinalityType
  <2>4. Cardinality(upTo[i]) # 0
        BY <1>0, <2>2, FS_EmptySet
  <2>5. QED BY <1>1, <2>2, <2>3, <2>4
<1>3. ASSUME NEW i \in S, NEW j \in S, upTo[i] \subseteq upTo[j], j \notin upTo[i]
      PROVE  Cardinality(upTo[i]) < Cardinality(upTo[j])
  <2>1. upTo[i] # upTo[j]
        BY <1>0, <1>3
  <2>2. /\ Cardinality(upTo[i]) <= Cardinality(upTo[j])
        /\ Cardinality(upTo[j]) = Cardinality(upTo[i]) => upTo[j] = upTo[i]
        BY <1>0, <1>2, <1>3, FS_Subset
  <2>3. QED BY <1>2, <2>1, <2>2
<1>4. ASSUME NEW i \in S, NEW j \in S, i # j, i \in upTo[j]
      PROVE  Cardinality(upTo[i]) < Cardinality(upTo[j])
      BY <1>0, <1>3, <1>4
<1>5. ASSUME NEW i \in S, NEW j \in S, Cardinality(upTo[i]) = Cardinality(upTo[j])
      PROVE  i = j
  <2>1. SUFFICES ASSUME i # j PROVE FALSE
        OBVIOUS
  <2>2. \/ Cardinality(upTo[i]) < Cardinality(upTo[j])
        \/ Cardinality(upTo[j]) < Cardinality(upTo[i])
        BY <1>0, <1>3, <2>1
  <2>3. QED BY <1>2, <1>5, <2>2
<1>6. rank \in Surjection(S, 1 .. N)
  <2>1. rank \in Injection(S, 1 .. N)
        BY <1>2, <1>5 DEF Injection, IsInjective
  <2>2. IsFiniteSet(1 .. N) /\ Cardinality(1 .. N) = N
        BY <1>1, FS_Interval
  <2> HIDE DEF rank
  <2>3. QED BY <2>1, <2>2, FS_Injection
<1>7. \A n \in 1 .. N : \E i \in S : Cardinality(upTo[i]) = n
      BY <1>6 DEF Surjection
<1>8. QED BY <1>2, <1>4, <1>5, <1>7 DEF Ranked

\* Nth and Place are inverse to each other, and places are in order.
LEMMA Places ==
  ASSUME NEW S \in SUBSET Int, IsFiniteSet(S)
  PROVE  /\ Cardinality(S) \in Nat
         /\ \A n \in 1 .. Cardinality(S) : Nth(S, n) \in S /\ Place(Nth(S, n), S) = n
         /\ \A i \in S : Place(i, S) \in 1 .. Cardinality(S) /\ Nth(S, Place(i, S)) = i
         /\ \A i, j \in S : i < j => Place(i, S) < Place(j, S)
<1> DEFINE upTo == [i \in S |-> {j \in S : j <= i}]
<1>1. TotalOrder(S, upTo)
  <2>1. ASSUME NEW i \in S, NEW j \in S, i < j
        PROVE  j \notin upTo[i] /\ upTo[i] \subseteq upTo[j]
    <3>1. i \in Int /\ j \in Int /\ \A k \in S : k \in Int
          OBVIOUS
    <3>2. \A k \in S : k <= i => k <= j
          BY <2>1, <3>1
    <3>3. upTo[i] = {k \in S : k <= i} /\ upTo[j] = {k \in S : k <= j}
          OBVIOUS
    <3> HIDE DEF upTo
    <3>4. ~(j <= i)
          BY <2>1, <3>1
    <3>5. QED BY <3>2, <3>3, <3>4
  <2>2. \A i, j \in S : i # j => i < j \/ j < i
        OBVIOUS
  <2>3. /\ upTo \in [S -> SUBSET S]
        /\ \A i \in S : i \in upTo[i]
        OBVIOUS
  <2> HIDE DEF upTo
  <2>4. QED BY <2>1, <2>2, <2>3 DEF TotalOrder
<1>2. \A i \in S : Cardinality(upTo[i]) = Place(i, S)
      BY DEF Place
<1>3. \A i, j \in S : i < j => i # j /\ i \in upTo[j]
      OBVIOUS
<1> HIDE DEF upTo
<1>4. /\ \A i \in S : Place(i, S) \in 1 .. Cardinality(S)
      /\ \A i, j \in S : i < j => Place(i, S) < Place(j, S)
      /\ \A i, j \in S : Place(i, S) = Place(j, S) => i = j
      /\ \A n \in 1 .. Cardinality(S) : \E i \in S : Place(i, S) = n
  <2>1. Ranked(S, upTo)
        BY <1>1, Ranks
  <2> DEFINE rank(i) == Cardinality(upTo[i])
  <2>2. \A i \in S : rank(i) = Place(i, S)
        BY <1>2
  <2> HIDE DEF rank
  <2>3. /\ \A i \in S : rank(i) \in 1 .. Cardinality(S)
        /\ \A i, j \in S : i # j /\ i \in upTo[j] => rank(i) < rank(j)
        /\ \A i, j \in S : rank(i) = rank(j) => i = j
        /\ \A n \in 1 .. Cardinality(S) : \E i \in S : rank(i) = n
        BY <2>1 DEF rank, Ranked
  <2>4. QED BY <1>3, <2>2, <2>3
<1>5. ASSUME NEW n \in 1 .. Cardinality(S)
      PROVE  Nth(S, n) \in S /\ Place(Nth(S, n), S) = n
      BY <1>4 DEF Nth
<1>6. ASSUME NEW i \in S
      PROVE  Nth(S, Place(i, S)) = i
      BY <1>4 DEF Nth
<1>7. QED BY <1>4, <1>5, <1>6, FS_CardinalityType

-----------------------------------------------------------------------------
(* The store's pages and what the servers make of them.                    *)

File == [key : Keys, version : Nat]

\* The positions at which a page looks are finitely many numbers.
LEMMA PositionsFinite ==
  /\ Len(StoreOrder) \in Nat /\ Positions = 1 .. Len(StoreOrder)
  /\ IsFiniteSet(Positions)
  /\ \A i \in Positions : StoreOrder[i] \in Keys /\ StoreOrder[i] \in Nat
  /\ \A i, j \in Positions : StoreOrder[i] = StoreOrder[j] => i = j
<1>1. StoreOrder \in Seq(Nat)
      BY ListingAssumption
<1>2. Len(StoreOrder) \in Nat /\ Positions = 1 .. Len(StoreOrder)
      BY <1>1 DEF Positions
<1>3. IsFiniteSet(Positions)
      BY <1>2, FS_Interval
<1>4. \A i \in Positions : StoreOrder[i] \in Keys /\ StoreOrder[i] \in Nat
      BY <1>1, <1>2 DEF Keys
<1>5. QED BY <1>2, <1>3, <1>4, ListingAssumption

\* A page that is not the last one holds all there is up to the position that
\* the continuation token names.
LEMMA PageReachesToken ==
  ASSUME NEW ahead \in SUBSET Positions, OnPage(ahead) # ahead
  PROVE  LET token == CHOOSE i \in OnPage(ahead) : \A j \in OnPage(ahead) : j <= i
         IN /\ token \in OnPage(ahead)
            /\ OnPage(ahead) = {i \in ahead : i <= token}
<1> DEFINE P == OnPage(ahead)
           token == CHOOSE i \in P : \A j \in P : j <= i
<1>1. IsFiniteSet(ahead) /\ ahead \in SUBSET Int /\ P \in SUBSET ahead
  <2>1. IsFiniteSet(ahead)
        BY PositionsFinite, FS_Subset
  <2>2. ahead \in SUBSET Int
        BY PositionsFinite
  <2>3. QED BY <2>1, <2>2 DEF OnPage
<1>2. IsFiniteSet(P) /\ P \in SUBSET Int
      BY <1>1, FS_Subset
<1>3. P = {i \in ahead : Place(i, ahead) <= PageSize}
      BY DEF OnPage
<1> HIDE DEF P
<1>4. PageSize \in Nat /\ PageSize >= 1
      BY ListingAssumption
<1>5. P # {}
  <2>1. ahead # {}
        BY <1>3 DEF P
  <2>2. Cardinality(ahead) \in Nat /\ Cardinality(ahead) # 0
        BY <1>1, <2>1, FS_EmptySet, FS_CardinalityType
  <2>3. Nth(ahead, 1) \in ahead /\ Place(Nth(ahead, 1), ahead) = 1
        BY <1>1, <2>2, Places
  <2>4. QED BY <1>3, <1>4, <2>3
<1>6. token \in P /\ \A j \in P : j <= token
  <2>1. Cardinality(P) \in Nat /\ Cardinality(P) # 0
        BY <1>2, <1>5, FS_EmptySet, FS_CardinalityType
  <2> DEFINE n == Cardinality(P)
             m == Nth(P, n)
  <2>2. m \in P /\ Place(m, P) = n
        BY <1>2, <2>1, Places
  <2>3. \A j \in P : Place(j, P) \in 1 .. n
        BY <1>2, Places
  <2>4. \A j, k \in P : j < k => Place(j, P) < Place(k, P)
        BY <1>2, Places
  <2> HIDE DEF m, n
  <2>5. \A j \in P : j <= m
    <3>1. m \in Int /\ n \in Int /\ \A j \in P : j \in Int
          BY <1>2, <2>1, <2>2 DEF n
    <3>2. QED BY <2>2, <2>3, <2>4, <3>1
  <2>6. QED BY <2>2, <2>5
<1> HIDE DEF token
<1>7. ASSUME NEW i \in ahead, i <= token
      PROVE  i \in P
  <2>1. token \in ahead /\ Place(token, ahead) <= PageSize
        BY <1>3, <1>6
  <2>2. /\ Place(i, ahead) \in Int /\ Place(token, ahead) \in Int
        /\ i < token => Place(i, ahead) < Place(token, ahead)
        BY <1>1, <2>1, Places
  <2>3. i = token \/ i < token
        BY <1>1, <1>7, <2>1
  <2>4. Place(i, ahead) <= PageSize
        BY <1>4, <2>1, <2>2, <2>3
  <2>5. QED BY <1>3, <2>4
<1>8. P = {i \in ahead : i <= token}
      BY <1>3, <1>6, <1>7
<1>9. QED BY <1>6, <1>8 DEF P, token

\* The entries of a page are its NeXus files, each once and as the bucket has it.
LEMMA EntriesOfPage ==
  ASSUME NEW shown \in SUBSET Positions, bucket \in [Keys -> Nat]
  PROVE  /\ Entries(shown) \in Seq(File)
         /\ \A n \in DOMAIN Entries(shown) : \E i \in shown :
              /\ Entries(shown)[n].key = StoreOrder[i] /\ StoreOrder[i] \in NexusKeys
              /\ Entries(shown)[n].version = bucket[StoreOrder[i]]
         /\ \A m, n \in DOMAIN Entries(shown) :
              Entries(shown)[m].key = Entries(shown)[n].key => m = n
         /\ \A i \in shown : StoreOrder[i] \in NexusKeys =>
              \E n \in DOMAIN Entries(shown) : Entries(shown)[n].key = StoreOrder[i]
<1> DEFINE wanted == {i \in shown : HasNexusSuffix(StoreOrder[i])}
           N == Cardinality(wanted)
           key(n) == StoreOrder[Nth(wanted, n)]
           entry(n) == [key |-> key(n), version |-> bucket[key(n)]]
<1>1. IsFiniteSet(wanted) /\ wanted \in SUBSET Int /\ wanted \in SUBSET Positions
  <2>1. wanted \in SUBSET Positions
        OBVIOUS
  <2>2. QED BY <2>1, PositionsFinite, FS_Subset
<1>2. /\ N \in Nat
      /\ \A n \in 1 .. N : Nth(wanted, n) \in wanted /\ Place(Nth(wanted, n), wanted) = n
      /\ \A i \in wanted : /\ Place(i, wanted) \in 1 .. N
                           /\ Nth(wanted, Place(i, wanted)) = i
      BY <1>1, Places
<1>3. Entries(shown) = [n \in 1 .. N |-> entry(n)]
      BY DEF Entries
<1>4. \A i \in wanted : i \in shown /\ StoreOrder[i] \in NexusKeys
      BY DEF HasNexusSuffix
<1>5. \A i \in shown : StoreOrder[i] \in NexusKeys => i \in wanted
      BY DEF HasNexusSuffix
<1> HIDE DEF wanted, N
<1>6. \A n \in 1 .. N : key(n) \in Keys /\ entry(n) \in File
      BY <1>1, <1>2, PositionsFinite DEF File
<1>7. \A m, n \in 1 .. N : key(m) = key(n) => m = n
      BY <1>1, <1>2, PositionsFinite
<1>8. Entries(shown) \in [1 .. N -> File]
      BY <1>3, <1>6
<1>9. Entries(shown) \in Seq(File) /\ DOMAIN Entries(shown) = 1 .. N
      BY <1>2, <1>8
<1>10. \A n \in 1 .. N : /\ Entries(shown)[n].key = key(n)
                         /\ Entries(shown)[n].version = bucket[key(n)]
       BY <1>3
<1>11. ASSUME NEW n \in 1 .. N
       PROVE  \E i \in shown :
                /\ Entries(shown)[n].key = StoreOrder[i] /\ StoreOrder[i] \in NexusKeys
                /\ Entries(shown)[n].version = bucket[StoreOrder[i]]
       BY <1>2, <1>4, <1>10
<1>12. ASSUME NEW i \in shown, StoreOrder[i] \in NexusKeys
       PROVE  \E n \in 1 .. N : Entries(shown)[n].key = StoreOrder[i]
       BY <1>2, <1>5, <1>10, <1>12
<1> HIDE DEF key
<1>13. QED BY <1>7, <1>9, <1>10, <1>11, <1>12

\* Sorting keeps the files and puts their keys in order.
LEMMA SortedFiles ==
  ASSUME NEW files \in Seq(File),
         \A i, j \in DOMAIN files : files[i].key = files[j].key => i = j
  PROVE  /\ Sorted(files) \in Seq(File)
         /\ \A n \in DOMAIN Sorted(files) : \E i \in DOMAIN files :
              Sorted(files)[n] = files[i]
         /\ \A i \in DOMAIN files : \E n \in DOMAIN Sorted(files) :
              Sorted(files)[n] = files[i]
         /\ \A m, n \in DOMAIN Sorted(files) :
              m < n => Sorted(files)[m].key < Sorted(files)[n].key
<1> DEFINE D == DOMAIN files
           upTo == [i \in D |-> UpTo(files, i)]
           at(n) == CHOOSE i \in D : Cardinality(UpTo(files, i)) = n
<1>1. Len(files) \in Nat /\ D = 1 .. Len(files)
      OBVIOUS
<1>2. IsFiniteSet(D) /\ Cardinality(D) = Len(files)
      BY <1>1, FS_Interval
<1>3. \A i \in D : files[i] \in File /\ files[i].key \in Int
  <2>1. \A k \in Keys : k \in Int
        BY PositionsFinite DEF Keys
  <2>2. \A i \in D : files[i] \in File
        BY <1>1
  <2>3. \A f \in File : f.key \in Keys
        BY DEF File
  <2>4. QED BY <2>1, <2>2, <2>3
<1>4. \A i \in D : UpTo(files, i) = {j \in D : files[j].key <= files[i].key}
  <2>1. ASSUME NEW i \in D, NEW j \in D
        PROVE  (\/ files[j].key < files[i].key
                \/ files[j].key = files[i].key /\ j <= i)
                 <=> files[j].key <= files[i].key
        BY <1>1, <1>3
  <2>2. QED BY <2>1 DEF UpTo
<1>5. TotalOrder(D, upTo)
  <2>1. upTo \in [D -> SUBSET D] /\ \A i \in D : i \in upTo[i]
        BY <1>3, <1>4
  <2>2. \A i, j \in D : j \in upTo[i] <=> files[j].key <= files[i].key
        BY <1>4
  <2> HIDE DEF upTo
  <2>3. ASSUME NEW i \in D, NEW j \in D, files[i].key < files[j].key
        PROVE  j \notin upTo[i] /\ upTo[i] \subseteq upTo[j]
    <3>1. j \notin upTo[i]
          BY <1>3, <2>2, <2>3
    <3>2. ASSUME NEW k \in upTo[i]
          PROVE  k \in upTo[j]
      <4>1. k \in D
            BY <2>1
      <4>2. files[k].key <= files[i].key
            BY <2>2, <4>1
      <4>3. files[k].key <= files[j].key
            BY <1>3, <2>3, <4>1, <4>2
      <4>4. QED BY <2>2, <4>1, <4>3
    <3>3. QED BY <3>1, <3>2
  <2>4. \A i, j \in D : i # j => \/ files[i].key < files[j].key
                                 \/ files[j].key < files[i].key
        BY <1>3
  <2>5. QED BY <1>2, <2>1, <2>3, <2>4 DEF TotalOrder
<1>6. Ranked(D, upTo)
      BY <1>5, Ranks
<1> DEFINE rank(i) == Cardinality(UpTo(files, i))
<1>7. /\ \A i \in D : rank(i) \in D
      /\ \A i, j \in D : files[i].key < files[j].key => rank(i) < rank(j)
      /\ \A i, j \in D : rank(i) = rank(j) => i = j
      /\ \A n \in D : \E i \in D : rank(i) = n
  <2>1. \A i \in D : rank(i) = Cardinality(upTo[i])
        OBVIOUS
  <2>2. \A i, j \in D : files[i].key < files[j].key => i # j /\ i \in upTo[j]
        BY <1>3, <1>4
  <2> HIDE DEF upTo, rank
  <2>3. /\ \A i \in D : Cardinality(upTo[i]) \in 1 .. Len(files)
        /\ \A n \in 1 .. Len(files) : \E i \in D : Cardinality(upTo[i]) = n
        /\ \A i, j \in D : Cardinality(upTo[i]) = Cardinality(upTo[j]) => i = j
        /\ \A i, j \in D : i # j /\ i \in upTo[j] =>
                             Cardinality(upTo[i]) < Cardinality(upTo[j])
        BY <1>2, <1>6 DEF Ranked
  <2> HIDE DEF D
  <2>4. QED BY <1>1, <2>1, <2>2, <2>3
<1> HIDE DEF rank
<1>8. \A n \in D : at(n) \in D /\ rank(at(n)) = n
      BY <1>7 DEF rank
<1> HIDE DEF at
<1>9. \A i \in D : rank(i) \in D /\ at(rank(i)) = i
      BY <1>7, <1>8
<1>10. Sorted(files) = [n \in D |-> files[at(n)]]
       BY DEF Sorted, at
<1>11. Sorted(files) \in Seq(File) /\ DOMAIN Sorted(files) = D
       BY <1>1, <1>3, <1>8, <1>10
<1>12. ASSUME NEW m \in D, NEW n \in D, m < n
       PROVE  files[at(m)].key < files[at(n)].key
  <2>1. SUFFICES ASSUME ~(files[at(m)].key < files[at(n)].key) PROVE FALSE
        OBVIOUS
  <2>2. at(m) # at(n)
        BY <1>1, <1>8, <1>12
  <2>3. files[at(n)].key < files[at(m)].key
        BY <1>3, <1>8, <2>1, <2>2
  <2>4. QED BY <1>1, <1>7, <1>8, <1>12, <2>3
<1>13. \A n \in D : Sorted(files)[n] = files[at(n)]
       BY <1>10
<1> HIDE DEF D
<1>14. \A n \in D : \E i \in D : Sorted(files)[n] = files[i]
       BY <1>8, <1>13
<1>15. \A i \in D : \E n \in D : Sorted(files)[n] = files[i]
       BY <1>9, <1>13
<1>16. \A m, n \in D : m < n => Sorted(files)[m].key < Sorted(files)[n].key
       BY <1>12, <1>13
<1>17. QED BY <1>11, <1>14, <1>15, <1>16 DEF D

-----------------------------------------------------------------------------
(* The inductive invariant.                                                *)

ListingType ==
  /\ bucket \in [Keys -> Nat]
  /\ changes \in Nat
  /\ listing \in {"idle", "pages", "listed", "error"}
  /\ override \in Prefixes \cup {NoOverride}
  /\ continue \in 0 .. Len(StoreOrder)
  /\ out \in Seq(File)
  /\ steady \subseteq Keys

\* What the history says of the bucket while a listing is under way.
HistoryHolds ==
  listing = "pages" =>
    /\ \A k \in steady : bucket[k] # Absent
    /\ \A k \in Keys : bucket[k] # Absent => <<k, bucket[k]>> \in seen

\* The files of a sequence are among those asked for, as the bucket held them,
\* each once and each at a position the listing has passed.
Passed(files, token) ==
  /\ \A i \in DOMAIN files :
       /\ files[i].key \in Asked /\ <<files[i].key, files[i].version>> \in seen
       /\ \E p \in 1 .. token : StoreOrder[p] = files[i].key
  /\ \A i, j \in DOMAIN files : files[i].key = files[j].key => i = j

\* No file that stayed in the bucket is missing up to the token.
Covered(files, token) ==
  \A p \in 1 .. token :
    StoreOrder[p] \in steady \cap Asked =>
      \E i \in DOMAIN files : files[i].key = StoreOrder[p]

ListingInv ==
  /\ ListingType
  /\ HistoryHolds
  /\ listing = "pages" => Passed(out, continue) /\ Covered(out, continue)
  /\ ListingComplete
  /\ ListingTruthful

\* What a page adds keeps the invariant of the files collected, up to the token
\* that the page ends at.
LEMMA PageIsTaken ==
  ASSUME ListingInv, listing = "pages",
         NEW ahead, ahead = Ahead(EffectivePrefix(override), continue),
         NEW token \in continue .. Len(StoreOrder),
         NEW shown, shown = {i \in ahead : i <= token}
  PROVE  /\ out \o Entries(shown) \in Seq(File)
         /\ Passed(out \o Entries(shown), token)
         /\ Covered(out \o Entries(shown), token)
<1> DEFINE E == Entries(shown)
           all == out \o E
<1>1. /\ Len(StoreOrder) \in Nat /\ Positions = 1 .. Len(StoreOrder)
      /\ \A i \in Positions : StoreOrder[i] \in Keys
      /\ \A i, j \in Positions : StoreOrder[i] = StoreOrder[j] => i = j
      BY PositionsFinite
<1>2. /\ bucket \in [Keys -> Nat] /\ out \in Seq(File)
      /\ continue \in 0 .. Len(StoreOrder)
      /\ \A k \in steady : bucket[k] # Absent
      /\ \A k \in Keys : bucket[k] # Absent => <<k, bucket[k]>> \in seen
      /\ Passed(out, continue) /\ Covered(out, continue)
      BY DEF ListingInv, ListingType, HistoryHolds
<1>3. /\ shown \in SUBSET Positions
      /\ \A i \in shown : /\ i > continue /\ i <= token
                          /\ StoreOrder[i] \in Under[EffectivePrefix(override)]
                          /\ bucket[StoreOrder[i]] # Absent
      BY DEF Ahead
<1>4. \A i \in Positions :
         /\ i > continue /\ i <= token
         /\ StoreOrder[i] \in Under[EffectivePrefix(override)]
         /\ bucket[StoreOrder[i]] # Absent
         => i \in shown
      BY DEF Ahead
<1>5. Asked = Under[EffectivePrefix(override)] \cap NexusKeys
      BY DEF Asked, EffectivePrefix
<1>6. /\ E \in Seq(File)
      /\ \A n \in DOMAIN E : \E i \in shown :
           /\ E[n].key = StoreOrder[i] /\ StoreOrder[i] \in NexusKeys
           /\ E[n].version = bucket[StoreOrder[i]]
      /\ \A m, n \in DOMAIN E : E[m].key = E[n].key => m = n
      /\ \A i \in shown : StoreOrder[i] \in NexusKeys =>
           \E n \in DOMAIN E : E[n].key = StoreOrder[i]
      BY <1>2, <1>3, EntriesOfPage
<1> HIDE DEF E
<1>7. \A n \in DOMAIN E :
        /\ E[n].key \in Asked /\ <<E[n].key, E[n].version>> \in seen
        /\ \E i \in shown : StoreOrder[i] = E[n].key
      BY <1>1, <1>2, <1>3, <1>5, <1>6
<1> DEFINE a == Len(out)
           b == Len(E)
<1>8. /\ a \in Nat /\ b \in Nat /\ DOMAIN out = 1 .. a /\ DOMAIN E = 1 .. b
      /\ all \in Seq(File) /\ DOMAIN all = 1 .. (a + b)
      /\ \A i \in 1 .. (a + b) : all[i] = IF i <= a THEN out[i] ELSE E[i - a]
      BY <1>2, <1>6, ConcatProperties
<1> HIDE DEF a, b, all
<1>9. ASSUME NEW i \in 1 .. (a + b)
      PROVE  \/ i \in DOMAIN out /\ all[i] = out[i]
             \/ i - a \in DOMAIN E /\ all[i] = E[i - a]
  <2>1. a \in Nat /\ b \in Nat
        BY <1>8
  <2>2. \/ i <= a /\ i \in 1 .. a
        \/ ~(i <= a) /\ i - a \in 1 .. b
        BY <2>1
  <2>3. QED BY <1>8, <2>2
<1>10. \A i \in DOMAIN out : i \in 1 .. (a + b) /\ all[i] = out[i]
       BY <1>8
<1>11. \A n \in DOMAIN E : a + n \in 1 .. (a + b) /\ all[a + n] = E[n]
  <2>1. ASSUME NEW n \in DOMAIN E
        PROVE  a + n \in 1 .. (a + b) /\ ~(a + n <= a) /\ (a + n) - a = n
        BY <1>8
  <2>2. QED BY <1>8, <2>1
<1>12. /\ \A i \in DOMAIN out :
            /\ out[i].key \in Asked /\ <<out[i].key, out[i].version>> \in seen
            /\ \E p \in 1 .. continue : StoreOrder[p] = out[i].key
       /\ \A i, j \in DOMAIN out : out[i].key = out[j].key => i = j
       BY <1>2 DEF Passed
<1>13. ASSUME NEW i \in 1 .. (a + b)
       PROVE  /\ all[i].key \in Asked /\ <<all[i].key, all[i].version>> \in seen
              /\ \E p \in 1 .. token : StoreOrder[p] = all[i].key
  <2>1. CASE i \in DOMAIN out /\ all[i] = out[i]
    <3>1. \A p \in 1 .. continue : p \in 1 .. token
          BY <1>1, <1>2
    <3>2. QED BY <1>12, <2>1, <3>1
  <2>2. CASE i - a \in DOMAIN E /\ all[i] = E[i - a]
    <3>1. \A p \in shown : p \in 1 .. token
          BY <1>1, <1>2, <1>3
    <3>2. QED BY <1>7, <2>2, <3>1
  <2>3. QED BY <1>9, <2>1, <2>2
<1>14. ASSUME NEW i \in DOMAIN out, NEW n \in DOMAIN E
       PROVE  out[i].key # E[n].key
  <2>1. PICK p \in 1 .. continue : StoreOrder[p] = out[i].key
        BY <1>12
  <2>2. PICK q \in shown : StoreOrder[q] = E[n].key
        BY <1>7
  <2>3. p \in Positions /\ q \in Positions /\ p # q
        BY <1>1, <1>2, <1>3
  <2>4. QED BY <1>1, <2>1, <2>2, <2>3
<1>15. ASSUME NEW i \in 1 .. (a + b), NEW j \in 1 .. (a + b), all[i].key = all[j].key
       PROVE  i = j
  <2>1. CASE i \in DOMAIN out /\ all[i] = out[i]
        BY <1>9, <1>12, <1>14, <1>15, <2>1
  <2>2. CASE i - a \in DOMAIN E /\ all[i] = E[i - a]
    <3>1. j - a \in DOMAIN E /\ all[j] = E[j - a]
          BY <1>9, <1>14, <1>15, <2>2
    <3>2. i - a = j - a
          BY <1>6, <1>15, <2>2, <3>1
    <3>3. QED BY <1>8, <3>2
  <2>3. QED BY <1>9, <2>1, <2>2
<1>16. ASSUME NEW p \in 1 .. token, StoreOrder[p] \in steady \cap Asked
       PROVE  \E i \in DOMAIN all : all[i].key = StoreOrder[p]
  <2>1. CASE p \in 1 .. continue
    <3>1. \E i \in DOMAIN out : out[i].key = StoreOrder[p]
          BY <1>2, <1>16, <2>1 DEF Covered
    <3>2. QED BY <1>8, <1>10, <3>1
  <2>2. CASE p > continue
    <3>1. p \in Positions /\ p > continue /\ p <= token
          BY <1>1, <1>2, <2>2
    <3>2. p \in shown /\ StoreOrder[p] \in NexusKeys
          BY <1>2, <1>4, <1>5, <1>16, <3>1
    <3>3. PICK n \in DOMAIN E : E[n].key = StoreOrder[p]
          BY <1>6, <3>2
    <3>4. QED BY <1>8, <1>11, <3>3
  <2>3. QED BY <1>1, <1>2, <2>1, <2>2
<1>17. QED BY <1>8, <1>13, <1>15, <1>16 DEF Passed, Covered, all, E

\* A page that is not the last one.
LEMMA TokenIsFollowed ==
  ASSUME ListingInv, ListPage, listing' = "pages"
  PROVE  /\ ListingInv'
         /\ continue < continue' /\ continue' <= Len(StoreOrder)
<1> DEFINE ahead == Ahead(EffectivePrefix(override), continue)
           page1 == OnPage(ahead)
           token == CHOOSE i \in page1 : \A j \in page1 : j <= i
<1>1. /\ listing = "pages" /\ page1 # ahead
      /\ out' = out \o Entries(page1) /\ continue' = token
      /\ UNCHANGED <<bucket, changes, override, steady, seen>>
      BY DEF ListPage
<1>2. ahead \in SUBSET Positions /\ \A i \in ahead : i > continue
      BY DEF Ahead
<1>3. token \in page1 /\ page1 = {i \in ahead : i <= token}
      BY <1>1, <1>2, PageReachesToken
<1>4. /\ token \in continue .. Len(StoreOrder) /\ token \in 0 .. Len(StoreOrder)
      /\ continue < token
  <2>1. token \in ahead
        BY <1>3
  <2>2. continue \in 0 .. Len(StoreOrder)
        BY DEF ListingInv, ListingType
  <2>3. QED BY <1>2, <2>1, <2>2, PositionsFinite
<1> HIDE DEF token, page1
<1>5. /\ out' \in Seq(File)
      /\ Passed(out', continue') /\ Covered(out', continue')
      BY <1>1, <1>3, <1>4, PageIsTaken
<1>6. Passed(out, continue)' /\ Covered(out, continue)'
      BY <1>1, <1>5 DEF Passed, Covered, Asked
<1>7. ListingType'
      BY <1>1, <1>4, <1>5 DEF ListingInv, ListingType
<1>8. HistoryHolds'
      BY <1>1 DEF ListingInv, HistoryHolds
<1>9. ListingInv'
      BY <1>1, <1>6, <1>7, <1>8 DEF ListingInv, ListingComplete, ListingTruthful
<1>10. continue < continue' /\ continue' <= Len(StoreOrder)
       BY <1>1, <1>4, PositionsFinite
<1>11. QED BY <1>9, <1>10

\* The last page: the answer is sorted and sent.
LEMMA AnswerIsSent ==
  ASSUME ListingInv, ListPage, listing' # "pages"
  PROVE  ListingInv'
<1> DEFINE ahead == Ahead(EffectivePrefix(override), continue)
           files == out \o Entries(ahead)
           L == Len(StoreOrder)
<1>1. /\ listing = "pages" /\ listing' = "listed"
      /\ out' = Sorted(files) /\ continue' = continue
      /\ UNCHANGED <<bucket, changes, override, steady, seen>>
      BY DEF ListPage
<1>2. /\ L \in Nat /\ Positions = 1 .. L /\ continue \in 0 .. L
      /\ steady \subseteq Keys
      BY PositionsFinite DEF ListingInv, ListingType
<1>3. ahead = {i \in ahead : i <= L} /\ L \in continue .. L
      BY <1>2 DEF Ahead
<1>4. files \in Seq(File) /\ Passed(files, L) /\ Covered(files, L)
      BY <1>1, <1>3, PageIsTaken
<1> HIDE DEF files, L
<1>5. /\ \A i \in DOMAIN files :
           files[i].key \in Asked /\ <<files[i].key, files[i].version>> \in seen
      /\ \A i, j \in DOMAIN files : files[i].key = files[j].key => i = j
      BY <1>4 DEF Passed
<1>6. /\ out' \in Seq(File)
      /\ \A n \in DOMAIN out' : \E i \in DOMAIN files : out'[n] = files[i]
      /\ \A i \in DOMAIN files : \E n \in DOMAIN out' : out'[n] = files[i]
      /\ \A m, n \in DOMAIN out' : m < n => out'[m].key < out'[n].key
      BY <1>1, <1>4, <1>5, SortedFiles
<1>7. Asked' = Asked
      BY <1>1 DEF Asked
<1>8. ListingTruthful'
      BY <1>1, <1>5, <1>6, <1>7 DEF ListingTruthful
<1>9. ListingComplete'
  <2>1. ASSUME NEW k \in steady, k \in Asked
        PROVE  k \in Listed'
    <3>1. PICK p \in 1 .. L : StoreOrder[p] = k
          BY <1>2 DEF Keys
    <3>2. \E i \in DOMAIN files : files[i].key = k
          BY <1>4, <2>1, <3>1 DEF Covered
    <3>3. \E n \in DOMAIN out' : out'[n].key = k
          BY <1>6, <3>2
    <3>4. QED BY <3>3 DEF Listed
  <2>2. QED BY <1>1, <1>7, <2>1 DEF ListingComplete
<1>10. ListingType'
       BY <1>1, <1>6 DEF ListingInv, ListingType
<1>11. QED BY <1>1, <1>8, <1>9, <1>10 DEF ListingInv, HistoryHolds

\* A change of the bucket between two pages, or when nothing is asked.
LEMMA BucketMoves ==
  ASSUME ListingInv, NEW k \in Keys, BucketChanges(k)
  PROVE  ListingInv'
<1>1. PICK v \in {Absent, changes + 2} :
        /\ bucket' = [bucket EXCEPT ![k] = v]
        /\ IF v = Absent THEN steady' = steady \ {k} /\ UNCHANGED seen
           ELSE seen' = seen \cup {<<k, v>>} /\ UNCHANGED steady
      BY DEF BucketChanges
<1>2. /\ changes' = changes + 1
      /\ UNCHANGED <<failures, listing, override, continue, out>>
      BY DEF BucketChanges
<1>3. /\ bucket \in [Keys -> Nat] /\ changes \in Nat /\ steady \subseteq Keys
      BY DEF ListingInv, ListingType
<1>4. /\ bucket' \in [Keys -> Nat] /\ changes' \in Nat
      /\ steady' \subseteq steady /\ seen \subseteq seen'
      /\ bucket'[k] = v /\ \A h \in Keys \ {k} : bucket'[h] = bucket[h]
      BY <1>1, <1>2, <1>3 DEF Absent
<1>5. ListingType'
      BY <1>2, <1>3, <1>4 DEF ListingInv, ListingType
<1>6. HistoryHolds'
  <2>1. SUFFICES ASSUME listing = "pages" PROVE HistoryHolds'
        BY <1>2 DEF HistoryHolds
  <2>2. /\ \A h \in steady : bucket[h] # Absent
        /\ \A h \in Keys : bucket[h] # Absent => <<h, bucket[h]>> \in seen
        BY <2>1 DEF ListingInv, HistoryHolds
  <2>3. \A h \in steady' : bucket'[h] # Absent
        BY <1>1, <1>3, <1>4, <2>2
  <2>4. \A h \in Keys : bucket'[h] # Absent => <<h, bucket'[h]>> \in seen'
        BY <1>1, <1>3, <1>4, <2>2
  <2>5. QED BY <2>3, <2>4 DEF HistoryHolds
<1>7. Asked' = Asked /\ Listed' = Listed
      BY <1>2 DEF Asked, Listed
<1>8. (listing = "pages" => Passed(out, continue) /\ Covered(out, continue))'
      BY <1>2, <1>4, <1>7 DEF ListingInv, Passed, Covered
<1>9. ListingComplete'
      BY <1>2, <1>4, <1>7 DEF ListingInv, ListingComplete
<1>10. ListingTruthful'
       BY <1>2, <1>4, <1>7 DEF ListingInv, ListingTruthful
<1>11. QED BY <1>5, <1>6, <1>8, <1>9, <1>10 DEF ListingInv

LEMMA ListingStep ==
  ASSUME ListingInv, [ListingNext]_listingVars
  PROVE  ListingInv'
<1>1. CASE UNCHANGED listingVars
      BY <1>1 DEF listingVars, ListingInv, ListingType, HistoryHolds, Passed, Covered,
                  ListingComplete, ListingTruthful, Asked, Listed
<1>2. ASSUME NEW asked \in Prefixes \cup {NoOverride}, ListFiles(asked)
      PROVE  ListingInv'
  <2>1. /\ listing' = "pages" /\ override' = asked /\ continue' = 0 /\ out' = <<>>
        /\ steady' = {k \in Keys : bucket[k] # Absent}
        /\ seen' = {<<k, bucket[k]>> : k \in {h \in Keys : bucket[h] # Absent}}
        /\ bucket' = bucket /\ changes' = changes
        BY <1>2 DEF ListFiles
  <2>2. ListingType'
        BY <2>1, PositionsFinite DEF ListingInv, ListingType
  <2>3. HistoryHolds'
        BY <2>1 DEF HistoryHolds
  <2>4. Passed(out, continue)' /\ Covered(out, continue)'
        BY <2>1 DEF Passed, Covered
  <2>5. QED BY <2>1, <2>2, <2>3, <2>4 DEF ListingInv, ListingComplete, ListingTruthful
<1>3. CASE ListPage
      BY <1>3, TokenIsFollowed, AnswerIsSent
<1>4. CASE ListFails
  <2>1. listing' = "error" /\ out' = <<>>
        /\ UNCHANGED <<bucket, changes, override, continue, steady, seen>>
        BY <1>4 DEF ListFails
  <2>2. ListingType'
        BY <2>1 DEF ListingInv, ListingType
  <2>3. QED BY <2>1, <2>2 DEF ListingInv, HistoryHolds, ListingComplete, ListingTruthful
<1>5. ASSUME NEW k \in Keys, BucketChanges(k)
      PROVE  ListingInv'
      BY <1>5, BucketMoves
<1>6. QED BY <1>1, <1>2, <1>3, <1>4, <1>5 DEF ListingNext, Serve

LEMMA ListingStarts == ListingInit => ListingInv
<1> SUFFICES ASSUME ListingInit PROVE ListingInv
    OBVIOUS
<1>1. bucket \in [Keys -> Nat]
      BY DEF ListingInit, Absent
<1>2. ListingType
      BY <1>1, PositionsFinite DEF ListingInit, ListingType
<1>3. QED
      BY <1>2 DEF ListingInit, ListingInv, HistoryHolds, ListingComplete, ListingTruthful

-----------------------------------------------------------------------------
(* The theorems.                                                           *)

LEMMA ListingInvariant == ListingSpec => []ListingInv
<1>1. ListingInv /\ [ListingNext]_listingVars => ListingInv'
      BY ListingStep
<1>2. QED BY ListingStarts, <1>1, PTL DEF ListingSpec

\* The client of Browsing leaves the listing alone but for picking a file, which
\* ends it.
LEMMA BrowsingInvariant == BrowsingSpec => []ListingInv
<1>1. BrowsingInit => ListingInv
      BY ListingStarts DEF BrowsingInit
<1>2. ASSUME ListingInv, [BrowsingNext]_BrowsingVars
      PROVE  ListingInv'
  <2>1. CASE List
        BY <1>2, <2>1, ListingStep DEF List
  <2>2. CASE Pick
    <3>1. /\ listing' = "idle" /\ override' = NoOverride /\ continue' = 0
          /\ out' = <<>> /\ steady' = {} /\ UNCHANGED <<bucket, changes>>
          BY <2>2 DEF Pick
    <3>2. ListingType'
          BY <1>2, <3>1, PositionsFinite DEF ListingInv, ListingType
    <3>3. QED
          BY <3>1, <3>2 DEF ListingInv, HistoryHolds, ListingComplete, ListingTruthful
  <2>3. CASE PageOn \/ UNCHANGED BrowsingVars
    <3>1. UNCHANGED listingVars
          BY <2>3 DEF PageOn, BrowsingVars
    <3>2. QED BY <1>2, <3>1, ListingStep
  <2>4. QED BY <1>2, <2>1, <2>2, <2>3 DEF BrowsingNext
<1>3. QED BY <1>1, <1>2, PTL DEF BrowsingSpec

\* An answer of Store.List leaves out no NeXus file that the bucket held from the
\* request to the answer: for any keys in any order, any page size, any changes
\* between the pages and any pages that fail.
THEOREM ListingsAreComplete ==
  (ListingSpec => []ListingComplete) /\ (BrowsingSpec => []ListingComplete)
<1>1. ListingInv => ListingComplete
      BY DEF ListingInv
<1>2. QED BY ListingInvariant, BrowsingInvariant, <1>1, PTL

\* Every file of an answer is one that was asked for and that the bucket held in
\* that version since the request; the answer is sorted and names no file twice.
THEOREM ListingsAreTruthful ==
  (ListingSpec => []ListingTruthful) /\ (BrowsingSpec => []ListingTruthful)
<1>1. ListingInv => ListingTruthful
      BY DEF ListingInv
<1>2. QED BY ListingInvariant, BrowsingInvariant, <1>1, PTL

\* A continuation token that is followed lies further on than the last one, and
\* is one of the store's positions.
TokensGoOn ==
  [][ListPage /\ listing' = "pages" =>
       continue < continue' /\ continue' <= Len(StoreOrder)]_listingVars

\* What SessionEnds rests on: Store.List follows no token twice and asks for no
\* more pages than the store enumerates keys, whatever comes into the bucket
\* between the pages.
THEOREM TokensAlwaysGoOn ==
  (ListingSpec => TokensGoOn) /\ (BrowsingSpec => TokensGoOn)
<1>1. ListingInv
        => [ListPage /\ listing' = "pages" =>
              continue < continue' /\ continue' <= Len(StoreOrder)]_listingVars
      BY TokenIsFollowed
<1>2. QED BY ListingInvariant, BrowsingInvariant, <1>1, PTL DEF TokensGoOn
=============================================================================
