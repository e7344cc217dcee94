----------------------------- MODULE OrderedMap -----------------------------
(***************************************************************************)
(* A map that remembers the order in which its keys came: the pair of a    *)
(* slice and a Go map that NXgroup (order, entries) and AttrSet (order, m) *)
(* of the gonexus package keep in step by hand.                            *)
(***************************************************************************)
EXTENDS Sequences, SequencesExt

Empty == [order |-> <<>>, at |-> <<>>]

Names(m) == DOMAIN m.at

MutPut(m, name, x) ==
  [order |-> Append(m.order, name),
   at |-> [n \in Names(m) \cup {name} |-> IF n = name THEN x ELSE m.at[n]]]

MutPutLast(m, name, x) ==
  [order |-> Append(SelectSeq(m.order, LAMBDA n : n # name), name),
   at |-> [n \in Names(m) \cup {name} |-> IF n = name THEN x ELSE m.at[n]]]

\* A name that is there already keeps its place.
Put(m, name, x) ==
  [order |-> IF name \in Names(m) THEN m.order ELSE Append(m.order, name),
   at |-> [n \in Names(m) \cup {name} |-> IF n = name THEN x ELSE m.at[n]]]

\* A name that is not there changes nothing.
Drop(m, name) ==
  [order |-> RemoveFirst(m.order, name),
   at |-> [n \in Names(m) \ {name} |-> m.at[n]]]

\* The slice lists every key of the map, once.
InStep(m) == IsInjective(m.order) /\ ToSet(m.order) = Names(m)

\* n comes before o.
Before(m, n, o) ==
  \E i, j \in 1 .. Len(m.order) : i < j /\ m.order[i] = n /\ m.order[j] = o

\* The names two states of a map share are listed in the same order in both.
SameOrder(m, l) ==
  \A n, o \in Names(m) \cap Names(l) : Before(m, n, o) <=> Before(l, n, o)
=============================================================================
