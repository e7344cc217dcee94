----------------------------- MODULE MCNXFileIO -----------------------------
(* Instances of NXFileIO for TLC.                                          *)
EXTENDS NXFileIO

CONSTANTS root, g1, g2, f1, lf, lg, u, v, w, x

Classes == [g \in GroupLike |->
              CASE g = root -> "NXroot"
                [] g \in {g1, g2} -> "NXcollection"
                [] OTHER -> "NXlink"]

\* A field without a name, which is 0 here.
Born == [o \in Objects |-> IF o \in Fields THEN 0 ELSE 1]

PlainParts == [n \in ChildNames |-> IF n = 0 THEN <<>> ELSE <<n>>]

\* Only other tools set v.
Types == [a \in AttrNames |->
            IF a = u THEN "int64" ELSE "string"]

OfTheField == {<<f1, u>>}

\* Groups of one class.
Symmetry == Permutations({g1, g2})

Value(k, s, e) == [kind |-> k, slice |-> s, elems |-> e]

\* A matrix of 1 by 2 texts, one with a NUL behind it.
SomeContents ==
  {[value |-> Value("string", TRUE, <<[text |-> 1, nuls |-> 1], [text |-> 2, nuls |-> 0]>>),
    shape |-> <<1, 2>>]}

Dataset(t, n) ==
  [path |-> <<n>>, kind |-> "field", attrs |-> [a \in {u} |-> "int64"],
   data |-> [type |-> t, dims |-> <<2>>, elems |-> <<7, 8>>]]

Group(path, k, as) ==
  [path |-> path, kind |-> k, attrs |-> [a \in as |-> "string"], data |-> NoData]

\* Of other tools: booleans of h5py, beside and before a group without a class
\* that is not empty; and a link, under a root with the attributes that gonexus
\* writes.
OtherTools ==
  LET Of(objects, stamped) ==
        [exists |-> TRUE, stamped |-> stamped, legible |-> TRUE, holds |-> objects]
  IN [f \in Files |-> IF f # x THEN {} ELSE
     {Of({Dataset([class |-> "enum", size |-> 1, unsigned |-> FALSE], 2),
          Group(<<1>>, "plain", {u, v}), Group(<<1, 2>>, "NXdata", {})}, FALSE),
      Of({Group(<<1>>, "link", {}), Group(<<2>>, "NXdata", {v})}, TRUE)}]
=============================================================================
