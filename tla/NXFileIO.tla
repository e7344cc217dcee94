------------------------------ MODULE NXFileIO ------------------------------
(***************************************************************************)
(* Saving, loading and duplicating trees of the gonexus package: Save,     *)
(* Load and Duplicate (api.go), OpenFile, WriteFile and ReadFile           *)
(* (file.go), and the readers and writers of hdf5io.go.  A file is the set *)
(* of its HDF5 objects, each with its path, its attributes, its kind and   *)
(* its data: a NeXus class (the attribute NX_class of a group), "field",   *)
(* "plain" for a group without NX_class and, in files of other tools,      *)
(* "link" for a soft or external link.  Save writes one object per action; *)
(* the HDF5 library may fail in each of them, and when it closes the file. *)
(***************************************************************************)
EXTENDS NXTree, FieldData

CONSTANTS
  Files,        \* names of HDF5 files
  Modes,        \* modes Save is called with
  Foreign,      \* Foreign[f]: what other tools may have left in file f
  Contents,     \* records [value, shape] a field is set to, by NewField or by hand
  WellKnown,    \* names of attributes among wellKnownAttrs
  FileAttr,     \* stands for file_name and the other three attributes of the root
                \* that WriteFile sets
  Annotated,    \* pairs of an object and an attribute of it that a program changes
  MaxLost,      \* bound on the objects that a Close which fails has lost
  MaxSaves      \* bound on the calls of Save and Duplicate; the caller is done
                \* after the last

IsGroup(r) == r.kind \notin {"field", "link"}

\* r is in the root or in one of the groups among objects.
HasPlace(r, objects) ==
  \E n \in ChildNames :
    \/ r.path = <<n>>
    \/ \E g \in objects : IsGroup(g) /\ r.path = Append(g.path, n)

\* Objects with a path each, in the root or in groups that are there.
IsTree(objects) ==
  /\ \A r \in objects : r.path \in Seq(ChildNames) /\ HasPlace(r, objects)
  /\ \A q, r \in objects : q.path = r.path => q = r

ASSUME NXFileIOAssumption ==
  /\ None \notin Files \cup Modes \cup {"w"}
  /\ \A f \in Files : \A d \in Foreign[f] :
       /\ DOMAIN d = {"exists", "stamped", "legible", "holds"} /\ d.exists
       /\ IsFiniteSet(d.holds) /\ IsTree(d.holds)
       /\ \A r \in d.holds : \A i \in DOMAIN r.path : Plain(r.path[i])
       /\ \A r \in d.holds : r.kind = "field" => r.data.dims \in Seq(Nat)
  /\ \A g \in GroupLike : ClassOf[g] \notin {"field", "link", "plain"}
  /\ ChildNames \subseteq Nat   \* in the order HDF5 enumerates them in
  /\ Modes \subseteq {"r", "r+", "rw", "a", "w", "w-", "x"}
  /\ \A c \in Contents : c.shape \in Seq(Nat) /\ c.value \in Values(Nat, Nat)
  /\ \A n \in ChildNames : Parts[n] \in {<<>>, <<n>>}   \* no slashes in names
  /\ WellKnown \subseteq AttrNames
  /\ FileAttr \in AttrNames /\ AttrType[FileAttr] = "string"
  /\ Annotated \subseteq (Objects \ {Root}) \X AttrNames
  /\ MaxLost \in Nat
  /\ MaxSaves \in Nat

VARIABLES
  content,      \* content[f]: Value and Shape of field f
  disk,         \* disk[f]: does the file exist, have the root attributes been
                \* written to it, can it be opened and they be read, and which
                \* objects does it hold?
  before,       \* history: disk[target] when the call at work opened it
  target,       \* the file of the call at work or just returned, or None
  handle,       \* is a handle of it open?
  mode,         \* the mode Save or Duplicate opened it in, or None
  todo,         \* the objects writeObject is to be called for next: the rest of
                \* the Entries of each group that is being written
  result,       \* where Save is: "idle", "stamp", "write", or how the last
                \* call returned
  loaded,       \* the objects of the tree that Load returned
  source,       \* the file Duplicate copies or has just copied, None for Save
  twin,         \* history: the file the tree was saved to, whole and alone, and
                \* not changed since, None if there is none
  flushed,      \* has no Close failed since the call opened its file?
  saves         \* number of calls of Save and Duplicate so far

call == <<before, target, mode, loaded, source, saves>>
vars == <<treeVars, content, disk, handle, todo, result, twin, flushed, call>>

Absent == [exists |-> FALSE, stamped |-> FALSE, legible |-> TRUE, holds |-> {}]
Truncated == [Absent EXCEPT !.exists = TRUE]

Init ==
  /\ TreeInit
  /\ content = [f \in Fields |-> [value |-> Nil, shape |-> <<>>]]
  /\ disk \in [Files -> {Absent} \cup UNION {Foreign[f] : f \in Files}]
  /\ \A f \in Files : disk[f] \in {Absent} \cup Foreign[f]
  /\ before = Absent
  /\ target = None
  /\ handle = FALSE
  /\ mode = None
  /\ todo = <<>>
  /\ result = "idle"
  /\ loaded = {}
  /\ source = None
  /\ twin = None
  /\ flushed = TRUE
  /\ saves = 0

-----------------------------------------------------------------------------
(* What is written and read.                                               *)

\* Groups have no data, and neither have links.
NoData == <<>>

\* An object as writeObject is called with it.
Item(path, o) ==
  [path |-> path,
   kind |-> IF o \in GroupLike THEN ClassOf[o]
            ELSE IF o \in Fields THEN "field" ELSE "link",
   attrs |-> attrs[o].at,
   data |-> IF o \in Fields THEN content[o] ELSE NoData]

MutEntries(path) ==
  LET c == children[Walk(Root, path)]
  IN [i \in DOMAIN c.order |-> Item(<<c.order[i]>>, c.at[c.order[i]])]

\* Entries() of the group at a path of the tree that is written: in the order
\* of the group or, in a tree that was loaded, in that of the names, in which
\* HDF5 enumerates them.
Entries(path) ==
  IF source = None
  THEN LET c == children[Walk(Root, path)]
       IN [i \in DOMAIN c.order |-> Item(Append(path, c.order[i]), c.at[c.order[i]])]
  ELSE LET names == {n \in ChildNames : \E r \in loaded : r.path = Append(path, n)}
           sorted == CHOOSE s \in [1 .. Cardinality(names) -> names] :
                       \A i, j \in DOMAIN s : i < j => s[i] < s[j]
       IN [i \in DOMAIN sorted |->
             CHOOSE r \in loaded : r.path = Append(path, sorted[i])]

\* The object of the file that an item is written to.
Stored(r) ==
  IF r.kind = "field"
  THEN [r EXCEPT !.data = Encode(r.data.value, r.data.shape)] ELSE r

\* CreateGroup or CreateDataset is called and takes the name: links have no writer,
\* some fields nothing to write, and HDF5 objects a name that is not empty or ".".
CanBeMade(r) ==
  /\ r.kind # "link"
  /\ Plain(Last(r.path))
  /\ r.kind = "field" => Writable(r.data.value)

KnownTypes == {"string", "float64", "int64"}

CanBeStored(r) == CanBeMade(r) /\ \A a \in DOMAIN r.attrs : r.attrs[a] \in KnownTypes

\* What is left in the file of an item when something fails after its object was
\* made: some of its attributes, of which NX_class is the last, and a dataset
\* with or without its contents.
Fragments(r) ==
  LET known == {a \in DOMAIN r.attrs : r.attrs[a] \in KnownTypes}
      With(o, as) == [o EXCEPT !.attrs = [a \in as |-> r.attrs[a]]]
      o == Stored(r)
  IN IF IsGroup(r)
     THEN {[With(o, as) EXCEPT !.kind = "plain"] : as \in SUBSET known}
     ELSE {With(o, as) : as \in SUBSET known} \cup
          {[With(o, {}) EXCEPT !.data.elems = [i \in DOMAIN @ |-> Garbage]]}

\* readObject: a group without NX_class is an NXgroup.
ReadKind(r) == IF r.kind = "plain" THEN "NXgroup" ELSE r.kind

\* readAttributeValue tries string, float64 and int64, and HDF5 converts any
\* number to the second; other types fail.
ReadType(t) == IF t = "string" THEN "string" ELSE "float64"

\* readAttrsInto asks for the attributes it has the names of; what is neither a
\* group nor a dataset becomes a link stub without any.
ReadAttrs(r) ==
  IF r.kind = "link" THEN <<>>
  ELSE [a \in DOMAIN r.attrs \cap WellKnown |-> ReadType(r.attrs[a])]

\* readObject and what it calls: an object of the tree made of one of the file.
ReadObject(r) ==
  [path |-> r.path, kind |-> ReadKind(r), attrs |-> ReadAttrs(r),
   data |-> IF r.kind = "field" THEN Decode(r.data) ELSE NoData]

ReadFile(objects) == {ReadObject(r) : r \in objects}

\* One dataset or attribute that cannot be read fails the whole tree.
CanRead(f) ==
  /\ disk[f].exists /\ disk[f].legible
  /\ \A r \in disk[f].holds :
       /\ r.kind = "field" => Readable(r.data)
       /\ \A a \in DOMAIN r.attrs \cap WellKnown : r.attrs[a] # "compound"

-----------------------------------------------------------------------------
(* Save and Duplicate.                                                     *)

\* OpenFile: what a mode makes of the file, refused if it may not.
MayOpen(f, m) ==
  \/ m \in {"w", "a"}
  \/ m \in {"r", "r+", "rw"} /\ disk[f].exists
  \/ m \in {"w-", "x"} /\ ~disk[f].exists

MutOpened(f, m) == IF m \in {"r", "r+", "rw"} THEN disk[f] ELSE Truncated

Opened(f, m) ==
  IF m \in {"w", "w-", "x"} \/ ~disk[f].exists THEN Truncated ELSE disk[f]

\* A call returns before it has changed anything.
Refused(f, m, src) ==
  /\ result' = "error"
  /\ target' = f
  /\ mode' = m
  /\ source' = src
  /\ saves' = saves + 1
  /\ before' = disk[f]
  /\ UNCHANGED <<treeVars, content, disk, handle, todo, loaded, twin, flushed>>

Opens(f, m, src) ==
  /\ disk' = [disk EXCEPT ![f] = Opened(f, m)]
  /\ before' = disk[f]
  /\ target' = f
  /\ handle' = TRUE
  /\ mode' = m
  /\ source' = src
  /\ result' = "stamp"
  /\ flushed' = TRUE
  /\ saves' = saves + 1
  /\ UNCHANGED <<treeVars, content, todo>>

\* OpenFile fails, or WriteFile will not write with the handle it returned.
SaveRefused(f, m) ==
  /\ result = "idle"
  /\ saves < MaxSaves
  /\ ~MayOpen(f, m) \/ m = "r" \/ ~disk[f].legible
  /\ Refused(f, m, None)

SaveOpens(f, m) ==
  /\ result = "idle"
  /\ saves < MaxSaves
  /\ MayOpen(f, m) /\ m # "r"
  /\ Opens(f, m, None)
  /\ twin' = None
  /\ UNCHANGED loaded

\* Duplicate loads the source whole before it opens the destination, which may
\* be the source.
DuplicateRefused(src, dst) ==
  /\ result = "idle"
  /\ saves < MaxSaves
  /\ ~CanRead(src)
  /\ Refused(dst, "w", src)

MutDuplicateOpens(src, dst) ==
  /\ result = "idle"
  /\ saves < MaxSaves
  /\ CanRead(src)
  /\ Opens(dst, "w", src)
  /\ loaded' = IF src = dst THEN {} ELSE ReadFile(disk[src].holds)
  /\ twin' = IF twin = dst THEN None ELSE twin

DuplicateOpens(src, dst) ==
  /\ result = "idle"
  /\ saves < MaxSaves
  /\ CanRead(src)
  /\ loaded' = ReadFile(disk[src].holds)
  /\ Opens(dst, "w", src)
  /\ twin' = IF twin = dst THEN None ELSE twin

MutReturns(r, d) ==
  /\ result' = r
  /\ handle' = (r # "ok")
  /\ todo' = <<>>
  /\ flushed' = TRUE
  /\ disk' = [disk EXCEPT ![target] = d]
  /\ UNCHANGED <<content, call>>

\* What H5Fclose may leave of d when it fails to write what the library has in
\* memory: a file that lacks some objects, or that cannot be read.
Damaged(d) ==
  {[d EXCEPT !.legible = FALSE]} \cup
  {[d EXCEPT !.holds = kept] :
     kept \in {k \in SUBSET d.holds : IsTree(k) /\ Cardinality(d.holds \ k) <= MaxLost}}

\* Save returns with d in the file, and the deferred Close releases the handle.
\* Nobody sees the error of a Close that fails.
Returns(r, d) ==
  /\ result' = r
  /\ handle' = FALSE
  /\ todo' = <<>>
  /\ \/ flushed' = TRUE /\ disk' = [disk EXCEPT ![target] = d]
     \/ flushed' = FALSE /\ \E e \in Damaged(d) : disk' = [disk EXCEPT ![target] = e]
  /\ UNCHANGED <<content, call>>

\* WriteFile sets file_name and three more attributes of the root of the tree,
\* which is the program's own or the one that Duplicate has loaded.
SetFileAttrs ==
  IF source = None THEN SetAttr(Root, FileAttr) ELSE UNCHANGED treeVars

\* It writes them, and stamped stands for them in the file.
Stamp ==
  /\ result = "stamp"
  /\ ~disk[target].stamped
  /\ SetFileAttrs
  /\ disk' = [disk EXCEPT ![target].stamped = TRUE]
  /\ todo' = Entries(<<>>)
  /\ result' = "write"
  /\ UNCHANGED <<content, handle, twin, flushed, call>>

\* CreateAttribute fails on an attribute that is there already; and HDF5 may fail
\* before, between or behind them.
StampFails ==
  /\ result = "stamp"
  /\ SetFileAttrs
  /\ \E s \in {disk[target].stamped, TRUE} :
       Returns("error", [disk[target] EXCEPT !.stamped = s])
  /\ UNCHANGED twin

\* Nothing can be created under a name that is taken.
Taken(path) == \E r \in disk[target].holds : r.path = path

\* The file with o in it.
Holding(o) == [disk[target] EXCEPT !.holds = @ \cup {o}]

Written(r, below) ==
  /\ CanBeStored(r) /\ ~Taken(r.path)
  /\ disk' = [disk EXCEPT ![target] = Holding(Stored(r))]
  /\ todo' = below \o Tail(todo)
  /\ UNCHANGED <<treeVars, content, handle, result, twin, flushed, call>>

\* Also that inside an NXlinkgroup.
WriteGroup ==
  /\ result = "write" /\ todo # <<>>
  /\ IsGroup(Head(todo))
  /\ Written(Head(todo), Entries(Head(todo).path))

MutWriteField ==
  /\ result = "write" /\ todo # <<>>
  /\ Head(todo).kind = "field"
  /\ IF Writable(Head(todo).data.value) THEN Written(Head(todo), <<>>)
     ELSE /\ todo' = Tail(todo)
          /\ UNCHANGED <<treeVars, content, disk, handle, result, twin, flushed, call>>

WriteField ==
  /\ result = "write" /\ todo # <<>>
  /\ Head(todo).kind = "field"
  /\ Written(Head(todo), <<>>)

\* The next object is not made, as it cannot be or HDF5 fails, or it is made and an
\* attribute of it or its contents cannot be written: the error goes up through
\* every writeGroup, and what is in the file stays there.
WriteFails ==
  /\ result = "write" /\ todo # <<>>
  /\ LET r == Head(todo)
     IN \/ Returns("error", disk[target])
        \/ /\ CanBeMade(r) /\ ~Taken(r.path)
           /\ \E o \in Fragments(r) : Returns("error", Holding(o))
  /\ UNCHANGED <<treeVars, twin>>

SaveSucceeds ==
  /\ result = "write" /\ todo = <<>>
  /\ Returns("ok", disk[target])
  /\ twin' = IF source = None /\ flushed' /\ (mode = "w" \/ ~before.exists)
             THEN target ELSE twin
  /\ UNCHANGED treeVars

-----------------------------------------------------------------------------
(* Load, and the program that uses the package.                            *)

\* In mode "r"; in "rw", which the comment of Load names as well, it reads the same.
Load(f) ==
  /\ result = "idle"
  /\ CanRead(f)
  /\ loaded' = ReadFile(disk[f].holds)
  /\ target' = f
  /\ result' = "loaded"
  /\ UNCHANGED <<treeVars, content, disk, handle, before, mode, todo, source,
                 twin, flushed, saves>>

LoadFails(f) ==
  /\ result = "idle"
  /\ ~CanRead(f)
  /\ target' = f
  /\ result' = "unreadable"
  /\ UNCHANGED <<treeVars, content, disk, handle, before, mode, todo, loaded,
                 source, twin, flushed, saves>>

Continue ==
  /\ result \in {"ok", "error", "loaded", "unreadable"}
  /\ result' = "idle"
  /\ target' = None
  /\ mode' = None
  /\ before' = Absent
  /\ loaded' = {}
  /\ source' = None
  /\ flushed' = TRUE
  /\ UNCHANGED <<treeVars, content, disk, handle, todo, twin, saves>>

\* NXfield.Value and NXfield.Shape are assigned.
SetValue(f) ==
  /\ \E c \in Contents : content' = [content EXCEPT ![f] = c]
  /\ twin' = None
  /\ UNCHANGED <<treeVars, disk, handle, todo, result, flushed, call>>

EditTree ==
  /\ Rearrange \/ \E p \in Annotated : ChangeAttr(p[1], p[2])
  /\ twin' = None
  /\ UNCHANGED <<content, disk, handle, todo, result, flushed, call>>

Edit ==
  /\ result = "idle"
  /\ saves < MaxSaves
  /\ EditTree \/ \E f \in Fields : SetValue(f)

Next ==
  \/ Edit
  \/ \E f \in Files :
       \/ \E m \in Modes : SaveRefused(f, m) \/ SaveOpens(f, m)
       \/ \E g \in Files : DuplicateRefused(f, g) \/ DuplicateOpens(f, g)
       \/ Load(f)
       \/ LoadFails(f)
  \/ Stamp \/ StampFails \/ WriteGroup \/ WriteField \/ WriteFails
  \/ SaveSucceeds \/ Continue

Spec == Init /\ [][Next]_vars

-----------------------------------------------------------------------------
(* Properties.                                                             *)

\* The tree as a set of items, each at the path the object gives itself.
Image == LET path == NXPath IN {Item(path[o], o) : o \in Under[Root]}

OnDisk(items) == {Stored(r) : r \in {i \in items : CanBeStored(i)}}

\* Types, and: a handle is open exactly while Save or Duplicate is at work.
TypeOK ==
  /\ \A f \in Files : /\ DOMAIN disk[f] = DOMAIN Absent
                      /\ ~disk[f].exists => disk[f] = Absent
  /\ content \in [Fields -> Contents \cup {[value |-> Nil, shape |-> <<>>]}]
  /\ mode \in Modes \cup {"w", None}
  /\ result \in {"idle", "stamp", "write", "ok", "error", "loaded", "unreadable"}
  /\ twin \in Files \cup {None}
  /\ flushed \in BOOLEAN
  /\ saves \in 0 .. MaxSaves
  /\ target \in Files \cup {None}
  /\ handle <=> result \in {"stamp", "write"}
  /\ handle => disk[target].exists

\* Save returns nil only if the file holds the whole tree, and besides it only
\* what was there when an existing file was opened to be added to, or if Close
\* has failed: Save returns nil all the same.
SavedIsWhole ==
  result = "ok" /\ source = None /\ flushed =>
    /\ \A r \in Image : CanBeStored(r)
    /\ disk[target].holds =
         OnDisk(Image) \cup
         (IF mode \in {"a", "r+", "rw"} THEN before.holds ELSE {})

\* While Save or Duplicate is at work, and when it is done, the file holds nothing
\* that is neither in the tree, whole and at its place, nor was there before; but
\* when it failed, a part of one object of the tree may be there.
NothingInvented ==
  mode # None =>
    LET items == IF source # None THEN loaded ELSE Image
        odd == disk[target].holds \ (OnDisk(items) \cup before.holds)
    IN /\ odd # {} => result = "error"
       /\ Cardinality(odd) <= 1
       /\ \A o \in odd : \E r \in items : CanBeMade(r) /\ o \in Fragments(r)

\* What comes back of an item that was written: no attribute gonexus has no name
\* of, texts without the NULs behind them, and numbers of attributes as floats.
ComesBackAs(r, l) ==
  /\ l.path = r.path /\ l.kind = r.kind
  /\ DOMAIN l.attrs = DOMAIN r.attrs \cap WellKnown
  /\ \A a \in DOMAIN l.attrs : l.attrs[a] = "string" <=> r.attrs[a] = "string"
  /\ r.kind = "field" /\ Fits(r.data.value, r.data.shape) =>
       l.data = [value |-> Trimmed(r.data.value), shape |-> r.data.shape]

\* A tree that was saved can be loaded again and is the same but for that and
\* for the order of children: same groups, same fields, same kinds and shapes.
RoundTrip ==
  twin # None /\ twin = target /\ mode = None =>
    /\ result = "loaded"
    /\ Cardinality(loaded) = Cardinality(Image)
    /\ \A r \in Image : \E l \in loaded : ComesBackAs(r, l)

\* What Duplicate wrote loads as the same tree as what it was asked to copy,
\* when that was the destination itself as well, unless Close has failed.
DuplicateIsFaithful ==
  result = "ok" /\ source # None /\ flushed =>
    ReadFile(disk[target].holds) =
      ReadFile(IF source = target THEN before.holds ELSE disk[source].holds)

\* A call takes nothing away from a file but in mode "w" or when Close fails, and
\* then only from the file it writes.
OthersKeepFiles ==
  [][\A f \in Files :
       f # target' \/ (mode' # "w" /\ flushed') =>
         disk[f].holds \subseteq disk'[f].holds]_vars

-----------------------------------------------------------------------------
(* A claim of the documentation that the code does not meet.               *)

\* README.md, "Differences from Python": WriteFile "returns an error if it
\* encounters one to write", of the links made by NewLinkField, NewLinkGroup.
LinksAreRefused ==
  result = "ok" /\ source = None =>
    Under[Root] \cap (LinkFields \cup LinkGroups) = {}
=============================================================================
