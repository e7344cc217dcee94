------------------------------- MODULE NXTree -------------------------------
(***************************************************************************)
(* The in-memory NeXus tree of the gonexus package: groups with named      *)
(* children in order (group.go), the name and the parent every object      *)
(* keeps of itself (object.go), attribute sets (attr.go), links (link.go), *)
(* constructors (classes.go), and the views the Go server makes of a tree  *)
(* (nexusview.go).  Objects are known by identity, as Go pointers are.     *)
(*                                                                         *)
(* A child is inserted where it is in no group yet and above no other      *)
(* place, the way every constructor, example and reader of the repository  *)
(* builds a tree; Insert itself does not check it.                         *)
(***************************************************************************)
EXTENDS OrderedMap

CONSTANTS
  Root,         \* the NXroot group of the tree
  Groups,       \* objects of type *NXgroup, Root among them
  LinkGroups,   \* objects of type *NXlinkgroup, each with a group inside
  Fields,       \* objects of type *NXfield
  LinkFields,   \* objects of type *NXlinkfield
  ClassOf,      \* ClassOf[g]: NeXus class of a group
  BornName,     \* BornName[o]: the name o is created with
  ChildNames,   \* names of children
  Given,        \* names that Insert is called with
  Parts,        \* Parts[n]: what is between the slashes of n and is not "" or "."
  AttrNames,    \* names of attributes
  AttrType,     \* AttrType[a]: the type of the values attribute a is set to,
                \* "other" for the types that gonexus cannot write
  None          \* no object

GroupLike == Groups \cup LinkGroups
Objects == GroupLike \cup Fields \cup LinkFields

ASSUME NXTreeAssumption ==
  /\ Root \in Groups
  /\ (Fields \cup LinkFields) \cap GroupLike = {}   \* an object has one type
  /\ ClassOf \in [GroupLike -> STRING]
  /\ BornName \in [Objects -> ChildNames]
  /\ Given \subseteq ChildNames
  /\ Parts \in [ChildNames -> Seq(ChildNames)]
  /\ AttrType \in [AttrNames -> {"string", "float64", "int64", "other"}]
  /\ None \notin Objects \cup ChildNames

VARIABLES
  children,     \* children[g]: NXgroup.order and .entries of g
  attrs,        \* attrs[o]: the AttrSet of o
  name,         \* base.name
  parent        \* base.group

treeVars == <<children, attrs, name, parent>>

Kids(g) == {children[g].at[n] : n \in Names(children[g])}

\* The objects in g and below it.
Under[g \in GroupLike] ==
  Kids(g) \cup UNION {Under[h] : h \in Kids(g) \cap GroupLike}

Attached == UNION {Kids(g) : g \in GroupLike}

TreeInit ==
  /\ children = [g \in GroupLike |-> Empty]
  /\ attrs = [o \in Objects |-> Empty]
  /\ name = BornName
  /\ parent = [o \in Objects |-> None]

-----------------------------------------------------------------------------
(* Changes of the tree.                                                    *)

MutInsert(g, n, o) ==
  /\ o \notin Attached \cup {Root, g}
  /\ o \in GroupLike => g \notin Under[o]
  /\ children' = [children EXCEPT ![g] = Put(@, n, o)]
  /\ name' = [name EXCEPT ![o] = IF parent[o] = None THEN n ELSE @]
  /\ parent' = [parent EXCEPT ![o] = g]
  /\ UNCHANGED attrs

\* An entry of that name is replaced; it keeps its own name and parent.
Insert(g, n, o) ==
  /\ o \notin Attached \cup {Root, g}
  /\ o \in GroupLike => g \notin Under[o]
  /\ children' = [children EXCEPT ![g] = Put(@, n, o)]
  /\ name' = [name EXCEPT ![o] = n]
  /\ parent' = [parent EXCEPT ![o] = g]
  /\ UNCHANGED attrs

\* A constructor of a new group with the children o and p, or o = p alone,
\* under the names they have: of two of one name the second stays.  With more
\* children it goes on as Insert does.
Construct(g, o, p) ==
  /\ children[g] = Empty /\ attrs[g] = Empty /\ parent[g] = None
  /\ {o, p} \cap (Attached \cup {Root, g}) = {}
  /\ \A h \in {o, p} \cap GroupLike : {o, p, g} \cap Under[h] = {}
  /\ children' = [children EXCEPT ![g] = Put(Put(@, name[o], o), name[p], p)]
  /\ parent' = [parent EXCEPT ![o] = g, ![p] = g]
  /\ UNCHANGED <<attrs, name>>

\* The deleted child keeps its name and its parent.
Delete(g, n) ==
  /\ n \in Names(children[g])
  /\ children' = [children EXCEPT ![g] = Drop(@, n)]
  /\ UNCHANGED <<attrs, name, parent>>

\* Set: of the value only the type is of consequence.
SetAttr(o, a) ==
  /\ attrs' = [attrs EXCEPT ![o] = Put(@, a, AttrType[a])]
  /\ UNCHANGED <<children, name, parent>>

DeleteAttr(o, a) ==
  /\ a \in Names(attrs[o])
  /\ attrs' = [attrs EXCEPT ![o] = Drop(@, a)]
  /\ UNCHANGED <<children, name, parent>>

Rearrange ==
  \E g \in GroupLike :
    \/ \E n \in Given, o \in Objects : Insert(g, n, o)
    \/ \E n \in ChildNames : Delete(g, n)
    \/ \E o, p \in Objects : Construct(g, o, p)

ChangeAttr(o, a) == SetAttr(o, a) \/ DeleteAttr(o, a)

TreeNext == Rearrange \/ \E o \in Objects, a \in AttrNames : ChangeAttr(o, a)

TreeSpec == TreeInit /\ [][TreeNext]_treeVars

-----------------------------------------------------------------------------
(* Queries.                                                                *)

InTree == {Root} \cup Under[Root]

\* nxPath, of an object of the tree: the names on the way up to the object
\* without a parent.
NXPath[o \in InTree] ==
  IF parent[o] = None THEN <<>> ELSE Append(NXPath[parent[o]], name[o])

\* One part of a path: cur must be a group with such a child.
Resolve(cur, part) ==
  IF cur \in GroupLike /\ part \in Names(children[cur])
  THEN children[cur].at[part] ELSE None

\* Where parts lead from g, one after the other.
Walk(g, parts) ==
  LET at[i \in 0 .. Len(parts)] ==
        IF i = 0 THEN g ELSE Resolve(at[i - 1], parts[i])
  IN at[Len(parts)]

\* A path is names with slashes between them, but Get splits it at every slash
\* and skips the parts that are empty or ".".
Get(g, path) ==
  LET at[i \in 0 .. Len(path)] ==
        IF i = 0 THEN g ELSE Walk(at[i - 1], Parts[path[i]])
  IN at[Len(path)]

\* A name that stands for itself in a path: not "" and not ".", and without a slash.
Plain(n) == Parts[n] = <<n>>

MutFoundAt(class, found, o) ==
  IF o \notin GroupLike THEN <<>>
  ELSE IF ClassOf[o] = class THEN <<o>> ELSE found[o]

\* What there is of a class at a child and below it, given what is found below
\* groups.
FoundAt(class, found, o) ==
  IF o \notin GroupLike THEN <<>>
  ELSE (IF ClassOf[o] = class THEN <<o>> ELSE <<>>) \o found[o]

FoundIn(class, found, g) ==
  LET s == children[g].order
      upto[i \in 0 .. Len(s)] ==
        IF i = 0 THEN <<>>
        ELSE upto[i - 1] \o FoundAt(class, found, children[g].at[s[i]])
  IN upto[Len(s)]

\* Component: the groups of a class below g, depth first.
Component(class) ==
  LET found[g \in GroupLike] == FoundIn(class, found, g) IN found

\* GetGroup and GetField: Get, and None if it is not of that type.
GetGroup(g, path) ==
  LET o == Get(g, path) IN IF o \in GroupLike THEN o ELSE None

GetField(g, path) ==
  LET o == Get(g, path) IN IF o \in Fields \cup LinkFields THEN o ELSE None

-----------------------------------------------------------------------------
(* The views of the Go server, of the tree at Root.                        *)

BriefOf(n, o) ==
  [name |-> n,
   type |-> CASE o \in Fields -> "field"
              [] o \in Groups -> "group"
              [] OTHER -> "NXlink",
   class |-> IF o \in Groups THEN ClassOf[o] ELSE "none"]

MutBriefs(g) ==
  [i \in DOMAIN children[g].order |->
     BriefOf(children[g].order[i],
             children[g].at[children[g].order[Len(children[g].order) + 1 - i]])]

\* One brief for each of Entries(), in their order.
Briefs(g) ==
  [i \in DOMAIN children[g].order |->
     BriefOf(children[g].order[i], children[g].at[children[g].order[i]])]

\* A request for a group that is not there is answered 404.
NotFound == [class |-> "404", attrs |-> <<>>, children |-> <<>>]

\* buildGroup; buildEntries is that of the empty path, which is Root.
BuildGroup(path) ==
  LET g == GetGroup(Root, path)
  IN IF g = None THEN NotFound
     ELSE [class |-> ClassOf[g], attrs |-> attrs[g].at, children |-> Briefs(g)]

-----------------------------------------------------------------------------
(* Properties.                                                             *)

\* No sequence of Insert, Delete, Set and Delete of attributes lets a slice
\* and its map come apart: a listing shows every entry, once.
OrderMatchesEntries ==
  /\ \A g \in GroupLike : InStep(children[g])
  /\ \A o \in Objects : InStep(attrs[o])

\* Replacing or deleting one entry never moves the others.
OrderIsKept ==
  [][/\ \A g \in GroupLike : SameOrder(children[g], children'[g])
     /\ \A o \in Objects : SameOrder(attrs[o], attrs'[o])]_treeVars

\* What an object keeps of its name and its group is true while it is in one,
\* wherever it has been before: nothing but Insert and the constructors writes it.
KnowsItsPlace ==
  \A g \in GroupLike : \A n \in Names(children[g]) :
    LET o == children[g].at[n] IN name[o] = n /\ parent[o] = g

\* An object that is in the tree is found under the path it gives itself,
\* wherever it has been before, if each name on its way is plain.  Nothing keeps
\* other names out of a tree (a field that NewField made without a name keeps ""
\* in a constructor), and what has one on its way is not found.
PathsResolve ==
  LET path == NXPath
  IN \A o \in Under[Root] :
       (\A i \in DOMAIN path[o] : Plain(path[o][i])) => Get(Root, path[o]) = o

\* Who walks a tree through /group sees all of it, as long as the names are plain,
\* which those of a file are: each group of the tree is shown under its path,
\* and what a listing calls a group or a field can be asked for under the listed
\* name and is that.
ViewsLeadOn ==
  \A g \in {Root} \cup (Under[Root] \cap GroupLike) :
    LET path == NXPath[g]
        view == BuildGroup(path)
        At(b) == Append(path, b.name)
    IN (\A i \in DOMAIN path : Plain(path[i])) =>
       /\ view.class = ClassOf[g]
       /\ Len(view.children) = Cardinality(Names(children[g]))
       /\ \A b \in {c \in ToSet(view.children) : Plain(c.name)} :
            /\ b.type = "field" <=> GetField(Root, At(b)) \in Fields
            /\ b.type = "group" <=> GetGroup(Root, At(b)) \in Groups
            /\ b.type = "group" => BuildGroup(At(b)).class = b.class

\* Component finds each group of the class that is in the tree, and once.
ComponentIsComplete ==
  \A class \in {ClassOf[g] : g \in GroupLike} :
    LET found == Component(class)[Root]
    IN /\ ToSet(found) = {o \in Under[Root] \cap GroupLike : ClassOf[o] = class}
       /\ IsInjective(found)
=============================================================================
