--------------------------- MODULE NXFileIOProofs ---------------------------
(***************************************************************************)
(* Theorems about NXFileIO and FieldData, for any tree, files and values:  *)
(* a program that saves, loads and duplicates uses the tree as NXTree      *)
(* says, a handle is open just while a call is at work, no call takes      *)
(* anything from a file it was not asked to overwrite, and the value of a  *)
(* field comes back as it was written.  Whatever fails, a file has at most *)
(* a part of one object that is not in the tree as it is there.  As long   *)
(* as Close does not fail, what Save writes is the tree, no more and no    *)
(* less, a tree that was saved can be loaded and is the same, and a        *)
(* duplicate loads as what it was made of.  These rest on SaveInv: of a    *)
(* call at work, everything that has its place in what was written is      *)
(* written or in todo, so that nothing is left out once todo is empty.     *)
(*****************************************************************************)
EXTENDS NXFileIO, NXTreeProofs

-----------------------------------------------------------------------------
(* The tree in a program that saves and loads it.                          *)

LEMMA StepsUseTree == [Next]_vars => [TreeNext]_treeVars
<1> SUFFICES ASSUME [Next]_vars PROVE TreeNext \/ UNCHANGED treeVars
    OBVIOUS
<1>1. CASE UNCHANGED vars
      BY <1>1 DEF vars
<1>2. CASE Edit
  <2>1. ASSUME NEW p \in Annotated PROVE p[1] \in Objects /\ p[2] \in AttrNames
        BY NXFileIOAssumption
  <2>2. CASE EditTree
        BY <2>1, <2>2 DEF EditTree, TreeNext
  <2>3. QED
        BY <1>2, <2>2 DEF Edit, SetValue
<1>3. ASSUME NEW f \in Files, NEW m \in Modes, SaveRefused(f, m) \/ SaveOpens(f, m)
      PROVE  UNCHANGED treeVars
      BY <1>3 DEF SaveRefused, SaveOpens, Refused, Opens
<1>4. ASSUME NEW f \in Files, NEW g \in Files,
             DuplicateRefused(f, g) \/ DuplicateOpens(f, g)
      PROVE  UNCHANGED treeVars
      BY <1>4 DEF DuplicateRefused, DuplicateOpens, Refused, Opens
<1>5. ASSUME NEW f \in Files, Load(f) \/ LoadFails(f)
      PROVE  UNCHANGED treeVars
      BY <1>5 DEF Load, LoadFails
<1>6. CASE Stamp \/ StampFails
  <2>1. SetAttr(Root, FileAttr) \/ UNCHANGED treeVars
        BY <1>6 DEF Stamp, StampFails, SetFileAttrs
  <2>2. Root \in Objects /\ FileAttr \in AttrNames
        BY NXFileIOAssumption, NXTreeAssumption DEF Objects, GroupLike
  <2>3. QED
        BY <2>1, <2>2 DEF TreeNext, ChangeAttr
<1>7. CASE WriteGroup \/ WriteField \/ WriteFails \/ SaveSucceeds \/ Continue
      BY <1>7 DEF WriteGroup, WriteField, WriteFails, SaveSucceeds, Continue, Written
<1>8. QED
      BY <1>1, <1>2, <1>3, <1>4, <1>5, <1>6, <1>7 DEF Next

\* Save sets attributes of the root, and Load and Duplicate leave the tree of the
\* program alone; else it is changed by the operations of NXTree only: what is
\* proved of every tree holds in a program with files.
THEOREM FilesUseTree == Spec => TreeSpec
<1>1. Init => TreeInit
      BY DEF Init
<1>2. QED
      BY <1>1, StepsUseTree, PTL DEF Spec, TreeSpec

-----------------------------------------------------------------------------
(* Handles and files.                                                      *)

\* Besides the types, the file that is open is one.
FileInv ==
  /\ TypeOK
  /\ DOMAIN disk = Files
  /\ handle \in BOOLEAN
  /\ handle => target \in Files

LEMMA FileInvInit == Init => FileInv
<1> SUFFICES ASSUME Init PROVE FileInv
    OBVIOUS
<1>1. ASSUME NEW f \in Files
      PROVE  /\ DOMAIN disk[f] = DOMAIN Absent
             /\ ~disk[f].exists => disk[f] = Absent
  <2>1. CASE disk[f] = Absent
        BY <2>1
  <2>2. CASE disk[f] \in Foreign[f]
        BY <2>2, NXFileIOAssumption DEF Absent
  <2>3. QED
        BY <2>1, <2>2 DEF Init
<1>2. DOMAIN disk = Files
      BY DEF Init
<1>3. saves \in 0 .. MaxSaves
      BY NXFileIOAssumption DEF Init
<1>4. /\ content \in [Fields -> Contents \cup {[value |-> Nil, shape |-> <<>>]}]
      /\ mode \in Modes \cup {"w", None}
      /\ twin \in Files \cup {None}
      /\ target \in Files \cup {None}
      /\ flushed \in BOOLEAN
      BY DEF Init
<1>5. handle = FALSE /\ result = "idle"
      BY DEF Init
<1>6. QED
      BY <1>1, <1>2, <1>3, <1>4, <1>5 DEF FileInv, TypeOK

\* A file made of another by opening it.
LEMMA OpenedIsFile ==
  ASSUME FileInv, NEW f \in Files, NEW m, MayOpen(f, m)
  PROVE  /\ DOMAIN Opened(f, m) = DOMAIN Absent
         /\ Opened(f, m).exists
         /\ m # "w" => disk[f].holds \subseteq Opened(f, m).holds
<1>1. /\ DOMAIN disk[f] = DOMAIN Absent
      /\ ~disk[f].exists => disk[f] = Absent
      BY DEF FileInv, TypeOK
<1>2. DOMAIN Truncated = DOMAIN Absent /\ Truncated.exists /\ Absent.holds = {}
      BY DEF Truncated, Absent
<1>3. CASE m \in {"w", "w-", "x"} \/ ~disk[f].exists
  <2>1. Opened(f, m) = Truncated
        BY <1>3 DEF Opened
  <2>2. m # "w" => ~disk[f].exists
        BY <1>3 DEF MayOpen
  <2>3. QED
        BY <1>1, <1>2, <2>1, <2>2
<1>4. CASE ~(m \in {"w", "w-", "x"} \/ ~disk[f].exists)
      BY <1>1, <1>4 DEF Opened
<1>5. QED
      BY <1>3, <1>4

\* The calls that open a file.
LEMMA OpensKeeps ==
  ASSUME FileInv, NEW f \in Files, NEW m \in Modes \cup {"w"}, NEW src,
         MayOpen(f, m), Opens(f, m, src), saves < MaxSaves,
         twin' \in Files \cup {None}
  PROVE  FileInv'
<1> USE DEF FileInv
<1>1. disk' = [disk EXCEPT ![f] = Opened(f, m)]
      BY DEF Opens
<1>2. /\ DOMAIN Opened(f, m) = DOMAIN Absent
      /\ Opened(f, m).exists
      BY OpenedIsFile
<1>3. \A g \in Files : /\ DOMAIN disk'[g] = DOMAIN Absent
                       /\ ~disk'[g].exists => disk'[g] = Absent
      BY <1>1, <1>2 DEF TypeOK
<1>4. disk'[f].exists /\ DOMAIN disk' = Files
      BY <1>1, <1>2
<1>5. saves' \in 0 .. MaxSaves
      BY NXFileIOAssumption DEF Opens, TypeOK
<1>6. QED
      BY <1>3, <1>4, <1>5 DEF Opens, TypeOK

LEMMA RefusedKeeps ==
  ASSUME FileInv, NEW f \in Files, NEW m \in Modes \cup {"w"}, NEW src,
         result = "idle", Refused(f, m, src), saves < MaxSaves
  PROVE  FileInv'
<1>1. saves' \in 0 .. MaxSaves
      BY NXFileIOAssumption DEF FileInv, Refused, TypeOK
<1>2. QED
      BY <1>1 DEF FileInv, Refused, TypeOK

\* A file that is as it should be when Close is called is still one when Close has
\* failed, and may lack some of what it had.
LEMMA DamagedFile ==
  ASSUME NEW d, DOMAIN d = DOMAIN Absent, NEW e \in Damaged(d)
  PROVE  /\ DOMAIN e = DOMAIN Absent
         /\ e.exists = d.exists
         /\ e.holds \subseteq d.holds
         /\ IsTree(d.holds) => IsTree(e.holds)
<1>1. DOMAIN d = {"exists", "stamped", "legible", "holds"}
      BY DEF Absent
<1>2. CASE e = [d EXCEPT !.legible = FALSE]
      BY <1>1, <1>2
<1>3. ASSUME NEW kept \in SUBSET d.holds, IsTree(kept), e = [d EXCEPT !.holds = kept]
      PROVE  DOMAIN e = DOMAIN d /\ e.exists = d.exists /\ e.holds = kept
      BY <1>1, <1>3
<1>4. QED
      BY <1>1, <1>2, <1>3 DEF Damaged

\* What is in the file, and in the others, when a call returns.
LEMMA WhatReturnsLeave ==
  ASSUME FileInv, target \in Files, NEW r, NEW d, DOMAIN d = DOMAIN Absent, Returns(r, d)
  PROVE  /\ DOMAIN disk' = Files
         /\ \A f \in Files : f # target => disk'[f] = disk[f]
         /\ DOMAIN disk'[target] = DOMAIN Absent
         /\ disk'[target].exists = d.exists
         /\ disk'[target].holds \subseteq d.holds
         /\ flushed' => disk'[target] = d
         /\ IsTree(d.holds) => IsTree(disk'[target].holds)
         /\ target' = target /\ flushed' \in BOOLEAN
<1>1. DOMAIN disk = Files
      BY DEF FileInv
<1>2. PICK e : /\ e = d \/ e \in Damaged(d)
               /\ disk' = [disk EXCEPT ![target] = e]
               /\ flushed' => e = d
      BY DEF Returns
<1>3. /\ DOMAIN e = DOMAIN Absent
      /\ e.exists = d.exists
      /\ e.holds \subseteq d.holds
      /\ IsTree(d.holds) => IsTree(e.holds)
      BY <1>2, DamagedFile
<1>4. disk'[target] = e /\ DOMAIN disk' = Files
      BY <1>1, <1>2
<1>5. \A f \in Files : f # target => disk'[f] = disk[f]
      BY <1>1, <1>2
<1>6. target' = target /\ flushed' \in BOOLEAN
      BY DEF Returns, call
<1>7. QED
      BY <1>2, <1>3, <1>4, <1>5, <1>6

\* What can be in a file when a call is about to return: what is there, with the
\* root attributes or without, and perhaps one object more.
LEMMA FilesOfReturns ==
  ASSUME FileInv, result \in {"stamp", "write"}
  PROVE  /\ target \in Files /\ disk[target].exists
         /\ DOMAIN disk[target] = DOMAIN Absent
         /\ \A s : LET d == [disk[target] EXCEPT !.stamped = s]
                   IN /\ DOMAIN d = DOMAIN Absent /\ d.exists
                      /\ d.holds = disk[target].holds
                      /\ d.legible = disk[target].legible
         /\ \A o : LET d == Holding(o)
                   IN /\ DOMAIN d = DOMAIN Absent /\ d.exists
                      /\ d.holds = disk[target].holds \cup {o}
                      /\ d.legible = disk[target].legible
<1>1. target \in Files /\ disk[target].exists
      BY DEF FileInv, TypeOK
<1>2. DOMAIN disk[target] = {"exists", "stamped", "legible", "holds"}
      BY <1>1 DEF FileInv, TypeOK, Absent
<1>3. DOMAIN Absent = {"exists", "stamped", "legible", "holds"}
      BY DEF Absent
<1>4. QED
      BY <1>1, <1>2, <1>3 DEF Holding

\* The steps of a call at work change no file but its own.
LEMMA WorkKeeps ==
  ASSUME FileInv,
         Stamp \/ StampFails \/ WriteGroup \/ WriteField \/ WriteFails \/ SaveSucceeds
  PROVE  FileInv'
<1> USE DEF FileInv
<1>1. handle /\ result \in {"stamp", "write"}
      BY DEF TypeOK, Stamp, StampFails, WriteGroup, WriteField, WriteFails, SaveSucceeds
<1>2. /\ target \in Files /\ disk[target].exists
      /\ DOMAIN disk[target] = DOMAIN Absent
      BY <1>1, FilesOfReturns
<1>3. ASSUME NEW d, DOMAIN d = DOMAIN Absent, d.exists, disk' = [disk EXCEPT ![target] = d]
      PROVE  /\ \A g \in Files : /\ DOMAIN disk'[g] = DOMAIN Absent
                                 /\ ~disk'[g].exists => disk'[g] = Absent
             /\ disk'[target].exists /\ DOMAIN disk' = Files
      BY <1>2, <1>3 DEF TypeOK
<1>4. CASE Stamp
  <2> DEFINE d == [disk[target] EXCEPT !.stamped = TRUE]
  <2>1. disk' = [disk EXCEPT ![target] = d]
        BY <1>4 DEF Stamp
  <2>2. DOMAIN d = DOMAIN Absent /\ d.exists
        BY <1>1, FilesOfReturns
  <2> HIDE DEF d
  <2>3. /\ \A g \in Files : /\ DOMAIN disk'[g] = DOMAIN Absent
                            /\ ~disk'[g].exists => disk'[g] = Absent
        /\ disk'[target].exists /\ DOMAIN disk' = Files
        BY <1>3, <2>1, <2>2
  <2>4. QED
        BY <1>1, <1>2, <1>4, <2>3 DEF Stamp, TypeOK, call
<1>5. ASSUME NEW r, NEW below, Written(r, below), result = "write"
      PROVE  FileInv'
  <2> DEFINE d == Holding(Stored(r))
  <2>1. disk' = [disk EXCEPT ![target] = d]
        BY <1>5 DEF Written
  <2>2. DOMAIN d = DOMAIN Absent /\ d.exists
        BY <1>1, FilesOfReturns
  <2> HIDE DEF d
  <2>3. /\ \A g \in Files : /\ DOMAIN disk'[g] = DOMAIN Absent
                            /\ ~disk'[g].exists => disk'[g] = Absent
        /\ disk'[target].exists /\ DOMAIN disk' = Files
        BY <1>3, <2>1, <2>2
  <2>4. QED
        BY <1>1, <1>2, <1>5, <2>3 DEF Written, TypeOK, call
<1>6. ASSUME NEW r \in {"ok", "error"}, NEW d, DOMAIN d = DOMAIN Absent, d.exists,
             Returns(r, d), twin' \in {twin, target}
      PROVE  FileInv'
  <2>1. /\ DOMAIN disk' = Files /\ disk'[target].exists /\ flushed' \in BOOLEAN
        /\ \A f \in Files : f # target => disk'[f] = disk[f]
        /\ DOMAIN disk'[target] = DOMAIN Absent
        BY <1>2, <1>6, WhatReturnsLeave
  <2>2. \A g \in Files : /\ DOMAIN disk'[g] = DOMAIN Absent
                         /\ ~disk'[g].exists => disk'[g] = Absent
        BY <1>2, <2>1 DEF TypeOK
  <2>3. /\ result' = r /\ ~handle' /\ handle' \in BOOLEAN
        /\ UNCHANGED <<content, target, mode, saves>>
        BY <1>6 DEF Returns, call
  <2>4. QED
        BY <1>2, <1>6, <2>1, <2>2, <2>3 DEF TypeOK
<1>7. CASE WriteGroup \/ WriteField
      BY <1>5, <1>7 DEF WriteGroup, WriteField
<1>8. CASE StampFails
  <2>1. PICK s : Returns("error", [disk[target] EXCEPT !.stamped = s])
        BY <1>8 DEF StampFails
  <2>2. twin' = twin
        BY <1>8 DEF StampFails
  <2>3. QED
        BY <1>1, <1>6, <2>1, <2>2, FilesOfReturns
<1>9. CASE WriteFails
  <2>1. PICK d : /\ Returns("error", d)
                 /\ d = disk[target] \/ \E o : d = Holding(o)
        BY <1>9 DEF WriteFails
  <2>2. DOMAIN d = DOMAIN Absent /\ d.exists
        BY <1>1, <2>1, FilesOfReturns
  <2>3. twin' = twin
        BY <1>9 DEF WriteFails
  <2>4. QED
        BY <1>6, <2>1, <2>2, <2>3
<1>10. CASE SaveSucceeds
       BY <1>2, <1>6, <1>10 DEF SaveSucceeds
<1>11. QED
       BY <1>4, <1>7, <1>8, <1>9, <1>10

LEMMA FileInvNext == FileInv /\ [Next]_vars => FileInv'
<1> SUFFICES ASSUME FileInv, [Next]_vars PROVE FileInv'
    OBVIOUS
<1>1. CASE UNCHANGED vars
      BY <1>1 DEF FileInv, TypeOK, vars, call
<1>2. CASE Edit
  <2>1. CASE EditTree
        BY <1>2, <2>1 DEF Edit, EditTree, FileInv, TypeOK, call
  <2>2. ASSUME NEW f \in Fields, SetValue(f)
        PROVE  FileInv'
    <3>1. PICK c \in Contents : content' = [content EXCEPT ![f] = c]
          BY <2>2 DEF SetValue
    <3>2. QED
          BY <2>2, <3>1 DEF SetValue, FileInv, TypeOK, call
  <2>3. QED
        BY <1>2, <2>1, <2>2 DEF Edit
<1>3. ASSUME NEW f \in Files, NEW m \in Modes, SaveRefused(f, m) \/ SaveOpens(f, m)
      PROVE  FileInv'
      BY <1>3, OpensKeeps, RefusedKeeps DEF SaveRefused, SaveOpens
<1>4. ASSUME NEW f \in Files, NEW g \in Files,
             DuplicateRefused(f, g) \/ DuplicateOpens(f, g)
      PROVE  FileInv'
  <2>1. MayOpen(g, "w")
        BY DEF MayOpen
  <2>2. twin \in Files \cup {None}
        BY DEF FileInv, TypeOK
  <2>3. QED
        BY <1>4, <2>1, <2>2, OpensKeeps, RefusedKeeps DEF DuplicateRefused, DuplicateOpens
<1>5. ASSUME NEW f \in Files, Load(f) \/ LoadFails(f)
      PROVE  FileInv'
      BY <1>5 DEF Load, LoadFails, FileInv, TypeOK
<1>6. CASE Continue
      BY <1>6 DEF Continue, FileInv, TypeOK
<1>7. QED
      BY <1>1, <1>2, <1>3, <1>4, <1>5, <1>6, WorkKeeps DEF Next

LEMMA FileInvariant == Spec => []FileInv
BY FileInvInit, FileInvNext, PTL DEF Spec

\* Types, and: every call of Save and Duplicate, however it ends, releases its
\* handle, and while it has one the file exists (api.go:52-71, file.go:83-94).
THEOREM TypeCorrect == Spec => []TypeOK
<1>1. FileInv => TypeOK
      BY DEF FileInv
<1>2. QED
      BY <1>1, FileInvariant, PTL

LEMMA StepTakesNothing ==
  FileInv /\ [Next]_vars =>
    [\A f \in Files :
       f # target' \/ (mode' # "w" /\ flushed') =>
         disk[f].holds \subseteq disk'[f].holds]_vars
<1> SUFFICES ASSUME FileInv, Next, NEW f \in Files,
                    f # target' \/ (mode' # "w" /\ flushed')
             PROVE  disk[f].holds \subseteq disk'[f].holds
    OBVIOUS
<1> USE DEF FileInv
<1>1. CASE disk' = disk
      BY <1>1
<1>2. ASSUME NEW h \in Files, NEW m, NEW src, MayOpen(h, m), Opens(h, m, src)
      PROVE  disk[f].holds \subseteq disk'[f].holds
  <2>1. /\ disk' = [disk EXCEPT ![h] = Opened(h, m)]
        /\ target' = h /\ mode' = m
        BY <1>2 DEF Opens
  <2>2. m # "w" => disk[h].holds \subseteq Opened(h, m).holds
        BY <1>2, OpenedIsFile
  <2>3. QED
        BY <2>1, <2>2
<1>3. ASSUME NEW d, disk[target].holds \subseteq d.holds, target \in Files,
             disk' = [disk EXCEPT ![target] = d]
      PROVE  disk[f].holds \subseteq disk'[f].holds
      BY <1>3
<1>4. CASE Stamp
  <2>1. /\ disk' = [disk EXCEPT ![target] = [disk[target] EXCEPT !.stamped = TRUE]]
        /\ result = "stamp"
        BY <1>4 DEF Stamp
  <2>2. QED
        BY <1>3, <2>1, FilesOfReturns
<1>5. ASSUME NEW r, NEW below, Written(r, below), result = "write"
      PROVE  disk[f].holds \subseteq disk'[f].holds
  <2>1. disk' = [disk EXCEPT ![target] = Holding(Stored(r))]
        BY <1>5 DEF Written
  <2>2. QED
        BY <1>3, <1>5, <2>1, FilesOfReturns
<1>6. ASSUME NEW r, NEW d, Returns(r, d), DOMAIN d = DOMAIN Absent,
             disk[target].holds \subseteq d.holds, target \in Files
      PROVE  disk[f].holds \subseteq disk'[f].holds
      BY <1>6, WhatReturnsLeave
<1>7. CASE StampFails
  <2>1. PICK s : Returns("error", [disk[target] EXCEPT !.stamped = s])
        BY <1>7 DEF StampFails
  <2>2. result = "stamp"
        BY <1>7 DEF StampFails
  <2>3. QED
        BY <1>6, <2>1, <2>2, FilesOfReturns
<1>8. CASE WriteFails
  <2>1. PICK d : /\ Returns("error", d)
                 /\ d = disk[target] \/ \E o : d = Holding(o)
        BY <1>8 DEF WriteFails
  <2>2. result = "write"
        BY <1>8 DEF WriteFails
  <2>3. DOMAIN d = DOMAIN Absent /\ disk[target].holds \subseteq d.holds /\ target \in Files
        BY <2>1, <2>2, FilesOfReturns
  <2>4. QED
        BY <1>6, <2>1, <2>3
<1>9. CASE SaveSucceeds
  <2>1. result = "write" /\ Returns("ok", disk[target])
        BY <1>9 DEF SaveSucceeds
  <2>2. QED
        BY <1>6, <2>1, FilesOfReturns
<1>10. ASSUME NEW h \in Files, NEW m \in Modes, SaveRefused(h, m) \/ SaveOpens(h, m)
       PROVE  disk[f].holds \subseteq disk'[f].holds
       BY <1>1, <1>2, <1>10 DEF SaveRefused, SaveOpens, Refused
<1>11. ASSUME NEW g \in Files, NEW h \in Files,
              DuplicateRefused(g, h) \/ DuplicateOpens(g, h)
       PROVE  disk[f].holds \subseteq disk'[f].holds
  <2>1. MayOpen(h, "w")
        BY DEF MayOpen
  <2>2. QED
        BY <1>1, <1>2, <1>11, <2>1 DEF DuplicateRefused, DuplicateOpens, Refused
<1>12. CASE Edit \/ Continue
       BY <1>1, <1>12 DEF Edit, EditTree, SetValue, Continue
<1>13. ASSUME NEW h \in Files, Load(h) \/ LoadFails(h)
       PROVE  disk[f].holds \subseteq disk'[f].holds
       BY <1>1, <1>13 DEF Load, LoadFails
<1>14. CASE WriteGroup \/ WriteField
       BY <1>5, <1>14 DEF WriteGroup, WriteField
<1>15. QED
       BY <1>4, <1>7, <1>8, <1>9, <1>10, <1>11, <1>12, <1>13, <1>14 DEF Next

\* No call takes anything from a file but in mode "w", which Duplicate uses, or
\* when its Close fails, and then from the file it writes only: one that fails
\* halfway leaves an existing file with all it had (file.go:35-94, api.go:47-71).
THEOREM OthersAlwaysKept == Spec => OthersKeepFiles
<1>1. QED
      BY FileInvariant, StepTakesNothing, PTL DEF Spec, OthersKeepFiles

-----------------------------------------------------------------------------
(* Values.                                                                 *)

LEMMA KindsAreKnown ==
  ASSUME NEW k \in NumberKinds
  PROVE  ElementGoType(TypeOf[k]) = k
<1>1. k \in {"int8", "uint8", "int16", "uint16", "int32", "uint32", "int64",
             "uint64", "float32", "float64"}
      BY DEF NumberKinds, TypeOf
<1> USE DEF ElementGoType, TypeOf, IntegerType, FloatType, Signed, Unsigned
<1>2. CASE k = "int8"    BY <1>2
<1>3. CASE k = "uint8"   BY <1>3
<1>4. CASE k = "int16"   BY <1>4
<1>5. CASE k = "uint16"  BY <1>5
<1>6. CASE k = "int32"   BY <1>6
<1>7. CASE k = "uint32"  BY <1>7
<1>8. CASE k = "int64"   BY <1>8
<1>9. CASE k = "uint64"  BY <1>9
<1>10. CASE k = "float32" BY <1>10
<1>11. CASE k = "float64" BY <1>11
<1>12. QED
       BY <1>1, <1>2, <1>3, <1>4, <1>5, <1>6, <1>7, <1>8, <1>9, <1>10, <1>11

LEMMA ValuesAreRecords ==
  ASSUME NEW N, NEW T, NEW v \in Values(N, T), v.kind # "nil"
  PROVE  /\ v.kind \in NumberKinds \cup {"string"}
         /\ v.slice \in BOOLEAN
         /\ v = [kind |-> v.kind, slice |-> v.slice, elems |-> v.elems]
         /\ v.elems \in Seq(N) \cup Seq([text : T, nuls : Nat])
<1> DEFINE Scalar(E) == {e \in Seq(E) : Len(e) = 1}
           Text == [text : T, nuls : Nat]
<1> HIDE DEF Text
<1>0. v # Nil
      BY DEF Nil
<1>1. \/ v \in [kind : NumberKinds, slice : {FALSE}, elems : Scalar(N)]
      \/ v \in [kind : NumberKinds, slice : {TRUE}, elems : Seq(N)]
      \/ v \in [kind : {"string"}, slice : {FALSE}, elems : Scalar(Text)]
      \/ v \in [kind : {"string"}, slice : {TRUE}, elems : Seq(Text)]
      BY <1>0, Zenon DEF Values, Text
<1>2. ASSUME NEW K, NEW L, NEW E, v \in [kind : K, slice : L, elems : E]
      PROVE  /\ v.kind \in K /\ v.slice \in L /\ v.elems \in E
             /\ v = [kind |-> v.kind, slice |-> v.slice, elems |-> v.elems]
      BY <1>2
<1>3. Scalar(N) \subseteq Seq(N) /\ Scalar(Text) \subseteq Seq(Text)
      OBVIOUS
<1> HIDE DEF Scalar
<1>4. /\ v.kind \in NumberKinds \cup {"string"}
      /\ v.slice \in BOOLEAN
      /\ v = [kind |-> v.kind, slice |-> v.slice, elems |-> v.elems]
      /\ v.elems \in Seq(N) \cup Seq(Text)
      BY <1>1, <1>2, <1>3
<1>5. QED
      BY <1>4 DEF Text

\* A value that is written with its own shape, a scalar or a slice of any kind
\* and length, is read again as what it was, but for NULs behind a text: the
\* type the writer chooses is one the reader takes for the same Go type, and
\* both count the same elements (hdf5io.go:277-501, elementGoType).
THEOREM ValuesComeBack ==
  ASSUME NEW N, NEW T, NEW v \in Values(N, T), NEW shape, Writable(v), Fits(v, shape)
  PROVE  LET d == Encode(v, shape)
         IN /\ Readable(d)
            /\ Decode(d) = [value |-> Trimmed(v), shape |-> shape]
<1> DEFINE d == Encode(v, shape)
           kind == ElementGoType(d.type)
<1>1. /\ v.kind \in NumberKinds \cup {"string"}
      /\ v.slice \in BOOLEAN
      /\ v = [kind |-> v.kind, slice |-> v.slice, elems |-> v.elems]
      /\ v.elems \in Seq(N) \cup Seq([text : T, nuls : Nat])
      BY ValuesAreRecords DEF Writable
<1>2. /\ NumElements(shape) = Len(v.elems)
      /\ v.slice <=> shape # <<>>
      BY DEF Fits
<1>3. Len(v.elems) \in Nat /\ DOMAIN v.elems = 1 .. Len(v.elems)
      BY <1>1
<1>4. WrittenShape(v, shape) = shape
      BY <1>2 DEF WrittenShape
<1>5. /\ d.dims = shape
      /\ d.type = IF v.kind = "string" THEN TextType ELSE TypeOf[v.kind]
      /\ \A i \in 1 .. Len(v.elems) :
           d.elems[i] = IF v.kind = "string" THEN v.elems[i].text ELSE v.elems[i]
      BY <1>2, <1>3, <1>4 DEF Encode
<1>6. kind = v.kind /\ kind # "none"
  <2>1. CASE v.kind = "string"
        BY <1>5, <2>1 DEF ElementGoType, TextType
  <2>2. CASE v.kind \in NumberKinds
    <3>1. v.kind \notin {"string", "none"}
          BY <2>2 DEF NumberKinds, TypeOf
    <3>2. QED
          BY <1>5, <2>2, <3>1, KindsAreKnown
  <2>3. QED
        BY <1>1, <2>1, <2>2
<1> HIDE DEF d, kind
<1> DEFINE read == [i \in 1 .. NumElements(d.dims) |->
                      IF kind = "string" THEN [text |-> d.elems[i], nuls |-> 0]
                      ELSE d.elems[i]]
           trimmed == [i \in DOMAIN v.elems |->
                         IF v.kind = "string"
                         THEN [text |-> v.elems[i].text, nuls |-> 0]
                         ELSE v.elems[i]]
<1>7. Decode(d) = [value |-> [kind |-> kind, slice |-> d.dims # <<>>, elems |-> read],
                   shape |-> d.dims]
      BY DEF Decode, kind
<1>8. read = trimmed
      BY <1>2, <1>3, <1>5, <1>6
<1>9. (d.dims # <<>>) = v.slice
      BY <1>1, <1>2, <1>5
<1>10. Trimmed(v) = [kind |-> v.kind, slice |-> v.slice, elems |-> trimmed]
  <2> HIDE DEF trimmed
  <2>1. Trimmed(v) = [v EXCEPT !.elems = trimmed]
        BY DEF Trimmed, trimmed
  <2>2. QED
        BY <1>1, <2>1
<1>11. Readable(d)
       BY <1>6 DEF Readable, kind
<1> HIDE DEF read, trimmed
<1>12. QED
       BY <1>5, <1>6, <1>7, <1>8, <1>9, <1>10, <1>11 DEF d

-----------------------------------------------------------------------------
(* What a call writes.                                                     *)

\* The items that Save or Duplicate is to write, and what was in the file when
\* it was opened to write them.
Tree == IF source = None THEN Image ELSE loaded
Base == IF mode \in {"w", "w-", "x"} THEN {} ELSE before.holds

\* The items W, and nothing else, have been written.
Wrote(W) ==
  /\ W \subseteq Tree
  /\ \A r \in W : CanBeStored(r)
  /\ disk[target].holds = Base \cup {Stored(r) : r \in W}

\* What is still to be written has its place in the file, and is all of the tree
\* that has its place there.
Progress(W) ==
  /\ Wrote(W)
  /\ todo \in Seq(Tree)
  /\ \A r \in ToSet(todo) : HasPlace(r, W)
  /\ \A r \in Tree : HasPlace(r, W) => r \in W \cup ToSet(todo)

\* What any program left on the disk, and what was made of it, is a tree.
DiskSound ==
  \A f \in Files : /\ IsFiniteSet(disk[f].holds)
                   /\ IsTree(disk[f].holds)
                   /\ \A r \in disk[f].holds : r.kind = "field" => r.data.dims \in Seq(Nat)

IsItem(r) == r = [path |-> r.path, kind |-> r.kind, attrs |-> r.attrs, data |-> r.data]

LoadedSound ==
  /\ IsFiniteSet(loaded)
  /\ IsTree(loaded)
  /\ \A r \in loaded : IsItem(r)
  /\ \A r \in loaded : r.kind = "field" => r.data.shape \in Seq(Nat)

\* What is known of the call at work, and of the one that has just returned.
Working == result \in {"stamp", "write", "ok"}
Original == IF source = target THEN before.holds ELSE disk[source].holds

CallSound ==
  /\ mode # None <=> result \in {"stamp", "write", "ok", "error"}
  /\ target # None <=> result # "idle"
  /\ result \in {"idle", "loaded", "unreadable"} => source = None
  /\ ~before.exists => before.holds = {}
  /\ result = "loaded" => CanRead(target) /\ loaded = ReadFile(disk[target].holds)
  /\ result = "unreadable" => ~CanRead(target)
  /\ Working => mode # "r"
  /\ Working /\ source # None =>
       /\ source \in Files /\ mode = "w"
       /\ loaded = ReadFile(Original)
       /\ \A l \in loaded : CanBeStored(l) => ReadObject(Stored(l)) = l

WorkSound ==
  /\ result = "stamp" => disk[target].holds = Base
  /\ result = "write" => \E W \in SUBSET Tree : Progress(W)
  /\ result = "ok" /\ flushed => Wrote(Tree)
  /\ result \in {"stamp", "write"} /\ (mode = "w" \/ ~before.exists) => disk[target].legible
  /\ NothingInvented

TwinSound ==
  twin # None =>
    /\ twin \in Files /\ disk[twin].exists /\ disk[twin].legible
    /\ result \in {"stamp", "write"} => twin # target
    /\ disk[twin].holds = {Stored(r) : r \in Image}
    /\ \A r \in Image : CanBeStored(r)

-----------------------------------------------------------------------------
(* The items of the tree, and the entries of its groups.                   *)

\* What is not touched makes the same items.
LEMMA ImageSame ==
  ASSUME UNCHANGED <<treeVars, content>> PROVE Image' = Image
<1>1. children' = children /\ attrs' = attrs /\ name' = name /\ parent' = parent
      BY DEF treeVars
<1>2. Under' = Under
      BY <1>1 DEF Under, Kids
<1>3. InTree' = InTree
      BY <1>2 DEF InTree
<1>4. NXPath' = NXPath
      BY <1>1, <1>3 DEF NXPath
<1>5. \A p, o : Item(p, o)' = Item(p, o)
      BY <1>1 DEF Item
<1>6. QED
      BY <1>2, <1>4, <1>5 DEF Image

\* Nor does an attribute of the root change any.
LEMMA ImageWithoutRoot ==
  ASSUME TreeInv, SetAttr(Root, FileAttr), UNCHANGED content PROVE Image' = Image
<1>1. children' = children /\ name' = name /\ parent' = parent
      BY DEF SetAttr
<1>2. Under' = Under
      BY <1>1 DEF Under, Kids
<1>3. InTree' = InTree
      BY <1>2 DEF InTree
<1>4. NXPath' = NXPath
      BY <1>1, <1>3 DEF NXPath
<1>5. ASSUME NEW o \in Under[Root], NEW p PROVE Item(p, o)' = Item(p, o)
  <2>1. o # Root /\ o \in Objects
        BY RootIsNotBelow, PathTypes
  <2>2. attrs'[o] = attrs[o]
        BY <2>1 DEF SetAttr, TreeInv, IInv, TreeTyped
  <2>3. QED
        BY <2>2 DEF Item
<1>6. QED
      BY <1>2, <1>4, <1>5 DEF Image

LEMMA ItemParts ==
  ASSUME NEW path, NEW o \in Objects
  PROVE  LET r == Item(path, o)
         IN /\ r = [path |-> path, kind |-> r.kind, attrs |-> attrs[o].at, data |-> r.data]
            /\ IsGroup(r) <=> o \in GroupLike
            /\ r.kind = "field" <=> o \in Fields
            /\ r.kind # "plain"
            /\ r.kind = "field" => r.data = content[o]
            /\ r.kind # "field" => r.data = NoData
<1>1. CASE o \in GroupLike
      BY <1>1, NXFileIOAssumption, NXTreeAssumption DEF Item, IsGroup
<1>2. CASE o \in Fields
      BY <1>2, NXTreeAssumption DEF Item, IsGroup
<1>3. CASE o \notin GroupLike \cup Fields
      BY <1>3 DEF Item, IsGroup
<1>4. QED
      BY <1>1, <1>2, <1>3

\* An object of the tree is in a group of the tree.
LEMMA EachHasGroup ==
  ASSUME TreeInv, NEW o \in Under[Root]
  PROVE  \E h \in {Root} \cup (Under[Root] \cap GroupLike) : o \in Kids(h)
<1> DEFINE inside == {Root} \cup (Under[Root] \cap GroupLike)
           X == {k \in Under[Root] : \E h \in inside : k \in Kids(h)}
<1>1. Root \in GroupLike
      BY NXTreeAssumption DEF GroupLike
<1>2. \A h \in inside : Kids(h) \subseteq Under[Root]
      BY <1>1, UnderIsClosed DEF TreeInv, Closed
<1>3. Closed(X, Root)
      BY <1>2 DEF Closed
<1>4. QED
      BY <1>1, <1>3, Descent DEF TreeInv

LEMMA AppendToEmpty == ASSUME NEW n PROVE Append(<<>>, n) = <<n>>
OBVIOUS

\* Each item is at a path of its own, in the root or in the item of its group.
LEMMA ImageIsTree == ASSUME TreeInv PROVE IsTree(Image)
<1>1. ASSUME NEW r \in Image
      PROVE  r.path \in Seq(ChildNames) /\ HasPlace(r, Image)
  <2>1. PICK o \in Under[Root] : r = Item(NXPath[o], o)
        BY DEF Image
  <2>2. o \in Objects /\ NXPath[o] \in Seq(ChildNames) /\ r.path = NXPath[o]
        BY <2>1, PathTypes, ItemParts
  <2>3. PICK h \in {Root} \cup (Under[Root] \cap GroupLike) : o \in Kids(h)
        BY EachHasGroup
  <2>4. h \in GroupLike
        BY NXTreeAssumption DEF GroupLike
  <2>5. NXPath[o] = Append(NXPath[h], name[o]) /\ name[o] \in ChildNames
        BY <2>2, <2>3, PathOfKid DEF TreeInv, IInv, TreeTyped
  <2>6. CASE h = Root
        BY <2>2, <2>5, <2>6, PathOfRoot, AppendToEmpty DEF HasPlace
  <2>7. CASE h # Root
    <3>1. h \in Objects /\ Item(NXPath[h], h) \in Image
          BY <2>4, <2>7 DEF Image, Objects
    <3>2. IsGroup(Item(NXPath[h], h)) /\ Item(NXPath[h], h).path = NXPath[h]
          BY <2>4, <3>1, ItemParts
    <3>3. QED
          BY <2>2, <2>5, <3>1, <3>2 DEF HasPlace
  <2>8. QED
        BY <2>2, <2>6, <2>7
<1>2. ASSUME NEW q \in Image, NEW r \in Image, q.path = r.path PROVE q = r
  <2>1. PICK o \in Under[Root] : q = Item(NXPath[o], o)
        BY DEF Image
  <2>2. PICK p \in Under[Root] : r = Item(NXPath[p], p)
        BY DEF Image
  <2>3. q.path = NXPath[o] /\ r.path = NXPath[p]
        BY <2>1, <2>2, PathTypes, ItemParts
  <2>4. QED
        BY <1>2, <2>1, <2>2, <2>3, PathsDiffer
<1>3. QED
      BY <1>1, <1>2 DEF IsTree

\* The items directly below a path.
DirectlyBelow(path, items) == {r \in items : \E n \in ChildNames : r.path = Append(path, n)}

\* s lists the items of a set, perhaps more than once.
Lists(s, items) == s \in Seq(items) /\ ToSet(s) = items

\* The entries of a group of the tree are the items below it.
LEMMA EntriesOfTree ==
  ASSUME TreeInv, source = None,
         NEW path, path = <<>> \/ \E g \in Image : IsGroup(g) /\ path = g.path
  PROVE  Lists(Entries(path), DirectlyBelow(path, Image))
<1>1. PICK h \in {Root} \cup (Under[Root] \cap GroupLike) : path = NXPath[h] /\ Walk(Root, path) = h
  <2>1. CASE path = <<>>
        BY <2>1, PathOfRoot, RootIsFound
  <2>2. ASSUME NEW g \in Image, IsGroup(g), path = g.path
        PROVE  \E h \in Under[Root] \cap GroupLike : path = NXPath[h] /\ Walk(Root, path) = h
    <3>1. PICK o \in Under[Root] : g = Item(NXPath[o], o)
          BY DEF Image
    <3>2. g.path = NXPath[o] /\ o \in GroupLike
          BY <2>2, <3>1, PathTypes, ItemParts
    <3>3. QED
          BY <2>2, <3>1, <3>2, EachIsFound
  <2>3. QED
        BY <2>1, <2>2
<1>2. h \in GroupLike
      BY NXTreeAssumption DEF GroupLike
<1> DEFINE s == children[h].order
           kid(i) == children[h].at[s[i]]
           all == DirectlyBelow(path, Image)
<1>3. /\ s \in Seq(ChildNames)
      /\ Len(s) \in Nat /\ DOMAIN s = 1 .. Len(s)
      /\ \A i \in 1 .. Len(s) : kid(i) \in Kids(h)
      /\ \A o \in Kids(h) : \E i \in 1 .. Len(s) : o = kid(i)
      BY <1>2, ListedKids DEF TreeInv
<1>4. ASSUME NEW i \in 1 .. Len(s)
      PROVE  /\ s[i] \in ChildNames
             /\ kid(i) \in Under[Root] /\ NXPath[kid(i)] = Append(path, s[i])
  <2>1. kid(i) \in Under[Root] /\ NXPath[kid(i)] = Append(path, name[kid(i)])
        BY <1>1, <1>3, PathOfKid
  <2>2. s[i] \in ChildNames
        BY <1>3
  <2>3. s[i] \in Names(children[h])
        BY <1>2, <1>3 DEF TreeInv, IInv, TreeSound, Sound, InStep, ToSet
  <2>4. name[kid(i)] = s[i]
        BY <1>2, <2>3 DEF TreeInv, IInv, KnowsItsPlace
  <2>5. QED
        BY <2>1, <2>2, <2>4
<1> DEFINE e == [i \in 1 .. Len(s) |-> Item(Append(path, s[i]), kid(i))]
<1>5. Entries(path) = e
      BY <1>1, <1>3 DEF Entries
<1> HIDE DEF s
<1>6. ASSUME NEW i \in 1 .. Len(s) PROVE e[i] \in all
  <2>1. e[i] = Item(NXPath[kid(i)], kid(i)) /\ kid(i) \in Under[Root]
        BY <1>4
  <2>2. e[i] \in Image
        BY <2>1 DEF Image
  <2>3. e[i].path = Append(path, s[i])
        BY <1>4, <2>1, PathTypes, ItemParts
  <2>4. QED
        BY <1>4, <2>2, <2>3 DEF DirectlyBelow
<1>7. ASSUME NEW r \in all PROVE \E i \in 1 .. Len(s) : e[i] = r
  <2>1. PICK o \in Under[Root] : r = Item(NXPath[o], o)
        BY DEF Image, DirectlyBelow
  <2>2. PICK n \in ChildNames : NXPath[o] = Append(path, n)
        BY <2>1, PathTypes, ItemParts DEF DirectlyBelow
  <2>3. PICK k \in {Root} \cup (Under[Root] \cap GroupLike) : o \in Kids(k)
        BY EachHasGroup
  <2>4. NXPath[o] = Append(NXPath[k], name[o])
        BY <2>3, PathOfKid
  <2>5. NXPath[k] \in Seq(ChildNames) /\ path \in Seq(ChildNames)
        BY <1>1, PathTypes
  <2>6. NXPath[k] = path
    <3>1. name[o] \in ChildNames
          BY <2>1, PathTypes DEF TreeInv, IInv, TreeTyped
    <3>2. ASSUME NEW a \in Seq(ChildNames), NEW b \in Seq(ChildNames),
                 NEW m \in ChildNames, Append(a, n) = Append(b, m)
          PROVE  a = b
          BY <3>2
    <3>3. QED
          BY <2>2, <2>4, <2>5, <3>1, <3>2
  <2>7. k = h
        BY <1>1, <2>6, PathsDiffer
  <2>8. PICK i \in 1 .. Len(s) : o = kid(i)
        BY <1>3, <2>3, <2>7
  <2>9. e[i] = r
        BY <1>4, <2>1, <2>8
  <2>10. QED
         BY <2>9
<1> HIDE DEF all
<1>8. e \in Seq(all) /\ ToSet(e) = all
  <2>1. e \in [1 .. Len(s) -> all]
        BY <1>6
  <2>2. DOMAIN e = 1 .. Len(s)
        OBVIOUS
  <2> HIDE DEF e
  <2>3. QED
        BY <1>3, <1>6, <1>7, <2>1, <2>2 DEF ToSet
<1>9. QED
      BY <1>5, <1>8 DEF Lists, all

\* s goes through a finite set of numbers in their order.
Ascends(s, S) ==
  /\ s \in [1 .. Cardinality(S) -> S]
  /\ \A i, j \in DOMAIN s : i < j => s[i] < s[j]

LEMMA SomeAscent ==
  ASSUME NEW S \in SUBSET Nat, IsFiniteSet(S) PROVE \E s : Ascends(s, S)
<1> DEFINE N == Cardinality(S)
           X == {n \in 0 .. N : \A T \in SUBSET S : Cardinality(T) = n => \E s : Ascends(s, T)}
<1>1. N \in Nat
      BY FS_CardinalityType
<1>2. 0 \in X
  <2> SUFFICES ASSUME NEW T \in SUBSET S, Cardinality(T) = 0 PROVE Ascends(<<>>, T)
      BY <1>1
  <2>1. QED
        BY DEF Ascends
<1>3. ASSUME NEW n \in 0 .. N - 1, n \in X PROVE n + 1 \in X
  <2> SUFFICES ASSUME NEW T \in SUBSET S, Cardinality(T) = n + 1 PROVE \E s : Ascends(s, T)
      BY <1>1
  <2>0. IsFiniteSet(T)
        BY FS_Subset
  <2>1. T # {} /\ IsFiniteSet(T)
    <3>1. Cardinality(T) # 0
          BY <1>1
    <3>2. QED
          BY <2>0, <3>1, FS_EmptySet
  <2>2. PICK m \in T : \A k \in T : m <= k
        BY <2>1, LeastNat
  <2> DEFINE R == T \ {m}
  <2>3. Cardinality(R) = n /\ R \in SUBSET S
    <3>1. Cardinality(R) = Cardinality(T) - 1
          BY <2>1, FS_RemoveElement
    <3>2. QED
          BY <1>1, <3>1
  <2>4. PICK t : Ascends(t, R)
        BY <1>3, <2>3
  <2>5. t \in [1 .. n -> R] /\ \A i, j \in 1 .. n : i < j => t[i] < t[j]
        BY <2>3, <2>4 DEF Ascends
  <2> DEFINE s == [i \in 1 .. n + 1 |-> IF i = 1 THEN m ELSE t[i - 1]]
  <2>6. \A k \in R : k \in T /\ m < k /\ k \in Nat
        BY <2>2
  <2>7. \A i \in 1 .. n + 1 : i # 1 => i - 1 \in 1 .. n
        OBVIOUS
  <2>8. s \in [1 .. n + 1 -> T]
    <3>1. \A i \in 1 .. n + 1 : s[i] \in T
          BY <2>2, <2>5, <2>6, <2>7
    <3>2. QED
          BY <3>1
  <2>9. ASSUME NEW i \in 1 .. n + 1, NEW j \in 1 .. n + 1, i < j PROVE s[i] < s[j]
    <3>1. j # 1 /\ j - 1 \in 1 .. n /\ s[j] = t[j - 1]
          BY <2>7, <2>9
    <3>2. CASE i = 1
          BY <2>5, <2>6, <3>1, <3>2
    <3>3. CASE i # 1
      <4>1. i - 1 \in 1 .. n /\ s[i] = t[i - 1] /\ i - 1 < j - 1
            BY <2>7, <2>9, <3>3
      <4>2. QED
            BY <2>5, <3>1, <4>1
    <3>4. QED
          BY <3>2, <3>3
  <2>10. DOMAIN s = 1 .. n + 1
         OBVIOUS
  <2> HIDE DEF s
  <2>11. Ascends(s, T)
         BY <2>8, <2>9, <2>10 DEF Ascends
  <2>12. QED
         BY <2>11
<1>4. N \in X
  <2> HIDE DEF X
  <2>1. QED
        BY <1>1, <1>2, <1>3, NatInd
<1>5. QED
      BY <1>4

LEMMA AscentIsOnto ==
  ASSUME NEW S \in SUBSET Nat, IsFiniteSet(S), NEW s, Ascends(s, S)
  PROVE  \A k \in S : \E i \in 1 .. Cardinality(S) : s[i] = k
<1> DEFINE N == Cardinality(S)
<1>1. N \in Nat
      BY FS_CardinalityType
<1>2. s \in [1 .. N -> S] /\ \A i, j \in 1 .. N : i < j => s[i] < s[j]
      BY DEF Ascends
<1> HIDE DEF N
<1>3. ASSUME NEW i \in 1 .. N, NEW j \in 1 .. N, s[i] = s[j] PROVE i = j
  <2>1. s[i] \in Nat /\ s[j] \in Nat
        BY <1>2
  <2>2. QED
        BY <1>1, <1>2, <1>3, <2>1
<1>4. s \in Injection(1 .. N, S)
      BY <1>2, <1>3 DEF Injection, IsInjective
<1>5. Cardinality(1 .. N) = N
      BY <1>1, FS_Interval
<1>6. s \in Surjection(1 .. N, S)
      BY <1>4, <1>5, FS_Injection DEF N
<1>7. QED
      BY <1>6 DEF Surjection, N

LEMMA AppendsDiffer ==
  ASSUME NEW path \in Seq(ChildNames), NEW n \in ChildNames, NEW m \in ChildNames,
         Append(path, n) = Append(path, m)
  PROVE  n = m
OBVIOUS

LEMMA EntriesOfLoaded ==
  ASSUME source # None, LoadedSound, NEW path \in Seq(ChildNames)
  PROVE  Lists(Entries(path), DirectlyBelow(path, loaded))
<1> DEFINE all == DirectlyBelow(path, loaded)
           names == {n \in ChildNames : \E r \in loaded : r.path = Append(path, n)}
           nameOf == [r \in all |-> CHOOSE n \in ChildNames : r.path = Append(path, n)]
           N == Cardinality(names)
           sorted == CHOOSE s \in [1 .. N -> names] : \A i, j \in DOMAIN s : i < j => s[i] < s[j]
           e == [i \in DOMAIN sorted |-> CHOOSE r \in loaded : r.path = Append(path, sorted[i])]
<1>1. Entries(path) = e
      BY Zenon DEF Entries
<1>2. IsFiniteSet(names)
  <2>1. IsFiniteSet(all)
        BY FS_Subset DEF LoadedSound, DirectlyBelow
  <2>2. \A r \in all : nameOf[r] \in ChildNames /\ r.path = Append(path, nameOf[r])
        BY DEF DirectlyBelow
  <2>3. \A r \in all : nameOf[r] \in names
        BY <2>2 DEF DirectlyBelow
  <2>4. \A n \in names : \E r \in all : nameOf[r] = n
    <3> SUFFICES ASSUME NEW n \in names PROVE \E r \in all : nameOf[r] = n
        OBVIOUS
    <3>1. PICK r \in loaded : r.path = Append(path, n)
          OBVIOUS
    <3>2. r \in all
          BY <3>1 DEF DirectlyBelow
    <3>3. nameOf[r] = n
          BY <2>2, <3>1, <3>2, AppendsDiffer
    <3>4. QED
          BY <3>2, <3>3
  <2>5. nameOf \in [all -> names]
        BY <2>3
  <2> HIDE DEF nameOf, names, all
  <2>6. nameOf \in Surjection(all, names)
        BY <2>4, <2>5 DEF Surjection
  <2>7. QED
        BY <2>1, <2>6, FS_Surjection
<1>3. names \in SUBSET Nat
      BY NXFileIOAssumption
<1>4. Ascends(sorted, names)
  <2>1. PICK s : Ascends(s, names)
        BY <1>2, <1>3, SomeAscent
  <2>2. s \in [1 .. N -> names] /\ \A i, j \in DOMAIN s : i < j => s[i] < s[j]
        BY <2>1 DEF Ascends
  <2>3. sorted \in [1 .. N -> names] /\ \A i, j \in DOMAIN sorted : i < j => sorted[i] < sorted[j]
        BY <2>2
  <2>4. QED
        BY <2>3 DEF Ascends
<1>5. N \in Nat /\ sorted \in [1 .. N -> names] /\ DOMAIN sorted = 1 .. N
      BY <1>2, <1>4, FS_CardinalityType DEF Ascends
<1>6. \A n \in names : \E i \in 1 .. N : sorted[i] = n
  <2> HIDE DEF sorted, names
  <2>1. QED
        BY <1>2, <1>3, <1>4, AscentIsOnto
<1> HIDE DEF sorted, N
<1>7. ASSUME NEW i \in 1 .. N
      PROVE  e[i] \in loaded /\ e[i].path = Append(path, sorted[i]) /\ sorted[i] \in ChildNames
  <2>1. sorted[i] \in names
        BY <1>5
  <2>2. QED
        BY <1>5, <2>1
<1>8. \A i \in 1 .. N : e[i] \in all
      BY <1>7 DEF DirectlyBelow
<1>9. ASSUME NEW r \in all PROVE \E i \in 1 .. N : e[i] = r
  <2>1. PICK n \in ChildNames : r \in loaded /\ r.path = Append(path, n)
        BY DEF DirectlyBelow
  <2>2. PICK i \in 1 .. N : sorted[i] = n
        BY <1>6, <2>1
  <2>3. e[i] = r
        BY <1>7, <2>1, <2>2 DEF LoadedSound, IsTree
  <2>4. QED
        BY <2>3
<1>10. DOMAIN e = 1 .. N /\ e \in [1 .. N -> all]
       BY <1>5, <1>8
<1> HIDE DEF e, all
<1>11. e \in Seq(all) /\ ToSet(e) = all
  <2>1. e \in Seq(all)
        BY <1>5, <1>10
  <2>2. ToSet(e) = {e[i] : i \in 1 .. N}
        BY <1>10 DEF ToSet
  <2>3. QED
        BY <1>8, <1>9, <2>1, <2>2
<1>12. QED
       BY <1>1, <1>11 DEF Lists, all

LEMMA TreeIsTree ==
  ASSUME TreeInv, LoadedSound PROVE IsTree(Tree)
BY ImageIsTree DEF LoadedSound, Tree

\* Entries() lists the items below the root or below a group of the tree.
LEMMA EntriesAreDirect ==
  ASSUME TreeInv, LoadedSound, NEW path, path = <<>> \/ \E g \in Tree : IsGroup(g) /\ path = g.path
  PROVE  Lists(Entries(path), DirectlyBelow(path, Tree))
<1>1. \A g \in Tree : g.path \in Seq(ChildNames)
      BY TreeIsTree DEF IsTree
<1>2. <<>> \in Seq(ChildNames)
      OBVIOUS
<1>3. path \in Seq(ChildNames)
      BY <1>1, <1>2
<1>4. QED
      BY <1>3, EntriesOfTree, EntriesOfLoaded DEF Tree

\* Who has written everything that has its place has written everything.
LEMMA AllHavePlaces ==
  ASSUME NEW T, IsTree(T), NEW W \in SUBSET T, \A r \in T : HasPlace(r, W) => r \in W
  PROVE  W = T
<1> DEFINE lengths == {Len(r.path) : r \in T \ W}
<1> SUFFICES ASSUME T \ W # {} PROVE FALSE
    OBVIOUS
<1>1. \A r \in T : r.path \in Seq(ChildNames) /\ Len(r.path) \in Nat /\ HasPlace(r, T)
      BY DEF IsTree
<1>2. lengths \in SUBSET Nat /\ lengths # {}
      BY <1>1
<1>3. PICK l \in lengths : \A k \in lengths : l <= k
      BY <1>2, LeastNat
<1>4. PICK r \in T \ W : \A q \in T \ W : Len(r.path) <= Len(q.path)
  <2>1. PICK r \in T \ W : l = Len(r.path)
        OBVIOUS
  <2>2. \A q \in T \ W : l <= Len(q.path)
        BY <1>3
  <2>3. QED
        BY <2>1, <2>2
<1>5. ~HasPlace(r, W)
      BY <1>4
<1>6. PICK n \in ChildNames, g \in T : IsGroup(g) /\ r.path = Append(g.path, n) /\ g \notin W
      BY <1>1, <1>5 DEF HasPlace
<1>7. Len(g.path) < Len(r.path)
      BY <1>1, <1>6
<1>8. QED
      BY <1>1, <1>4, <1>6, <1>7

-----------------------------------------------------------------------------
(* Reading what was written.                                               *)

LEMMA ElementsCounted ==
  ASSUME NEW shape \in Seq(Nat) PROVE NumElements(shape) \in Nat
<1> DEFINE N == Len(shape)
           F == [p \in (1 .. N) \X Nat |-> p[2] * shape[p[1]]]
           upto[i \in 0 .. N] == IF i = 0 THEN 1 ELSE upto[i - 1] * shape[i]
<1>1. N \in Nat /\ \A i \in 1 .. N : shape[i] \in Nat
      OBVIOUS
<1>2. NumElements(shape) = upto[N]
      BY Zenon DEF NumElements
<1>3. IsRule(F, N, Nat) /\ \A i \in 1 .. N, n \in Nat : F[<<i, n>>] = n * shape[i]
  <2>1. \A i \in 1 .. N, n \in Nat : n * shape[i] \in Nat
        BY <1>1
  <2>2. QED
        BY <2>1 DEF IsRule
<1> HIDE DEF F, N
<1>4. PICK f : Solves(f, N, Nat, 1, F)
      BY <1>1, <1>3, RecursionExists
<1> USE DEF Solves
<1>5. \A i \in 0 .. N : f[i] = IF i = 0 THEN 1 ELSE f[i - 1] * shape[i]
  <2> SUFFICES ASSUME NEW i \in 1 .. N PROVE f[i] = f[i - 1] * shape[i]
      BY <1>1, <1>4
  <2>1. f[i - 1] \in Nat
        BY <1>1, <1>4
  <2>2. QED
        BY <1>3, <1>4, <2>1
<1>6. f = [i \in 0 .. N |-> IF i = 0 THEN 1 ELSE f[i - 1] * shape[i]]
  <2>1. f = [i \in 0 .. N |-> f[i]]
        BY <1>4
  <2>2. QED
        BY <1>5, <2>1, Zenon
<1>7. upto = [i \in 0 .. N |-> IF i = 0 THEN 1 ELSE upto[i - 1] * shape[i]]
      BY <1>6
<1> HIDE DEF upto
<1> DEFINE S == {i \in 0 .. N : upto[i] \in Nat}
<1>8. 0 \in S
      BY <1>1, <1>7
<1>9. ASSUME NEW i \in 0 .. N - 1, i \in S PROVE i + 1 \in S
  <2>1. i + 1 \in 1 .. N /\ (i + 1) - 1 = i /\ shape[i + 1] \in Nat
        BY <1>1
  <2>2. upto[i + 1] = upto[i] * shape[i + 1]
        BY <1>1, <1>7, <2>1
  <2>3. QED
        BY <1>1, <1>9, <2>1, <2>2
<1>10. 0 .. N \subseteq S
  <2> HIDE DEF S
  <2>1. QED
        BY <1>1, <1>8, <1>9, NatInd
<1>11. QED
       BY <1>1, <1>2, <1>10

LEMMA NoDimensions == NumElements(<<>>) = 1
<1> DEFINE upto[i \in 0 .. 0] == IF i = 0 THEN 1 ELSE upto[i - 1] * <<>>[i]
           f == [i \in 0 .. 0 |-> 1]
<1>1. NumElements(<<>>) = upto[0]
  <2>1. Len(<<>>) = 0
        OBVIOUS
  <2>2. QED
        BY <2>1, Zenon DEF NumElements
<1>2. f = [i \in 0 .. 0 |-> IF i = 0 THEN 1 ELSE f[i - 1] * <<>>[i]]
      OBVIOUS
<1>3. upto = [i \in 0 .. 0 |-> IF i = 0 THEN 1 ELSE upto[i - 1] * <<>>[i]]
      BY <1>2
<1> HIDE DEF upto
<1>4. QED
      BY <1>1, <1>3

LEMMA TypesAreKnown ==
  ASSUME NEW t, ElementGoType(t) # "none"
  PROVE  ElementGoType(t) \in NumberKinds \cup {"string"}
<1> DEFINE numbers == {"int8", "uint8", "int16", "uint16", "int32", "uint32", "int64",
                       "uint64", "float32", "float64"}
<1>1. NumberKinds = numbers
      BY DEF NumberKinds, TypeOf
<1>2. \A i \in 1 .. 8 : /\ Signed[i] \in numbers \cup {"none"}
                        /\ Unsigned[i] \in numbers \cup {"none"}
  <2> SUFFICES ASSUME NEW i \in 1 .. 8
               PROVE  /\ Signed[i] \in numbers \cup {"none"}
                      /\ Unsigned[i] \in numbers \cup {"none"}
      OBVIOUS
  <2>1. \/ i = 1 \/ i = 2 \/ i = 3 \/ i = 4 \/ i = 5 \/ i = 6 \/ i = 7 \/ i = 8
        OBVIOUS
  <2>2. QED
        BY <2>1 DEF Signed, Unsigned
<1> HIDE DEF numbers
<1>3. {"string", "float32", "float64"} \subseteq numbers \cup {"string"}
      BY DEF numbers
<1>4. QED
      BY <1>1, <1>2, <1>3 DEF ElementGoType

\* What is read of a dataset fits its shape and has no NULs behind texts.
LEMMA WhatIsReadFits ==
  ASSUME NEW d, Readable(d), d.dims \in Seq(Nat)
  PROVE  LET v == Decode(d).value
         IN /\ Decode(d) = [value |-> v, shape |-> d.dims]
            /\ \E N, T : v \in Values(N, T)
            /\ Fits(v, d.dims)
            /\ Trimmed(v) = v
<1> DEFINE kind == ElementGoType(d.type)
           n == NumElements(d.dims)
           elem(i) == IF kind = "string" THEN [text |-> d.elems[i], nuls |-> 0] ELSE d.elems[i]
           elems == [i \in 1 .. n |-> elem(i)]
           slice == d.dims # <<>>
           v == [kind |-> kind, slice |-> slice, elems |-> elems]
           N == {d.elems[i] : i \in 1 .. n}
           Text == [text : N, nuls : Nat]
<1>1. Decode(d) = [value |-> v, shape |-> d.dims]
      BY DEF Decode
<1>2. kind \in NumberKinds \cup {"string"} /\ kind # "none"
      BY TypesAreKnown DEF Readable
<1> HIDE DEF kind
<1>3. n \in Nat /\ (slice = FALSE => n = 1)
      BY ElementsCounted, NoDimensions
<1> HIDE DEF n, slice
<1>4. slice \in BOOLEAN
      BY DEF slice
<1>5. /\ kind = "string" => \A i \in 1 .. n : elem(i) \in Text
      /\ kind # "string" => \A i \in 1 .. n : elem(i) \in N
      OBVIOUS
<1> HIDE DEF N, Text, elem
<1>6. /\ Len(elems) = n /\ DOMAIN elems = 1 .. n
      /\ kind = "string" => elems \in Seq(Text)
      /\ kind # "string" => elems \in Seq(N)
      BY <1>3, <1>5
<1>7. \A i \in 1 .. n : elems[i] = elem(i)
      OBVIOUS
<1> HIDE DEF elems
<1>8. v \in Values(N, N)
  <2> DEFINE Scalar(E) == {e \in Seq(E) : Len(e) = 1}
             plain == [kind : NumberKinds, slice : {FALSE}, elems : Scalar(N)] \cup
                      [kind : NumberKinds, slice : {TRUE}, elems : Seq(N)]
             texts == [kind : {"string"}, slice : {FALSE}, elems : Scalar(Text)] \cup
                      [kind : {"string"}, slice : {TRUE}, elems : Seq(Text)]
  <2>1. Values(N, N) = {Nil} \cup plain \cup texts
        BY Zenon DEF Values, Text
  <2>2. /\ slice = FALSE /\ kind = "string" => elems \in Scalar(Text)
        /\ slice = FALSE /\ kind # "string" => elems \in Scalar(N)
        BY <1>3, <1>6
  <2> HIDE DEF Scalar
  <2>3. CASE kind = "string"
        BY <1>4, <1>6, <2>1, <2>2, <2>3
  <2>4. CASE kind # "string"
        BY <1>2, <1>4, <1>6, <2>1, <2>2, <2>4
  <2>5. QED
        BY <2>3, <2>4
<1>9. Fits(v, d.dims)
      BY <1>4, <1>6 DEF Fits, slice, n
<1>10. Trimmed(v) = v
  <2> DEFINE trimmed == [i \in DOMAIN elems |->
                           IF kind = "string" THEN [text |-> elems[i].text, nuls |-> 0]
                           ELSE elems[i]]
  <2>1. \A i \in 1 .. n : kind = "string" => [text |-> elem(i).text, nuls |-> 0] = elem(i)
        BY DEF elem
  <2>2. elems = [i \in 1 .. n |-> elem(i)]
        BY DEF elems
  <2>3. trimmed = elems
        BY <1>6, <1>7, <2>1, <2>2
  <2>4. Trimmed(v) = [v EXCEPT !.elems = trimmed]
        BY DEF Trimmed
  <2> HIDE DEF trimmed
  <2>5. QED
        BY <2>3, <2>4
<1>11. Decode(d).value = v
       BY <1>1
<1> HIDE DEF v
<1>12. QED
       BY <1>1, <1>8, <1>9, <1>10, <1>11

\* What can be read of an object of a file.
CanBeRead(d) == d.kind = "field" => Readable(d.data) /\ d.data.dims \in Seq(Nat)

LEMMA ReadTypeTwice == ASSUME NEW t PROVE ReadType(ReadType(t)) = ReadType(t)
BY DEF ReadType

\* An object that was read and is written, is read as what it was.
LEMMA ReadTwice ==
  ASSUME NEW d, CanBeRead(d), CanBeStored(ReadObject(d))
  PROVE  ReadObject(Stored(ReadObject(d))) = ReadObject(d)
<1> DEFINE l == ReadObject(d)
           as == ReadAttrs(d)
           data == IF d.kind = "field" THEN Decode(d.data) ELSE NoData
<1>1. l = [path |-> d.path, kind |-> ReadKind(d), attrs |-> as, data |-> data]
      BY DEF ReadObject
<1>2. l.kind # "link"
      BY DEF CanBeStored, CanBeMade
<1>3. d.kind # "link" /\ l.kind # "plain"
      BY <1>1, <1>2 DEF ReadKind
<1>4. (l.kind = "field") <=> (d.kind = "field")
      BY <1>1 DEF ReadKind
<1>5. \A e : e.kind = l.kind /\ e.attrs = as => ReadAttrs(e) = as
  <2> SUFFICES ASSUME NEW e, e.kind = l.kind, e.attrs = as PROVE ReadAttrs(e) = as
      OBVIOUS
  <2>1. as = [a \in DOMAIN d.attrs \cap WellKnown |-> ReadType(d.attrs[a])]
        BY <1>3 DEF ReadAttrs
  <2>2. ReadAttrs(e) = [a \in DOMAIN as \cap WellKnown |-> ReadType(as[a])]
        BY <1>2 DEF ReadAttrs
  <2>3. DOMAIN as \cap WellKnown = DOMAIN d.attrs \cap WellKnown
        BY <2>1
  <2>4. \A a \in DOMAIN d.attrs \cap WellKnown : ReadType(as[a]) = ReadType(d.attrs[a])
        BY <2>1, ReadTypeTwice
  <2> HIDE DEF as
  <2>5. QED
        BY <2>1, <2>2, <2>3, <2>4
<1>6. \A e : e.kind = l.kind => ReadKind(e) = l.kind
      BY <1>3 DEF ReadKind
<1>0. l = [path |-> l.path, kind |-> l.kind, attrs |-> as, data |-> data]
      BY <1>1
<1> HIDE DEF l, as
<1>7. CASE d.kind = "field"
  <2>1. /\ Readable(d.data) /\ d.data.dims \in Seq(Nat)
        /\ data = Decode(d.data)
        BY <1>7 DEF CanBeRead
  <2> DEFINE v == Decode(d.data).value
             shape == d.data.dims
             e == [l EXCEPT !.data = Encode(v, shape)]
  <2>2. data = [value |-> v, shape |-> shape] /\ Fits(v, shape) /\ Trimmed(v) = v
        BY <2>1, WhatIsReadFits
  <2>3. PICK N, T : v \in Values(N, T)
        BY <2>1, WhatIsReadFits
  <2>4. Stored(l) = e
    <3>1. l.data.value = v /\ l.data.shape = shape
          BY <1>1, <2>2
    <3> HIDE DEF v, shape
    <3>2. QED
          BY <1>4, <1>7, <3>1 DEF Stored
  <2>5. Writable(v)
    <3>1. CanBeStored(l)
          BY DEF l
    <3>2. l.data.value = v
          BY <1>1, <2>2
    <3> HIDE DEF v
    <3>3. QED
          BY <1>4, <1>7, <3>1, <3>2 DEF CanBeStored, CanBeMade
  <2>6. Decode(Encode(v, shape)) = [value |-> v, shape |-> shape]
        BY <2>2, <2>3, <2>5, ValuesComeBack
  <2> HIDE DEF v, shape
  <2>7. e.path = l.path /\ e.kind = l.kind /\ e.attrs = as /\ e.data = Encode(v, shape)
        BY <1>1
  <2> HIDE DEF e
  <2>8. ReadObject(e) = [path |-> l.path, kind |-> l.kind, attrs |-> as, data |-> data]
        BY <1>4, <1>5, <1>6, <1>7, <2>2, <2>6, <2>7 DEF ReadObject
  <2>9. ReadObject(Stored(l)) = l
        BY <1>0, <2>4, <2>8
  <2>10. QED
         BY <2>9 DEF l
<1>8. CASE d.kind # "field"
  <2>1. Stored(l) = l
        BY <1>4, <1>8 DEF Stored
  <2>2. ReadObject(l) = [path |-> l.path, kind |-> l.kind, attrs |-> as, data |-> data]
    <3>1. ReadKind(l) = l.kind /\ ReadAttrs(l) = as
          BY <1>1, <1>5, <1>6
    <3>2. l.kind # "field" /\ data = NoData
          BY <1>4, <1>8
    <3> HIDE DEF data
    <3>3. QED
          BY <3>1, <3>2 DEF ReadObject
  <2>3. QED
        BY <1>1, <2>1, <2>2 DEF l
<1>9. QED
      BY <1>7, <1>8

LEMMA StoredParts ==
  ASSUME NEW r, NEW path, NEW kind, NEW as, NEW data,
         r = [path |-> path, kind |-> kind, attrs |-> as, data |-> data]
  PROVE  /\ Stored(r).path = path /\ Stored(r).kind = kind /\ Stored(r).attrs = as
         /\ r.kind = "field" => Stored(r).data = Encode(data.value, data.shape)
         /\ r.kind # "field" => Stored(r) = r
BY DEF Stored

\* A tree is read of a tree.
LEMMA ReadIsTree ==
  ASSUME NEW objects, IsFiniteSet(objects), IsTree(objects)
  PROVE  IsFiniteSet(ReadFile(objects)) /\ IsTree(ReadFile(objects))
<1> DEFINE read == [r \in objects |-> ReadObject(r)]
           T == ReadFile(objects)
<1>1. \A r \in objects : /\ ReadObject(r).path = r.path
                         /\ IsGroup(r) => IsGroup(ReadObject(r))
      BY DEF ReadObject, ReadKind, IsGroup
<1>2. IsFiniteSet(T)
  <2>1. read \in Surjection(objects, T)
        BY DEF Surjection, ReadFile
  <2> HIDE DEF read
  <2>2. QED
        BY <2>1, FS_Surjection
<1>3. ASSUME NEW l \in T PROVE l.path \in Seq(ChildNames) /\ HasPlace(l, T)
  <2>1. PICK r \in objects : l = ReadObject(r)
        BY DEF ReadFile
  <2>2. l.path = r.path /\ r.path \in Seq(ChildNames) /\ HasPlace(r, objects)
        BY <1>1, <2>1 DEF IsTree
  <2>3. PICK n \in ChildNames :
               \/ r.path = <<n>>
               \/ \E g \in objects : IsGroup(g) /\ r.path = Append(g.path, n)
        BY <2>2 DEF HasPlace
  <2>4. ASSUME NEW g \in objects, IsGroup(g), r.path = Append(g.path, n)
        PROVE  \E k \in T : IsGroup(k) /\ r.path = Append(k.path, n)
    <3>1. ReadObject(g) \in T /\ IsGroup(ReadObject(g)) /\ ReadObject(g).path = g.path
          BY <1>1, <2>4 DEF ReadFile
    <3>2. QED
          BY <2>4, <3>1
  <2>5. QED
        BY <2>2, <2>3, <2>4 DEF HasPlace
<1>4. ASSUME NEW l \in T, NEW k \in T, l.path = k.path PROVE l = k
  <2>1. PICK r \in objects : l = ReadObject(r)
        BY DEF ReadFile
  <2>2. PICK q \in objects : k = ReadObject(q)
        BY DEF ReadFile
  <2>3. r = q
        BY <1>1, <1>4, <2>1, <2>2 DEF IsTree
  <2>4. QED
        BY <2>1, <2>2, <2>3
<1>5. QED
      BY <1>2, <1>3, <1>4 DEF IsTree

\* What Load and Duplicate make of a file they can read.
LEMMA LoadingIsSound ==
  ASSUME DiskSound, NEW f \in Files, CanRead(f), NEW l \in ReadFile(disk[f].holds)
  PROVE  /\ IsItem(l)
         /\ l.kind = "field" => l.data.shape \in Seq(Nat)
         /\ CanBeStored(l) => ReadObject(Stored(l)) = l
<1>1. PICK d \in disk[f].holds : l = ReadObject(d)
      BY DEF ReadFile
<1>0. IsItem(l)
      BY <1>1 DEF IsItem, ReadObject
<1>2. CanBeRead(d)
      BY DEF CanBeRead, CanRead, DiskSound
<1>3. l.kind = "field" => d.kind = "field"
      BY <1>1 DEF ReadObject, ReadKind
<1>4. d.kind = "field" => l.data.shape = d.data.dims
      BY <1>1, <1>2, WhatIsReadFits DEF ReadObject, CanBeRead
<1>5. QED
      BY <1>0, <1>1, <1>2, <1>3, <1>4, ReadTwice DEF CanBeRead

-----------------------------------------------------------------------------
(* Writing one object after another.                                       *)

LEMMA FirstAndRest ==
  ASSUME NEW T, NEW s \in Seq(T), s # <<>>
  PROVE  Head(s) \in T /\ Tail(s) \in Seq(T) /\ ToSet(s) = {Head(s)} \cup ToSet(Tail(s))
<1>1. /\ Len(s) \in Nat /\ Len(s) > 0 /\ DOMAIN s = 1 .. Len(s)
      /\ Head(s) = s[1] /\ Head(s) \in T
      /\ Tail(s) \in Seq(T) /\ Len(Tail(s)) = Len(s) - 1
      /\ DOMAIN Tail(s) = 1 .. Len(s) - 1
      /\ \A i \in 1 .. Len(s) - 1 : Tail(s)[i] = s[i + 1]
      OBVIOUS
<1> DEFINE t == Tail(s)
<1> HIDE DEF t
<1>2. ASSUME NEW i \in DOMAIN s PROVE s[i] = Head(s) \/ \E j \in DOMAIN t : s[i] = t[j]
  <2>1. CASE i = 1
        BY <1>1, <2>1
  <2>2. CASE i # 1
    <3>1. i - 1 \in DOMAIN t /\ t[i - 1] = s[i]
          BY <1>1, <2>2 DEF t
    <3>2. QED
          BY <3>1
  <2>3. QED
        BY <2>1, <2>2
<1>3. ASSUME NEW j \in DOMAIN t PROVE \E i \in DOMAIN s : s[i] = t[j]
  <2>1. j + 1 \in DOMAIN s /\ t[j] = s[j + 1]
        BY <1>1 DEF t
  <2>2. QED
        BY <2>1
<1>4. \E i \in DOMAIN s : s[i] = Head(s)
      BY <1>1
<1>5. ToSet(s) = {Head(s)} \cup ToSet(t)
      BY <1>2, <1>3, <1>4 DEF ToSet
<1>6. QED
      BY <1>1, <1>5 DEF t

LEMMA OneAfterTheOther ==
  ASSUME NEW T, NEW s \in Seq(T), NEW t \in Seq(T)
  PROVE  s \o t \in Seq(T) /\ ToSet(s \o t) = ToSet(s) \cup ToSet(t)
<1> DEFINE c == s \o t
<1>1. /\ c \in Seq(T)
      /\ Len(c) = Len(s) + Len(t)
      /\ \A i \in 1 .. Len(s) + Len(t) : c[i] = IF i <= Len(s) THEN s[i] ELSE t[i - Len(s)]
      BY ConcatProperties
<1>2. /\ Len(s) \in Nat /\ Len(t) \in Nat
      /\ DOMAIN s = 1 .. Len(s) /\ DOMAIN t = 1 .. Len(t)
      OBVIOUS
<1> HIDE DEF c
<1>3. DOMAIN c = 1 .. Len(s) + Len(t)
      BY <1>1, <1>2
<1>4. ASSUME NEW i \in DOMAIN c PROVE c[i] \in ToSet(s) \cup ToSet(t)
  <2>1. CASE i <= Len(s)
    <3>1. i \in DOMAIN s /\ c[i] = s[i]
          BY <1>1, <1>2, <1>3, <2>1
    <3>2. QED
          BY <3>1 DEF ToSet
  <2>2. CASE ~(i <= Len(s))
    <3>1. i - Len(s) \in DOMAIN t /\ c[i] = t[i - Len(s)]
          BY <1>1, <1>2, <1>3, <2>2
    <3>2. QED
          BY <3>1 DEF ToSet
  <2>3. QED
        BY <2>1, <2>2
<1>5. ASSUME NEW i \in DOMAIN s PROVE s[i] \in ToSet(c)
  <2>1. i \in DOMAIN c /\ c[i] = s[i]
        BY <1>1, <1>2, <1>3
  <2>2. QED
        BY <2>1 DEF ToSet
<1>6. ASSUME NEW i \in DOMAIN t PROVE t[i] \in ToSet(c)
  <2>1. i + Len(s) \in DOMAIN c /\ c[i + Len(s)] = t[i]
        BY <1>1, <1>2, <1>3
  <2>2. QED
        BY <2>1 DEF ToSet
<1>7. ToSet(c) = ToSet(s) \cup ToSet(t)
      BY <1>4, <1>5, <1>6 DEF ToSet
<1>8. QED
      BY <1>1, <1>7 DEF c

\* The items of the tree that is written, and the shapes of its fields.
LEMMA TreeItems ==
  ASSUME FileInv, TreeInv, LoadedSound, NEW r \in Tree
  PROVE  IsItem(r) /\ (r.kind = "field" => r.data.shape \in Seq(Nat))
<1>1. CASE source = None
  <2>1. PICK o \in Under[Root] : r = Item(NXPath[o], o)
        BY <1>1 DEF Tree, Image
  <2>2. o \in Objects
        BY PathTypes
  <2>3. IsItem(r)
    <3>1. r = [path |-> NXPath[o], kind |-> r.kind, attrs |-> attrs[o].at, data |-> r.data]
          BY <2>1, <2>2, ItemParts
    <3>2. QED
          BY <3>1 DEF IsItem
  <2>4. ASSUME r.kind = "field" PROVE r.data.shape \in Seq(Nat)
    <3>1. o \in Fields /\ r.data = content[o]
          BY <2>1, <2>2, <2>4, ItemParts
    <3>2. content[o] \in Contents \cup {[value |-> Nil, shape |-> <<>>]}
          BY <3>1 DEF FileInv, TypeOK
    <3>3. \A c \in Contents : c.shape \in Seq(Nat)
          BY NXFileIOAssumption
    <3>4. CASE content[o] \in Contents
          BY <3>1, <3>3, <3>4
    <3>5. CASE content[o] = [value |-> Nil, shape |-> <<>>]
      <4> DEFINE shape == <<>>
      <4>1. shape \in Seq(Nat)
            OBVIOUS
      <4> HIDE DEF shape
      <4>2. content[o].shape = shape
            BY <3>5 DEF shape
      <4>3. QED
            BY <3>1, <4>1, <4>2
    <3>6. QED
          BY <3>2, <3>4, <3>5
  <2>5. QED
        BY <2>3, <2>4
<1>2. CASE source # None
      BY <1>2 DEF Tree, LoadedSound
<1>3. QED
      BY <1>1, <1>2

LEMMA StoredItem ==
  ASSUME NEW r, IsItem(r)
  PROVE  /\ Stored(r).path = r.path /\ Stored(r).kind = r.kind /\ Stored(r).attrs = r.attrs
         /\ r.kind = "field" => Stored(r).data = Encode(r.data.value, r.data.shape)
         /\ IsGroup(Stored(r)) <=> IsGroup(r)
         /\ r.kind = "field" /\ r.data.shape \in Seq(Nat) => Stored(r).data.dims \in Seq(Nat)
<1>1. /\ Stored(r).path = r.path /\ Stored(r).kind = r.kind /\ Stored(r).attrs = r.attrs
      /\ r.kind = "field" => Stored(r).data = Encode(r.data.value, r.data.shape)
      BY StoredParts DEF IsItem
<1>2. \A v, shape : shape \in Seq(Nat) => Encode(v, shape).dims \in Seq(Nat)
      BY DEF Encode, WrittenShape
<1>3. QED
      BY <1>1, <1>2 DEF IsGroup

\* A file with one more object, in a group that it has.
LEMMA OneMoreObject ==
  ASSUME NEW objects, IsTree(objects), NEW r,
         r.path \in Seq(ChildNames), HasPlace(r, objects),
         \A q \in objects : q.path # r.path
  PROVE  IsTree(objects \cup {r})
<1> DEFINE more == objects \cup {r}
<1>1. \A q : HasPlace(q, objects) => HasPlace(q, more)
      BY DEF HasPlace
<1>2. \A q \in more : q.path \in Seq(ChildNames) /\ HasPlace(q, more)
      BY <1>1 DEF IsTree
<1>3. \A p, q \in more : p.path = q.path => p = q
      BY DEF IsTree
<1>4. QED
      BY <1>2, <1>3 DEF IsTree

LEMMA TreeSame ==
  ASSUME Image' = Image, UNCHANGED call PROVE Tree' = Tree /\ Base' = Base
BY DEF Tree, Base, call

\* What is written of an item is the same in every state.
LEMMA Rigid ==
  /\ \A r : CanBeMade(r)' <=> CanBeMade(r)
  /\ \A r : CanBeStored(r)' <=> CanBeStored(r)
  /\ \A r : Stored(r)' = Stored(r)
  /\ \A r : Fragments(r)' = Fragments(r)
  /\ \A r, V : HasPlace(r, V)' <=> HasPlace(r, V)
<1>1. \A r : CanBeMade(r)' <=> CanBeMade(r)
      BY DEF CanBeMade
<1>2. \A r : CanBeStored(r)' <=> CanBeStored(r)
      BY DEF CanBeStored
<1>3. \A r : Stored(r)' = Stored(r)
      BY DEF Stored
<1>4. \A r : Fragments(r)' = Fragments(r)
      BY DEF Fragments
<1>5. \A r, V : HasPlace(r, V)' <=> HasPlace(r, V)
      BY DEF HasPlace, IsGroup
<1>6. QED
      BY <1>1, <1>2, <1>3, <1>4, <1>5

\* What is left of an item is at its place, and of its kind.
LEMMA FragmentParts ==
  ASSUME NEW r, IsItem(r), CanBeMade(r), NEW o \in Fragments(r),
         r.kind = "field" => r.data.shape \in Seq(Nat)
  PROVE  o.path = r.path /\ (o.kind = "field" => o.data.dims \in Seq(Nat))
<1> DEFINE s == Stored(r)
<1>1. /\ s.path = r.path /\ s.kind = r.kind
      /\ r.kind = "field" => s.data.dims \in Seq(Nat)
      BY StoredItem
<1>2. r.kind # "link"
      BY DEF CanBeMade
<1>3. CASE IsGroup(r)
  <2>1. PICK as : o = [[s EXCEPT !.attrs = [a \in as |-> r.attrs[a]]] EXCEPT !.kind = "plain"]
        BY <1>3 DEF Fragments
  <2>2. s = r /\ r = [path |-> r.path, kind |-> r.kind, attrs |-> r.attrs, data |-> r.data]
        BY <1>3 DEF Stored, IsGroup, IsItem
  <2>3. o.path = r.path /\ o.kind = "plain"
        BY <2>1, <2>2
  <2>4. QED
        BY <2>3
<1>4. CASE ~IsGroup(r)
  <2>1. r.kind = "field"
        BY <1>2, <1>4 DEF IsGroup
  <2> DEFINE d == Encode(r.data.value, r.data.shape)
  <2>2. s = [path |-> r.path, kind |-> r.kind, attrs |-> r.attrs, data |-> d]
        BY <2>1 DEF Stored, IsItem
  <2>3. d = [type |-> d.type, dims |-> d.dims, elems |-> d.elems]
        BY DEF Encode
  <2>4. s.data = d /\ d.dims \in Seq(Nat)
        BY <1>1, <2>1, <2>2
  <2> HIDE DEF d, s
  <2>5. PICK as, with, g :
          /\ with = [s EXCEPT !.attrs = [a \in as |-> r.attrs[a]]]
          /\ o = with \/ o = [with EXCEPT !.data.elems = g]
        BY <1>4 DEF Fragments, s
  <2>6. o.path = r.path /\ o.data.dims = d.dims
    <3>1. DOMAIN with = {"path", "kind", "attrs", "data"} /\ with.path = r.path /\ with.data = d
          BY <2>2, <2>5
    <3>2. ASSUME o = [with EXCEPT !.data.elems = g]
          PROVE  o.path = with.path /\ o.data = [with.data EXCEPT !.elems = g]
          BY <3>1, <3>2
    <3>3. [d EXCEPT !.elems = g].dims = d.dims
          BY <2>3
    <3>4. QED
          BY <2>5, <3>1, <3>2, <3>3
  <2>7. QED
        BY <2>4, <2>6
<1>5. QED
      BY <1>3, <1>4

\* The file is a tree with one more object at the place of an item in todo.
LEMMA OneMoreOnDisk ==
  ASSUME FileInv, TreeInv, DiskSound, LoadedSound, result = "write", todo # <<>>,
         NEW W \in SUBSET Tree, Progress(W),
         NEW r, r = Head(todo), ~Taken(r.path),
         NEW o, o.path = r.path, o.kind = "field" => o.data.dims \in Seq(Nat)
  PROVE  LET more == disk[target].holds \cup {o}
         IN /\ IsFiniteSet(more) /\ IsTree(more)
            /\ \A q \in more : q.kind = "field" => q.data.dims \in Seq(Nat)
<1>1. target \in Files
      BY DEF FileInv, TypeOK
<1>2. r \in Tree /\ ToSet(todo) = {r} \cup ToSet(Tail(todo))
      BY FirstAndRest DEF Progress
<1>3. r.path \in Seq(ChildNames) /\ HasPlace(r, W)
      BY <1>2, TreeIsTree DEF Progress, IsTree
<1>4. ASSUME NEW g \in W
      PROVE  /\ Stored(g) \in disk[target].holds /\ Stored(g).path = g.path
             /\ IsGroup(Stored(g)) <=> IsGroup(g)
  <2>1. IsItem(g)
        BY TreeItems
  <2>2. QED
        BY <2>1, StoredItem DEF Progress, Wrote
<1>5. HasPlace(o, disk[target].holds)
  <2>1. PICK n \in ChildNames :
               \/ r.path = <<n>>
               \/ \E g \in W : IsGroup(g) /\ r.path = Append(g.path, n)
        BY <1>3 DEF HasPlace
  <2>2. ASSUME NEW g \in W, IsGroup(g), r.path = Append(g.path, n)
        PROVE  \E k \in disk[target].holds : IsGroup(k) /\ r.path = Append(k.path, n)
        BY <1>4, <2>2
  <2>3. QED
        BY <2>1, <2>2 DEF HasPlace
<1>6. IsTree(disk[target].holds) /\ IsFiniteSet(disk[target].holds)
      BY <1>1 DEF DiskSound
<1>7. \A q \in disk[target].holds : q.path # r.path
      BY DEF Taken
<1>8. IsTree(disk[target].holds \cup {o})
      BY <1>3, <1>5, <1>6, <1>7, OneMoreObject
<1>9. IsFiniteSet(disk[target].holds \cup {o})
      BY <1>6, FS_AddElement
<1>10. QED
       BY <1>1, <1>8, <1>9 DEF DiskSound

\* The file is a tree of the objects that were there and those written to it.
LEMMA OneMoreWritten ==
  ASSUME FileInv, TreeInv, DiskSound, LoadedSound, result = "write", todo # <<>>,
         NEW W \in SUBSET Tree, Progress(W),
         NEW r, r = Head(todo), CanBeStored(r),
         NEW below, Lists(below, IF IsGroup(r) THEN DirectlyBelow(r.path, Tree) ELSE {}),
         Written(r, below)
  PROVE  DiskSound' /\ Progress(W \cup {r})' /\ W \cup {r} \in SUBSET Tree'
<1> DEFINE more == W \cup {r}
           rest == Tail(todo)
<1>1. Tree' = Tree /\ Base' = Base
      BY ImageSame, TreeSame DEF Written, call
<1>2. r \in Tree /\ rest \in Seq(Tree) /\ ToSet(todo) = {r} \cup ToSet(rest)
      BY FirstAndRest DEF Progress
<1>3. target \in Files /\ target' = target
      BY DEF FileInv, TypeOK, Written, call
<1>4. /\ disk'[target].holds = disk[target].holds \cup {Stored(r)}
      /\ \A f \in Files : f # target => disk'[f] = disk[f]
  <2>1. /\ disk' = [disk EXCEPT ![target] = Holding(Stored(r))]
        /\ DOMAIN disk = Files
        BY <1>3 DEF Written, FileInv
  <2>2. Holding(Stored(r)).holds = disk[target].holds \cup {Stored(r)}
        BY FilesOfReturns
  <2>3. QED
        BY <1>3, <2>1, <2>2
<1>5. IsItem(r) /\ (r.kind = "field" => r.data.shape \in Seq(Nat))
      BY <1>2, TreeItems
<1>6. Wrote(more)'
  <2>1. \A q \in more : CanBeStored(q)
        BY DEF Progress, Wrote
  <2>2. disk[target].holds = Base \cup {Stored(q) : q \in W}
        BY DEF Progress, Wrote
  <2>3. disk'[target].holds = Base \cup {Stored(q) : q \in more}
        BY <1>4, <2>2
  <2> HIDE DEF more
  <2>4. more \subseteq Tree
        BY <1>2 DEF more
  <2>5. QED
        BY <1>1, <1>3, <2>1, <2>3, <2>4, Rigid DEF Wrote
<1>7. todo' \in Seq(Tree) /\ ToSet(todo') = ToSet(below) \cup ToSet(rest)
  <2>1. below \in Seq(Tree)
    <3>1. (IF IsGroup(r) THEN DirectlyBelow(r.path, Tree) ELSE {}) \subseteq Tree
          BY DEF DirectlyBelow
    <3>2. QED
          BY <3>1 DEF Lists
  <2>2. todo' = below \o rest
        BY DEF Written
  <2> HIDE DEF rest
  <2>3. QED
        BY <1>2, <2>1, <2>2, OneAfterTheOther
<1>8. \A q : HasPlace(q, W) => HasPlace(q, more)
      BY DEF HasPlace
<1>9. ASSUME NEW q \in ToSet(todo') PROVE HasPlace(q, more)
  <2>1. CASE q \in ToSet(rest)
        BY <1>2, <1>8, <2>1 DEF Progress
  <2>2. CASE q \in ToSet(below)
        BY <2>2 DEF Lists, DirectlyBelow, HasPlace
  <2>3. QED
        BY <1>7, <2>1, <2>2
<1>10. ASSUME NEW q \in Tree, HasPlace(q, more) PROVE q \in more \cup ToSet(todo')
  <2>1. CASE HasPlace(q, W)
        BY <1>2, <1>7, <2>1 DEF Progress
  <2>2. CASE ~HasPlace(q, W)
    <3>1. PICK n \in ChildNames : IsGroup(r) /\ q.path = Append(r.path, n)
          BY <1>10, <2>2 DEF HasPlace
    <3>2. q \in ToSet(below)
          BY <3>1 DEF Lists, DirectlyBelow
    <3>3. QED
          BY <1>7, <3>2
  <2>3. QED
        BY <2>1, <2>2
<1>11. DiskSound'
  <2>1. /\ Stored(r).path = r.path
        /\ Stored(r).kind = "field" => Stored(r).data.dims \in Seq(Nat)
        BY <1>5, StoredItem
  <2>2. ~Taken(r.path)
        BY DEF Written
  <2>3. /\ IsFiniteSet(disk'[target].holds) /\ IsTree(disk'[target].holds)
        /\ \A q \in disk'[target].holds : q.kind = "field" => q.data.dims \in Seq(Nat)
        BY <1>4, <2>1, <2>2, OneMoreOnDisk
  <2>4. QED
        BY <1>3, <1>4, <2>3 DEF DiskSound
<1>12. more \in SUBSET Tree'
       BY <1>1, <1>2
<1> HIDE DEF more
<1>13. Progress(more)'
       BY <1>1, <1>6, <1>7, <1>9, <1>10, Rigid DEF Progress
<1>14. QED
       BY <1>11, <1>12, <1>13 DEF more

-----------------------------------------------------------------------------
(* The invariant, step by step.                                            *)

CallInv == DiskSound /\ LoadedSound /\ CallSound /\ WorkSound /\ TwinSound

LEMMA DiskSame ==
  ASSUME DiskSound, LoadedSound, UNCHANGED <<disk, loaded>>
  PROVE  DiskSound' /\ LoadedSound'
BY DEF DiskSound, LoadedSound

LEMMA TwinSame ==
  ASSUME TwinSound, Image' = Image, UNCHANGED twin,
         twin # None => disk'[twin] = disk[twin],
         result' \in {"stamp", "write"} => twin = None \/ twin # target'
  PROVE  TwinSound'
BY Rigid DEF TwinSound

\* Where the file has only what was to be written and what was there, nothing is
\* invented.
LEMMA WholeInventsNothing ==
  ASSUME disk'[target'].holds \subseteq OnDisk(Tree)' \cup before'.holds
  PROVE  NothingInvented'
<1> DEFINE odd == disk'[target'].holds \ (OnDisk(Tree)' \cup before'.holds)
<1>1. odd = {} /\ Cardinality(odd) <= 1
      BY FS_EmptySet
<1>2. Tree' = (IF source # None THEN loaded ELSE Image)'
      BY DEF Tree
<1>3. OnDisk(Tree)' = OnDisk(IF source # None THEN loaded ELSE Image)'
      BY <1>2 DEF OnDisk
<1>4. QED
      BY <1>1, <1>3 DEF NothingInvented

\* While the program edits its tree, nothing is known of the call before.
LEMMA EditKeeps ==
  ASSUME CallInv, Edit PROVE CallInv'
<1>1. /\ result = "idle"
      /\ UNCHANGED <<disk, handle, todo, result, call>> /\ twin' = None
      BY DEF Edit, EditTree, SetValue
<1>2. UNCHANGED <<disk, loaded>>
      BY <1>1 DEF call
<1>3. DiskSound' /\ LoadedSound'
      BY <1>2, DiskSame DEF CallInv
<1>4. mode = None /\ mode' = None /\ result' = "idle"
      BY <1>1 DEF CallInv, CallSound, call
<1>5. CallSound'
      BY <1>1, <1>4 DEF CallInv, CallSound, Working, CanRead, call
<1>6. WorkSound'
      BY <1>4 DEF WorkSound, NothingInvented
<1>7. QED
      BY <1>1, <1>3, <1>5, <1>6 DEF CallInv, TwinSound

LEMMA RefusedIsSound ==
  ASSUME FileInv, CallInv, NEW f \in Files, NEW m \in Modes \cup {"w"}, NEW src,
         Refused(f, m, src)
  PROVE  CallInv'
<1>1. /\ result' = "error" /\ target' = f /\ mode' = m /\ before' = disk[f]
      /\ UNCHANGED <<treeVars, content, disk, loaded, twin>>
      BY DEF Refused
<1>2. m # None /\ f # None
      BY NXFileIOAssumption
<1>3. DiskSound' /\ LoadedSound'
      BY <1>1, DiskSame DEF CallInv
<1>4. ~disk[f].exists => disk[f].holds = {}
      BY DEF FileInv, TypeOK, Absent
<1>5. CallSound'
      BY <1>1, <1>2, <1>4 DEF CallSound, Working
<1>6. WorkSound'
  <2>1. NothingInvented'
        BY <1>1, WholeInventsNothing
  <2>2. QED
        BY <1>1, <2>1 DEF WorkSound
<1>7. TwinSound'
      BY <1>1, ImageSame, TwinSame DEF CallInv
<1>8. QED
      BY <1>3, <1>5, <1>6, <1>7 DEF CallInv

\* Opening a file to write to it.
LEMMA OpensIsSound ==
  ASSUME FileInv, CallInv, NEW f \in Files, NEW m \in Modes \cup {"w"}, NEW src,
         MayOpen(f, m), Opens(f, m, src), m # "r", LoadedSound', TwinSound',
         src # None =>
           /\ src \in Files /\ m = "w" /\ loaded' = ReadFile(disk[src].holds)
           /\ \A l \in loaded' : CanBeStored(l) => ReadObject(Stored(l)) = l
  PROVE  CallInv'
<1>1. /\ disk' = [disk EXCEPT ![f] = Opened(f, m)]
      /\ before' = disk[f] /\ target' = f /\ mode' = m /\ source' = src
      /\ result' = "stamp"
      BY DEF Opens
<1>2. DOMAIN disk = Files
      BY DEF FileInv
<1>3. disk'[f] = Opened(f, m) /\ \A g \in Files : g # f => disk'[g] = disk[g]
      BY <1>1, <1>2
<1>4. ~disk[f].exists => disk[f].holds = {}
      BY DEF FileInv, TypeOK, Absent
<1>5. Opened(f, m).holds = IF m \in {"w", "w-", "x"} THEN {} ELSE disk[f].holds
      BY <1>4 DEF Opened, Truncated, Absent
<1>6. DiskSound'
  <2>1. IsFiniteSet({}) /\ IsTree({})
        BY FS_EmptySet DEF IsTree
  <2>2. ASSUME NEW g \in Files
        PROVE  /\ IsFiniteSet(disk'[g].holds)
               /\ IsTree(disk'[g].holds)
               /\ \A r \in disk'[g].holds : r.kind = "field" => r.data.dims \in Seq(Nat)
    <3>1. disk'[g].holds = {} \/ disk'[g].holds = disk[g].holds
          BY <1>3, <1>5
    <3>2. QED
          BY <2>1, <3>1 DEF CallInv, DiskSound
  <2>3. QED
        BY <2>2 DEF DiskSound
<1>7. CallSound'
  <2>1. m # None /\ f # None
        BY NXFileIOAssumption
  <2>2. src # None => Original' = disk[src].holds
        BY <1>1, <1>3 DEF Original
  <2>3. \A l : (CanBeStored(l) => ReadObject(Stored(l)) = l) =>
               (CanBeStored(l) => ReadObject(Stored(l)) = l)'
        BY Rigid DEF ReadObject, ReadAttrs
  <2>4. src # None => /\ src \in Files /\ m = "w"
                      /\ loaded' = ReadFile(Original)'
                      /\ (\A l \in loaded : CanBeStored(l) => ReadObject(Stored(l)) = l)'
        BY <2>2, <2>3 DEF ReadFile, ReadObject, ReadAttrs
  <2>5. QED
        BY <1>1, <1>4, <2>1, <2>4 DEF CallSound, Working
<1>8. WorkSound'
  <2>1. disk'[f].holds = Base'
        BY <1>1, <1>3, <1>5 DEF Base
  <2>2. NothingInvented'
        BY <1>1, <1>3, <1>5, WholeInventsNothing
  <2>3. m = "w" \/ ~disk[f].exists => disk'[f].legible
    <3>1. m = "w" \/ ~disk[f].exists => Opened(f, m) = Truncated
          BY DEF Opened
    <3>2. Truncated.legible
          BY DEF Truncated, Absent
    <3>3. QED
          BY <1>3, <3>1, <3>2
  <2>4. QED
        BY <1>1, <2>1, <2>2, <2>3 DEF WorkSound
<1>9. QED
      BY <1>6, <1>7, <1>8 DEF CallInv

LEMMA SaveOpensIsSound ==
  ASSUME FileInv, CallInv, NEW f \in Files, NEW m \in Modes, SaveOpens(f, m)
  PROVE  CallInv'
<1>1. MayOpen(f, m) /\ m # "r" /\ Opens(f, m, None) /\ twin' = None /\ loaded' = loaded
      BY DEF SaveOpens
<1>2. LoadedSound' /\ TwinSound'
      BY <1>1 DEF CallInv, LoadedSound, TwinSound
<1>3. QED
      BY <1>1, <1>2, OpensIsSound

LEMMA LoadedIsSound ==
  ASSUME DiskSound, NEW f \in Files, CanRead(f), loaded' = ReadFile(disk[f].holds)
  PROVE  LoadedSound'
<1>1. IsFiniteSet(loaded') /\ IsTree(loaded')
      BY ReadIsTree DEF DiskSound
<1>2. \A l \in loaded' : IsItem(l) /\ (l.kind = "field" => l.data.shape \in Seq(Nat))
      BY LoadingIsSound
<1>3. QED
      BY <1>1, <1>2 DEF LoadedSound, IsItem

LEMMA DuplicateOpensIsSound ==
  ASSUME FileInv, CallInv, NEW f \in Files, NEW g \in Files, DuplicateOpens(f, g)
  PROVE  CallInv'
<1>1. /\ CanRead(f) /\ Opens(g, "w", f)
      /\ loaded' = ReadFile(disk[f].holds)
      /\ twin' = IF twin = g THEN None ELSE twin
      BY DEF DuplicateOpens
<1>2. LoadedSound'
      BY <1>1, LoadedIsSound DEF CallInv
<1>3. TwinSound'
  <2>1. CASE twin = g
        BY <1>1, <2>1 DEF TwinSound
  <2>2. CASE twin # g
    <3>1. twin' = twin /\ target' = g /\ \A h \in Files : h # g => disk'[h] = disk[h]
          BY <1>1, <2>2 DEF Opens, FileInv
    <3>2. twin # None => twin \in Files
          BY DEF CallInv, TwinSound
    <3>3. Image' = Image
          BY <1>1, ImageSame DEF Opens
    <3>4. QED
          BY <2>2, <3>1, <3>2, <3>3, TwinSame DEF CallInv
  <2>3. QED
        BY <2>1, <2>2
<1>4. \A l \in loaded' : CanBeStored(l) => ReadObject(Stored(l)) = l
      BY <1>1, LoadingIsSound DEF CallInv
<1>5. MayOpen(g, "w")
      BY DEF MayOpen
<1>6. QED
      BY <1>1, <1>2, <1>3, <1>4, <1>5, OpensIsSound

\* A step of a call at work: it touches its own file only.
WorkStep ==
  /\ result \in {"stamp", "write"}
  /\ result' \in {"write", "ok", "error"}
  /\ Image' = Image
  /\ UNCHANGED call
  /\ \A f \in Files : f # target => disk'[f] = disk[f]

LEMMA CallGoesOn ==
  ASSUME CallSound, WorkStep PROVE CallSound'
<1>1. UNCHANGED <<before, target, mode, loaded, source>>
      BY DEF WorkStep, call
<1>2. source \in Files => Original' = Original
      BY <1>1 DEF WorkStep, Original
<1>3. Working
      BY DEF WorkStep, Working
<1>4. result # "idle" /\ result' # "idle"
      BY DEF WorkStep
<1>5. \A l : (CanBeStored(l) => ReadObject(Stored(l)) = l) =>
             (CanBeStored(l) => ReadObject(Stored(l)) = l)'
      BY Rigid DEF ReadObject, ReadAttrs
<1>6. source \in Files /\ loaded = ReadFile(Original) => loaded' = ReadFile(Original)'
      BY <1>1, <1>2 DEF ReadFile, ReadObject, ReadAttrs
<1>7. source # None =>
        /\ source' \in Files /\ mode' = "w"
        /\ loaded' = ReadFile(Original)'
        /\ (\A l \in loaded : CanBeStored(l) => ReadObject(Stored(l)) = l)'
      BY <1>1, <1>3, <1>5, <1>6 DEF CallSound
<1>8. result' \in {"write", "ok", "error"} /\ result \in {"stamp", "write"}
      BY DEF WorkStep
<1>9. QED
      BY <1>1, <1>3, <1>4, <1>7, <1>8 DEF CallSound, Working

LEMMA TwinStays ==
  ASSUME TwinSound, WorkStep, UNCHANGED twin PROVE TwinSound'
<1>1. target' = target /\ result \in {"stamp", "write"}
      BY DEF WorkStep, call
<1>2. Image' = Image
      BY DEF WorkStep
<1>3. twin # None => twin # target /\ disk'[twin] = disk[twin]
      BY <1>1 DEF TwinSound, WorkStep
<1>4. QED
      BY <1>1, <1>2, <1>3, TwinSame

\* What was written was in the tree, and the rest was there before.
LEMMA WroteInventsNothing ==
  ASSUME NEW W, Wrote(W) PROVE disk[target].holds \subseteq OnDisk(Tree) \cup before.holds
<1>1. \A r \in W : r \in Tree /\ CanBeStored(r)
      BY DEF Wrote
<1>2. {Stored(r) : r \in W} \subseteq OnDisk(Tree)
      BY <1>1 DEF OnDisk
<1>3. Base \subseteq before.holds
      BY DEF Base
<1>4. QED
      BY <1>2, <1>3 DEF Wrote

LEMMA OnDiskSame ==
  ASSUME Tree' = Tree PROVE OnDisk(Tree)' = OnDisk(Tree)
BY Rigid DEF OnDisk

LEMMA StampIsSound ==
  ASSUME FileInv, TreeInv, CallInv, Stamp PROVE CallInv'
<1>1. /\ result = "stamp" /\ result' = "write"
      /\ disk' = [disk EXCEPT ![target] = [disk[target] EXCEPT !.stamped = TRUE]]
      /\ todo' = Entries(<<>>)
      /\ SetFileAttrs
      /\ UNCHANGED <<content, twin, call>>
      BY DEF Stamp
<1>2. target \in Files
      BY <1>1 DEF FileInv, TypeOK
<1>3. /\ \A f \in Files : f # target => disk'[f] = disk[f]
      /\ disk'[target].holds = disk[target].holds
      /\ disk'[target].legible = disk[target].legible
      BY <1>1, <1>2, FilesOfReturns DEF FileInv
<1>4. Image' = Image
      BY <1>1, ImageSame, ImageWithoutRoot DEF SetFileAttrs
<1>5. WorkStep
      BY <1>1, <1>3, <1>4 DEF WorkStep
<1>6. Tree' = Tree /\ Base' = Base
      BY <1>1, <1>4, TreeSame
<1>7. DiskSound' /\ LoadedSound'
  <2>1. \A f \in Files : disk'[f].holds = disk[f].holds
        BY <1>3
  <2>2. loaded' = loaded
        BY <1>1 DEF call
  <2>3. QED
        BY <2>1, <2>2 DEF CallInv, DiskSound, LoadedSound
<1>8. disk'[target].holds = Base
      BY <1>1, <1>3 DEF CallInv, WorkSound
<1>9. Progress({})'
  <2>1. Lists(Entries(<<>>), DirectlyBelow(<<>>, Tree))
        BY EntriesAreDirect DEF CallInv
  <2>2. \A r : HasPlace(r, {}) <=> \E n \in ChildNames : r.path = Append(<<>>, n)
        BY AppendToEmpty DEF HasPlace
  <2>3. todo' \in Seq(Tree) /\ ToSet(todo') = {r \in Tree : HasPlace(r, {})}
    <3>1. DirectlyBelow(<<>>, Tree) = {r \in Tree : HasPlace(r, {})}
          BY <2>2 DEF DirectlyBelow
    <3>2. todo' \in Seq({r \in Tree : HasPlace(r, {})})
          BY <1>1, <2>1, <3>1 DEF Lists
    <3>3. QED
          BY <1>1, <2>1, <3>1, <3>2 DEF Lists
  <2>4. disk'[target'].holds = Base
        BY <1>1, <1>8 DEF call
  <2>5. Wrote({})'
        BY <1>6, <2>4 DEF Wrote
  <2>6. QED
        BY <1>6, <2>3, <2>5, Rigid DEF Progress
<1>10. WorkSound'
  <2>1. target' = target /\ before' = before /\ mode' = mode
        BY <1>1 DEF call
  <2>2. disk'[target'].holds \subseteq before'.holds
        BY <1>8, <2>1 DEF Base
  <2>3. NothingInvented'
        BY <2>2, WholeInventsNothing
  <2>4. {} \in SUBSET Tree'
        OBVIOUS
  <2>5. mode' = "w" \/ ~before'.exists => disk'[target'].legible
        BY <1>1, <1>3, <2>1 DEF CallInv, WorkSound
  <2>6. QED
        BY <1>1, <1>9, <2>3, <2>4, <2>5 DEF WorkSound
<1>11. QED
       BY <1>1, <1>5, <1>7, <1>10, CallGoesOn, TwinStays DEF CallInv

\* A call that returns with a tree in its file leaves one, even if Close fails.
LEMMA ReturnsATree ==
  ASSUME FileInv, CallInv, target \in Files, NEW r, NEW d, Returns(r, d),
         DOMAIN d = DOMAIN Absent, IsFiniteSet(d.holds), IsTree(d.holds),
         \A q \in d.holds : q.kind = "field" => q.data.dims \in Seq(Nat)
  PROVE  DiskSound' /\ LoadedSound'
<1>1. /\ \A f \in Files : f # target => disk'[f] = disk[f]
      /\ disk'[target].holds \subseteq d.holds
      /\ IsTree(disk'[target].holds)
      BY WhatReturnsLeave
<1>2. IsFiniteSet(disk'[target].holds)
      BY <1>1, FS_Subset
<1>3. DiskSound'
      BY <1>1, <1>2 DEF CallInv, DiskSound
<1>4. LoadedSound'
      BY DEF Returns, call, CallInv, LoadedSound
<1>5. QED
      BY <1>3, <1>4

\* An error leaves at most one object more than what was written, a part of an
\* item of the tree.
LEMMA FailureIsSound ==
  ASSUME FileInv, CallInv, result \in {"stamp", "write"},
         NEW d, Returns("error", d), Image' = Image, UNCHANGED twin,
         DOMAIN d = DOMAIN Absent, IsFiniteSet(d.holds), IsTree(d.holds),
         \A q \in d.holds : q.kind = "field" => q.data.dims \in Seq(Nat),
         NEW odd, d.holds \subseteq OnDisk(Tree) \cup before.holds \cup odd,
         odd = {} \/ \E r \in Tree : CanBeMade(r) /\ \E o \in Fragments(r) : odd = {o}
  PROVE  CallInv'
<1>1. result' = "error" /\ UNCHANGED <<content, call>>
      BY DEF Returns
<1>2. target \in Files
      BY DEF FileInv, TypeOK
<1>3. /\ \A f \in Files : f # target => disk'[f] = disk[f]
      /\ disk'[target].holds \subseteq d.holds
      BY <1>2, WhatReturnsLeave
<1>4. WorkStep
      BY <1>1, <1>3 DEF WorkStep
<1>5. DiskSound' /\ LoadedSound'
      BY <1>2, ReturnsATree
<1>6. Tree' = Tree
      BY <1>1, TreeSame
<1>7. NothingInvented'
  <2> DEFINE left == disk'[target].holds \ (OnDisk(Tree) \cup before.holds)
  <2>1. left \subseteq odd
        BY <1>3
  <2>2. /\ Cardinality(left) <= 1
        /\ \A o \in left : \E r \in Tree : CanBeMade(r) /\ o \in Fragments(r)
    <3>1. CASE odd = {}
      <4>1. left = {} /\ Cardinality({}) = 0
            BY <2>1, <3>1, FS_EmptySet
      <4> HIDE DEF left
      <4>2. QED
            BY <4>1
    <3>2. ASSUME NEW r \in Tree, CanBeMade(r), NEW o \in Fragments(r), odd = {o}
          PROVE  /\ Cardinality(left) <= 1
                 /\ \A p \in left : \E q \in Tree : CanBeMade(q) /\ p \in Fragments(q)
      <4>1. left = {} \/ left = {o}
            BY <2>1, <3>2
      <4>2. Cardinality({}) = 0 /\ Cardinality({o}) = 1
            BY FS_EmptySet, FS_Singleton
      <4> HIDE DEF left
      <4>3. Cardinality(left) <= 1
        <5>1. CASE left = {}
              BY <4>2, <5>1
        <5>2. CASE left = {o}
          <6>1. Cardinality(left) = 1
                BY <4>2, <5>2
          <6>2. QED
                BY <6>1
        <5>3. QED
              BY <4>1, <5>1, <5>2
      <4>4. QED
            BY <3>2, <4>1, <4>3
    <3>3. QED
          BY <3>1, <3>2
  <2> DEFINE items == IF source # None THEN loaded ELSE Image
  <2>3. items' = Tree /\ OnDisk(items)' = OnDisk(Tree)
    <3>1. Tree = items
          BY DEF Tree
    <3>2. items' = Tree
          BY <1>1, <3>1 DEF call
    <3> HIDE DEF items
    <3>3. QED
          BY <3>2, Rigid DEF OnDisk
  <2>4. left = disk'[target'].holds \ (OnDisk(items)' \cup before'.holds)
        BY <1>1, <2>3 DEF call
  <2> HIDE DEF left
  <2>5. QED
        BY <1>1, <2>2, <2>3, <2>4, Rigid DEF NothingInvented
<1>8. WorkSound'
      BY <1>1, <1>7 DEF WorkSound
<1>9. QED
      BY <1>4, <1>5, <1>8, CallGoesOn, TwinStays DEF CallInv

LEMMA StampFailsSoundly ==
  ASSUME FileInv, TreeInv, CallInv, StampFails PROVE CallInv'
<1>1. result = "stamp" /\ SetFileAttrs /\ twin' = twin
      BY DEF StampFails
<1>2. PICK s : Returns("error", [disk[target] EXCEPT !.stamped = s])
      BY DEF StampFails
<1> DEFINE d == [disk[target] EXCEPT !.stamped = s]
<1>3. target \in Files /\ DOMAIN d = DOMAIN Absent /\ d.holds = disk[target].holds
      BY <1>1, FilesOfReturns
<1>4. Returns("error", d)
      BY <1>2
<1> HIDE DEF d
<1>5. /\ IsFiniteSet(d.holds) /\ IsTree(d.holds)
      /\ \A q \in d.holds : q.kind = "field" => q.data.dims \in Seq(Nat)
      BY <1>3 DEF CallInv, DiskSound
<1>6. d.holds \subseteq before.holds
      BY <1>1, <1>3 DEF CallInv, WorkSound, Base
<1>7. Image' = Image
  <2>1. content' = content
        BY <1>4 DEF Returns
  <2>2. QED
        BY <1>1, <2>1, ImageSame, ImageWithoutRoot DEF SetFileAttrs
<1>8. QED
      BY <1>1, <1>3, <1>4, <1>5, <1>6, <1>7, FailureIsSound

LEMMA WriteFailsSoundly ==
  ASSUME FileInv, TreeInv, CallInv, WriteFails PROVE CallInv'
<1>1. result = "write" /\ todo # <<>> /\ UNCHANGED <<treeVars, twin>>
      BY DEF WriteFails
<1>2. PICK W \in SUBSET Tree : Progress(W)
      BY <1>1 DEF CallInv, WorkSound
<1>3. disk[target].holds \subseteq OnDisk(Tree) \cup before.holds
      BY <1>2, WroteInventsNothing DEF Progress
<1>4. target \in Files /\ DOMAIN disk[target] = DOMAIN Absent
      BY <1>1, FilesOfReturns
<1>5. ASSUME NEW d, Returns("error", d) PROVE Image' = Image
      BY <1>1, <1>5, ImageSame DEF Returns
<1>6. CASE Returns("error", disk[target])
  <2>1. /\ IsFiniteSet(disk[target].holds) /\ IsTree(disk[target].holds)
        /\ \A q \in disk[target].holds : q.kind = "field" => q.data.dims \in Seq(Nat)
        BY <1>4 DEF CallInv, DiskSound
  <2>2. disk[target].holds \subseteq OnDisk(Tree) \cup before.holds \cup {}
        BY <1>3
  <2>3. QED
        BY <1>1, <1>4, <1>5, <1>6, <2>1, <2>2, FailureIsSound
<1>7. ASSUME NEW r, r = Head(todo), CanBeMade(r), ~Taken(r.path),
             NEW o \in Fragments(r), Returns("error", Holding(o))
      PROVE  CallInv'
  <2>1. r \in Tree
        BY <1>1, <1>2, <1>7, FirstAndRest DEF Progress
  <2>2. IsItem(r) /\ (r.kind = "field" => r.data.shape \in Seq(Nat))
        BY <2>1, TreeItems DEF CallInv
  <2>3. o.path = r.path /\ (o.kind = "field" => o.data.dims \in Seq(Nat))
        BY <1>7, <2>2, FragmentParts
  <2>4. DOMAIN Holding(o) = DOMAIN Absent /\ Holding(o).holds = disk[target].holds \cup {o}
        BY <1>1, FilesOfReturns
  <2>5. /\ IsFiniteSet(Holding(o).holds) /\ IsTree(Holding(o).holds)
        /\ \A q \in Holding(o).holds : q.kind = "field" => q.data.dims \in Seq(Nat)
        BY <1>1, <1>2, <1>7, <2>3, <2>4, OneMoreOnDisk DEF CallInv
  <2>6. Holding(o).holds \subseteq OnDisk(Tree) \cup before.holds \cup {o}
        BY <1>3, <2>4
  <2>7. Image' = Image
        BY <1>5, <1>7
  <2>8. QED
        BY <1>1, <1>7, <2>1, <2>4, <2>5, <2>6, <2>7, FailureIsSound
<1>8. QED
      BY <1>6, <1>7 DEF WriteFails

LEMMA WriteIsSound ==
  ASSUME FileInv, TreeInv, CallInv, WriteGroup \/ WriteField PROVE CallInv'
<1>1. result = "write" /\ todo # <<>>
      BY DEF WriteGroup, WriteField
<1>2. PICK W \in SUBSET Tree : Progress(W)
      BY <1>1 DEF CallInv, WorkSound
<1>3. PICK r : r = Head(todo)
      OBVIOUS
<1>4. r \in Tree
      BY <1>1, <1>2, <1>3, FirstAndRest DEF Progress
<1>5. PICK below : /\ Lists(below, IF IsGroup(r) THEN DirectlyBelow(r.path, Tree) ELSE {})
                   /\ CanBeStored(r)
                   /\ Written(r, below)
  <2>1. CASE WriteGroup
    <3>1. IsGroup(r) /\ Written(r, Entries(r.path))
          BY <1>3, <2>1 DEF WriteGroup
    <3>2. Lists(Entries(r.path), DirectlyBelow(r.path, Tree))
          BY <1>4, <3>1, EntriesAreDirect DEF CallInv
    <3>3. QED
          BY <3>1, <3>2 DEF Written
  <2>2. CASE WriteField
    <3>1. r.kind = "field" /\ Written(r, <<>>)
          BY <1>3, <2>2 DEF WriteField
    <3>2. Lists(<<>>, {})
          BY DEF Lists, ToSet
    <3>3. ~IsGroup(r)
          BY <3>1 DEF IsGroup
    <3>4. QED
          BY <3>1, <3>2, <3>3 DEF Written
  <2>3. QED
        BY <2>1, <2>2
<1>6. DiskSound' /\ Progress(W \cup {r})' /\ W \cup {r} \in SUBSET Tree'
      BY <1>1, <1>2, <1>3, <1>5, OneMoreWritten DEF CallInv
<1>7. /\ disk' = [disk EXCEPT ![target] = Holding(Stored(r))]
      /\ UNCHANGED <<treeVars, content, result, twin, call>>
      BY <1>5 DEF Written
<1>8. WorkStep
      BY <1>1, <1>7, ImageSame DEF WorkStep, FileInv
<1>9. LoadedSound'
      BY <1>7 DEF CallInv, LoadedSound, call
<1>10. WorkSound'
  <2>1. result' = "write"
        BY <1>1, <1>7
  <2>2. \E V \in SUBSET Tree' : Progress(V)'
        BY <1>6
  <2>3. NothingInvented'
    <3>1. PICK V : Wrote(V)'
          BY <2>2 DEF Progress
    <3>2. /\ \A q \in V : q \in Tree' /\ CanBeStored(q)
          /\ disk'[target'].holds = Base' \cup {Stored(q) : q \in V}
          BY <3>1, Rigid DEF Wrote
    <3>3. {Stored(q) : q \in V} \subseteq OnDisk(Tree)'
          BY <3>2, Rigid DEF OnDisk
    <3>4. Base' \subseteq before'.holds
          BY DEF Base
    <3>5. QED
          BY <3>2, <3>3, <3>4, WholeInventsNothing
  <2>4. mode' = "w" \/ ~before'.exists => disk'[target'].legible
    <3>1. target' = target /\ mode' = mode /\ before' = before
          BY <1>7 DEF call
    <3>2. disk'[target].legible = disk[target].legible
          BY <1>1, <1>7, FilesOfReturns DEF FileInv
    <3>3. QED
          BY <1>1, <3>1, <3>2 DEF CallInv, WorkSound
  <2>5. QED
        BY <2>1, <2>2, <2>3, <2>4 DEF WorkSound
<1>11. QED
       BY <1>6, <1>7, <1>8, <1>9, <1>10, CallGoesOn, TwinStays DEF CallInv

\* Save returns nil when nothing is left to do, and then everything was written.
LEMMA SuccessIsSound ==
  ASSUME FileInv, TreeInv, CallInv, SaveSucceeds PROVE CallInv'
<1>1. /\ result = "write" /\ todo = <<>> /\ result' = "ok"
      /\ Returns("ok", disk[target])
      /\ twin' = IF source = None /\ flushed' /\ (mode = "w" \/ ~before.exists)
                 THEN target ELSE twin
      /\ UNCHANGED <<treeVars, content, call>>
      BY DEF SaveSucceeds, Returns
<1>2. PICK W \in SUBSET Tree : Progress(W)
      BY <1>1 DEF CallInv, WorkSound
<1>3. W = Tree
  <2>1. ToSet(todo) = {}
        BY <1>1 DEF ToSet
  <2>2. \A r \in Tree : HasPlace(r, W) => r \in W
        BY <1>2, <2>1 DEF Progress
  <2>3. QED
        BY <1>2, <2>2, TreeIsTree, AllHavePlaces DEF CallInv
<1>4. Wrote(Tree)
      BY <1>2, <1>3 DEF Progress
<1>5. Image' = Image /\ Tree' = Tree /\ Base' = Base
      BY <1>1, ImageSame, TreeSame
<1>6. target \in Files /\ disk[target].exists /\ DOMAIN disk[target] = DOMAIN Absent
      BY <1>1, FilesOfReturns
<1>7. /\ \A f \in Files : f # target => disk'[f] = disk[f]
      /\ disk'[target].holds \subseteq disk[target].holds
      /\ flushed' => disk'[target] = disk[target]
      BY <1>1, <1>6, WhatReturnsLeave
<1>8. WorkStep
      BY <1>1, <1>5, <1>7 DEF WorkStep
<1>9. DiskSound' /\ LoadedSound'
  <2>1. /\ IsFiniteSet(disk[target].holds) /\ IsTree(disk[target].holds)
        /\ \A q \in disk[target].holds : q.kind = "field" => q.data.dims \in Seq(Nat)
        BY <1>6 DEF CallInv, DiskSound
  <2>2. QED
        BY <1>1, <1>6, <2>1, ReturnsATree
<1>10. target' = target /\ before' = before
       BY <1>1 DEF call
<1>11. flushed' => Wrote(Tree)'
       BY <1>4, <1>5, <1>7, <1>10, Rigid DEF Wrote
<1>12. NothingInvented'
  <2>1. disk[target].holds \subseteq OnDisk(Tree) \cup before.holds
        BY <1>4, WroteInventsNothing
  <2>2. OnDisk(Tree)' = OnDisk(Tree)
        BY <1>5, OnDiskSame
  <2>3. QED
        BY <1>7, <1>10, <2>1, <2>2, WholeInventsNothing
<1>13. WorkSound'
       BY <1>1, <1>11, <1>12 DEF WorkSound
<1>14. TwinSound'
  <2>1. CASE source = None /\ flushed' /\ (mode = "w" \/ ~before.exists)
    <3>1. twin' = target /\ Tree = Image
          BY <1>1, <2>1 DEF Tree
    <3>2. disk[target].legible
          BY <1>1, <2>1 DEF CallInv, WorkSound
    <3>3. Base = {}
          BY <2>1 DEF Base, CallInv, CallSound
    <3>4. /\ disk[target].holds = {Stored(r) : r \in Image}
          /\ \A r \in Image : CanBeStored(r)
          BY <1>4, <3>1, <3>3 DEF Wrote
    <3>5. disk'[target] = disk[target]
          BY <1>7, <2>1
    <3>6. QED
          BY <1>1, <1>5, <1>6, <3>1, <3>2, <3>4, <3>5, Rigid DEF TwinSound
  <2>2. CASE ~(source = None /\ flushed' /\ (mode = "w" \/ ~before.exists))
        BY <1>1, <1>8, <2>2, TwinStays DEF CallInv
  <2>3. QED
        BY <2>1, <2>2
<1>15. QED
       BY <1>8, <1>9, <1>13, <1>14, CallGoesOn DEF CallInv

LEMMA LoadIsSound ==
  ASSUME CallInv, NEW f \in Files, Load(f) \/ LoadFails(f) PROVE CallInv'
<1>1. /\ result = "idle" /\ target' = f
      /\ UNCHANGED <<treeVars, content, disk, before, mode, source, twin>>
      BY DEF Load, LoadFails
<1>2. mode = None /\ source = None
      BY <1>1 DEF CallInv, CallSound
<1>3. f # None
      BY NXFileIOAssumption
<1>5. TwinSound'
  <2>1. result' \notin {"stamp", "write"}
        BY DEF Load, LoadFails
  <2>2. QED
        BY <1>1, <2>1, ImageSame, TwinSame DEF CallInv
<1>6. LoadedSound'
  <2>1. CASE Load(f)
        BY <2>1, LoadedIsSound DEF CallInv, Load
  <2>2. CASE LoadFails(f)
        BY <2>2 DEF CallInv, LoadedSound, LoadFails
  <2>3. QED
        BY <2>1, <2>2
<1>7. DiskSound'
      BY <1>1 DEF CallInv, DiskSound
<1>8. CallSound'
  <2>1. CASE Load(f)
    <3>1. /\ result' = "loaded" /\ CanRead(f)
          /\ loaded' = ReadFile(disk[f].holds)
          BY <2>1 DEF Load
    <3>2. CanRead(target)'
          BY <1>1, <3>1 DEF CanRead
    <3>3. loaded' = ReadFile(disk'[target'].holds)
          BY <1>1, <3>1
    <3>4. QED
          BY <1>1, <1>2, <1>3, <3>1, <3>2, <3>3 DEF CallInv, CallSound, Working
  <2>2. CASE LoadFails(f)
    <3>1. result' = "unreadable" /\ ~CanRead(f)
          BY <2>2 DEF LoadFails
    <3>2. ~CanRead(target)'
          BY <1>1, <3>1 DEF CanRead
    <3>3. QED
          BY <1>1, <1>2, <1>3, <3>1, <3>2 DEF CallInv, CallSound, Working
  <2>3. QED
        BY <2>1, <2>2
<1>9. WorkSound'
  <2>1. result' \in {"loaded", "unreadable"} /\ mode' = None
        BY <1>1, <1>2 DEF Load, LoadFails
  <2>2. QED
        BY <2>1 DEF WorkSound, NothingInvented
<1>10. QED
       BY <1>5, <1>6, <1>7, <1>8, <1>9 DEF CallInv

LEMMA ContinueIsSound == ASSUME CallInv, Continue PROVE CallInv'
<1>1. /\ result' = "idle" /\ target' = None /\ mode' = None /\ before' = Absent
      /\ loaded' = {} /\ source' = None
      /\ UNCHANGED <<treeVars, content, disk, twin>>
      BY DEF Continue
<1>2. DiskSound'
      BY <1>1 DEF CallInv, DiskSound
<1>3. LoadedSound'
      BY <1>1, FS_EmptySet DEF LoadedSound, IsTree
<1>4. CallSound'
      BY <1>1 DEF CallSound, Working, Absent
<1>5. WorkSound'
      BY <1>1 DEF WorkSound, NothingInvented
<1>6. TwinSound'
      BY <1>1, ImageSame, TwinSame DEF CallInv
<1>7. QED
      BY <1>2, <1>3, <1>4, <1>5, <1>6 DEF CallInv

SaveInv == FileInv /\ TreeInv /\ CallInv

LEMMA SaveInvInit == Init => SaveInv
<1> SUFFICES ASSUME Init PROVE SaveInv
    OBVIOUS
<1>1. FileInv /\ TreeInv
      BY FileInvInit, TreeInvInit DEF Init
<1>3. /\ result = "idle" /\ mode = None /\ target = None /\ source = None
      /\ twin = None /\ before = Absent /\ loaded = {}
      BY DEF Init
<1>4. DiskSound
  <2> SUFFICES ASSUME NEW f \in Files
               PROVE  /\ IsFiniteSet(disk[f].holds)
                      /\ IsTree(disk[f].holds)
                      /\ \A r \in disk[f].holds : r.kind = "field" => r.data.dims \in Seq(Nat)
      BY DEF DiskSound
  <2>1. CASE disk[f] = Absent
        BY <2>1, FS_EmptySet DEF Absent, IsTree
  <2>2. CASE disk[f] \in Foreign[f]
        BY <2>2, NXFileIOAssumption
  <2>3. QED
        BY <2>1, <2>2 DEF Init
<1>5. LoadedSound
      BY <1>3, FS_EmptySet DEF LoadedSound, IsTree
<1>6. CallSound
      BY <1>3 DEF CallSound, Working, Absent
<1>7. WorkSound /\ TwinSound
      BY <1>3 DEF WorkSound, NothingInvented, TwinSound
<1>8. QED
      BY <1>1, <1>4, <1>5, <1>6, <1>7 DEF SaveInv, CallInv

LEMMA CallInvNext == SaveInv /\ [Next]_vars => CallInv'
<1> SUFFICES ASSUME SaveInv, [Next]_vars PROVE CallInv'
    OBVIOUS
<1> USE DEF SaveInv
<1>1. CASE UNCHANGED vars
  <2>1. /\ UNCHANGED <<treeVars, content, disk, loaded, todo, twin, call>>
        /\ result' = result /\ flushed' = flushed
        BY <1>1 DEF vars, call
  <2>2. DiskSound' /\ LoadedSound'
        BY <2>1, DiskSame DEF CallInv
  <2>3. Image' = Image /\ Tree' = Tree /\ Base' = Base
        BY <2>1, ImageSame, TreeSame
  <2>4. CallSound'
        BY <2>1 DEF CallInv, CallSound, Working, Original, CanRead, call
  <2>5. TwinSound'
    <3>1. target' = target
          BY <2>1 DEF call
    <3>2. QED
          BY <2>1, <2>3, <3>1, TwinSame DEF CallInv, TwinSound
  <2>6. \A W : Wrote(W) => Wrote(W)'
        BY <2>1, <2>3, Rigid DEF Wrote, call
  <2>7. \A W : Progress(W) => Progress(W)'
        BY <2>1, <2>3, <2>6, Rigid DEF Progress
  <2>8. NothingInvented'
    <3> DEFINE items == IF source # None THEN loaded ELSE Image
    <3>1. items' = items
          BY <2>1, <2>3 DEF call
    <3>2. OnDisk(items)' = OnDisk(items)
          BY <3>1, Rigid DEF OnDisk
    <3>3. NothingInvented
          BY DEF CallInv, WorkSound
    <3>4. QED
          BY <2>1, <3>1, <3>2, <3>3, Rigid DEF NothingInvented, call
  <2>9. WorkSound'
    <3>1. result' = "stamp" => disk'[target'].holds = Base'
          BY <2>1, <2>3 DEF CallInv, WorkSound, call
    <3>2. result' = "write" => \E W \in SUBSET Tree' : Progress(W)'
          BY <2>1, <2>3, <2>7 DEF CallInv, WorkSound
    <3>3. result' = "ok" /\ flushed' => Wrote(Tree)'
      <4>1. result = "ok" /\ flushed => Wrote(Tree)
            BY DEF CallInv, WorkSound
      <4>2. QED
            BY <2>1, <2>3, <4>1, Rigid DEF Wrote, call
    <3>4. result' \in {"stamp", "write"} /\ (mode' = "w" \/ ~before'.exists) =>
            disk'[target'].legible
          BY <2>1 DEF CallInv, WorkSound, call
    <3>5. QED
          BY <2>8, <3>1, <3>2, <3>3, <3>4 DEF WorkSound
  <2>10. QED
         BY <2>2, <2>4, <2>5, <2>9 DEF CallInv
<1>2. ASSUME NEW f \in Files, NEW m \in Modes, SaveRefused(f, m) \/ SaveOpens(f, m)
      PROVE  CallInv'
      BY <1>2, RefusedIsSound, SaveOpensIsSound DEF SaveRefused
<1>3. ASSUME NEW f \in Files, NEW g \in Files, DuplicateRefused(f, g) \/ DuplicateOpens(f, g)
      PROVE  CallInv'
      BY <1>3, RefusedIsSound, DuplicateOpensIsSound DEF DuplicateRefused
<1>4. QED
      BY <1>1, <1>2, <1>3, EditKeeps, LoadIsSound, StampIsSound, StampFailsSoundly,
         WriteIsSound, WriteFailsSoundly, SuccessIsSound, ContinueIsSound DEF Next

LEMMA SaveInvNext == SaveInv /\ [Next]_vars => SaveInv'
<1> SUFFICES ASSUME SaveInv, [Next]_vars PROVE SaveInv'
    OBVIOUS
<1>1. [TreeNext]_treeVars
      BY StepsUseTree
<1>2. QED
      BY <1>1, FileInvNext, TreeInvNext, CallInvNext DEF SaveInv

LEMMA SaveInvariant == Spec => []SaveInv
BY SaveInvInit, SaveInvNext, PTL DEF Spec

-----------------------------------------------------------------------------
(* What follows from it.                                                   *)

\* At every moment of a call of Save or Duplicate, and when it has failed, each
\* object of the file is one that the call was to write, whole and at its place in
\* the tree, or was there before; wherever it failed, there is at most one more,
\* a group without its class or a dataset without its contents or attributes
\* (file.go:238-307, hdf5io.go:421-501).
THEOREM NothingEverInvented == Spec => []NothingInvented
<1>1. SaveInv => NothingInvented
      BY DEF SaveInv, CallInv, WorkSound
<1>2. QED
      BY <1>1, SaveInvariant, PTL

\* When Save returns nil and Close has not failed, every group and field of the
\* tree has been written, whatever else could have failed on the way, and besides
\* them the file has what it had when it was opened to be added to, nothing if it
\* was created or truncated (api.go:47-71, file.go:83-94 and 202-307).
THEOREM SavedIsAlwaysWhole == Spec => []SavedIsWhole
<1>1. SaveInv => SavedIsWhole
  <2> SUFFICES ASSUME SaveInv, result = "ok", source = None, flushed PROVE SavedIsWhole
      BY DEF SavedIsWhole
  <2>1. Tree = Image /\ Wrote(Image)
        BY DEF SaveInv, CallInv, WorkSound, Tree
  <2>2. \A r \in Image : CanBeStored(r)
        BY <2>1 DEF Wrote
  <2>3. OnDisk(Image) = {Stored(r) : r \in Image}
        BY <2>2 DEF OnDisk
  <2>4. Base = IF mode \in {"a", "r+", "rw"} THEN before.holds ELSE {}
    <3>1. mode \in Modes \cup {"w", None} /\ mode # None /\ mode # "r"
          BY DEF SaveInv, FileInv, TypeOK, CallInv, CallSound, Working
    <3>2. mode \in {"r+", "rw", "a", "w", "w-", "x"}
          BY <3>1, NXFileIOAssumption
    <3>3. QED
          BY <3>2 DEF Base
  <2>5. disk[target].holds = Base \cup {Stored(r) : r \in Image}
        BY <2>1 DEF Wrote
  <2>6. QED
        BY <2>2, <2>3, <2>4, <2>5 DEF SavedIsWhole
<1>2. QED
      BY <1>1, SaveInvariant, PTL

\* A file that Duplicate reports to have written loads as the very tree that the
\* file it was asked to copy loads as, or loaded as before it was overwritten by
\* its own copy, if Close has not failed (api.go:73-102, file.go:202-307).
THEOREM DuplicatesAreFaithful == Spec => []DuplicateIsFaithful
<1>1. SaveInv => DuplicateIsFaithful
  <2> SUFFICES ASSUME SaveInv, result = "ok", source # None, flushed PROVE DuplicateIsFaithful
      BY DEF DuplicateIsFaithful
  <2>1. /\ mode = "w" /\ loaded = ReadFile(Original)
        /\ \A l \in loaded : CanBeStored(l) => ReadObject(Stored(l)) = l
        BY DEF SaveInv, CallInv, CallSound, Working
  <2>2. Tree = loaded /\ Base = {} /\ Wrote(loaded)
        BY <2>1 DEF SaveInv, CallInv, WorkSound, Tree, Base
  <2>3. \A l \in loaded : ReadObject(Stored(l)) = l
        BY <2>1, <2>2 DEF Wrote
  <2>4. disk[target].holds = {Stored(l) : l \in loaded}
        BY <2>2 DEF Wrote
  <2>5. ReadFile(disk[target].holds) = {ReadObject(Stored(l)) : l \in loaded}
        BY <2>4 DEF ReadFile
  <2>6. ReadFile(disk[target].holds) = loaded
        BY <2>3, <2>5
  <2>7. QED
        BY <2>1, <2>6 DEF DuplicateIsFaithful, Original
<1>2. QED
      BY <1>1, SaveInvariant, PTL

\* Whatever shape a value is written with, a reader knows the type.
LEMMA WrittenIsReadable ==
  ASSUME NEW N, NEW T, NEW v \in Values(N, T), Writable(v), NEW shape
  PROVE  Readable(Encode(v, shape))
<1>1. v.kind \in NumberKinds \cup {"string"}
      BY ValuesAreRecords DEF Writable
<1> DEFINE d == Encode(v, shape)
<1>2. d.type = IF v.kind = "string" THEN TextType ELSE TypeOf[v.kind]
      BY DEF Encode
<1> HIDE DEF d
<1>3. CASE v.kind = "string"
      BY <1>2, <1>3 DEF Readable, ElementGoType, TextType, d
<1>4. CASE v.kind \in NumberKinds
  <2>1. v.kind \notin {"string", "none"}
        BY <1>4 DEF NumberKinds, TypeOf
  <2>2. QED
        BY <1>2, <1>4, <2>1, KindsAreKnown DEF Readable, d
<1>5. QED
      BY <1>1, <1>3, <1>4

\* An item that was written can be read, as what it was but for what a file does
\* not keep.
LEMMA WrittenComesBack ==
  ASSUME SaveInv, NEW r \in Image, CanBeStored(r)
  PROVE  /\ Stored(r).kind = "field" => Readable(Stored(r).data)
         /\ \A a \in DOMAIN Stored(r).attrs \cap WellKnown : Stored(r).attrs[a] # "compound"
         /\ ComesBackAs(r, ReadObject(Stored(r)))
<1>1. PICK o \in Under[Root] : r = Item(NXPath[o], o)
      BY DEF Image
<1>2. o \in Objects
      BY <1>1, PathTypes DEF SaveInv
<1> DEFINE as == r.attrs
           s == Stored(r)
           l == ReadObject(s)
<1>3. /\ IsItem(r) /\ as = attrs[o].at
      /\ r.kind # "plain"
      /\ r.kind = "field" => o \in Fields /\ r.data = content[o]
  <2>1. r = [path |-> NXPath[o], kind |-> r.kind, attrs |-> attrs[o].at, data |-> r.data]
        BY <1>1, <1>2, ItemParts
  <2>2. IsItem(r) /\ r.attrs = attrs[o].at
        BY <2>1 DEF IsItem
  <2>3. QED
        BY <1>1, <1>2, <2>2, ItemParts
<1> HIDE DEF as
<1>4. /\ s.path = r.path /\ s.kind = r.kind /\ s.attrs = as
      /\ r.kind = "field" => s.data = Encode(r.data.value, r.data.shape)
      BY <1>3, StoredItem DEF as
<1> HIDE DEF s
<1>5. r.kind # "link" /\ \A a \in DOMAIN as : as[a] \in {"string", "float64", "int64"}
      BY DEF CanBeStored, CanBeMade, KnownTypes, as
<1>6. /\ l.path = r.path /\ l.kind = r.kind
      /\ l.attrs = [a \in DOMAIN as \cap WellKnown |-> ReadType(as[a])]
      /\ r.kind = "field" => l.data = Decode(s.data)
      BY <1>3, <1>4, <1>5 DEF ReadObject, ReadKind, ReadAttrs
<1> HIDE DEF l
<1>7. /\ DOMAIN l.attrs = DOMAIN as \cap WellKnown
      /\ \A a \in DOMAIN l.attrs : l.attrs[a] = "string" <=> as[a] = "string"
      BY <1>6 DEF ReadType
<1>8. ASSUME r.kind = "field"
      PROVE  r.data.value \in Values(Nat, Nat) /\ Writable(r.data.value)
  <2>1. content[o] \in Contents \cup {[value |-> Nil, shape |-> <<>>]}
        BY <1>3, <1>8 DEF SaveInv, FileInv, TypeOK
  <2>2. Writable(content[o].value)
        BY <1>3, <1>8 DEF CanBeStored, CanBeMade
  <2>3. ~Writable(Nil)
        BY DEF Writable, Nil
  <2>4. content[o] \in Contents
        BY <2>1, <2>2, <2>3
  <2>5. QED
        BY <1>3, <1>8, <2>2, <2>4, NXFileIOAssumption
<1>9. s.kind = "field" => Readable(s.data)
      BY <1>4, <1>8, WrittenIsReadable
<1>10. r.kind = "field" /\ Fits(r.data.value, r.data.shape) =>
         l.data = [value |-> Trimmed(r.data.value), shape |-> r.data.shape]
       BY <1>4, <1>6, <1>8, ValuesComeBack
<1>11. ComesBackAs(r, l)
       BY <1>6, <1>7, <1>10 DEF ComesBackAs, as
<1>12. QED
       BY <1>4, <1>5, <1>9, <1>11 DEF s, l

\* A tree that was saved to a file of its own, of whatever groups, fields,
\* values and attributes, can be loaded from it as long as neither was changed,
\* and is the same but for what ComesBackAs leaves out: Load never refuses what
\* Save has written (file.go:97-298, hdf5io.go:21-608).
THEOREM TreesComeBack == Spec => []RoundTrip
<1>1. SaveInv => RoundTrip
  <2> SUFFICES ASSUME SaveInv, twin # None, twin = target, mode = None
               PROVE  /\ result = "loaded"
                      /\ Cardinality(loaded) = Cardinality(Image)
                      /\ \A r \in Image : \E l \in loaded : ComesBackAs(r, l)
      BY DEF RoundTrip
  <2> DEFINE back == [r \in Image |-> ReadObject(Stored(r))]
             holds == disk[twin].holds
  <2>1. /\ twin \in Files /\ disk[twin].exists /\ disk[twin].legible
        /\ holds = {Stored(r) : r \in Image}
        /\ \A r \in Image : CanBeStored(r)
        BY DEF SaveInv, CallInv, TwinSound
  <2>2. \A r \in Image :
          /\ Stored(r).kind = "field" => Readable(Stored(r).data)
          /\ \A a \in DOMAIN Stored(r).attrs \cap WellKnown : Stored(r).attrs[a] # "compound"
          /\ ComesBackAs(r, back[r])
        BY <2>1, WrittenComesBack
  <2>3. CanRead(twin)
        BY <2>1, <2>2 DEF CanRead
  <2>4. result = "loaded" /\ loaded = ReadFile(holds)
    <3>1. result \in {"idle", "stamp", "write", "ok", "error", "loaded", "unreadable"}
          BY DEF SaveInv, FileInv, TypeOK
    <3>2. result \notin {"idle", "stamp", "write", "ok", "error", "unreadable"}
          BY <2>3 DEF SaveInv, CallInv, CallSound
    <3>3. result = "loaded"
          BY <3>1, <3>2
    <3>4. QED
          BY <3>3 DEF SaveInv, CallInv, CallSound
  <2>5. loaded = {back[r] : r \in Image}
        BY <2>1, <2>4 DEF ReadFile
  <2>6. \A r \in Image : back[r].path = r.path
        BY <2>2 DEF ComesBackAs
  <2>7. \A q, r \in Image : q.path = r.path => q = r
        BY ImageIsTree DEF SaveInv, IsTree
  <2>8. back \in [Image -> loaded]
        BY <2>5
  <2> HIDE DEF back
  <2>9. back \in Surjection(Image, loaded)
        BY <2>5, <2>8 DEF Surjection
  <2>10. Cardinality(loaded) = Cardinality(Image)
    <3>1. \A q, r \in Image : back[q] = back[r] => q = r
          BY <2>6, <2>7
    <3>2. back \in Injection(Image, loaded)
          BY <2>8, <3>1 DEF Injection, IsInjective
    <3>3. IsFiniteSet(loaded)
          BY DEF SaveInv, CallInv, LoadedSound
    <3>4. QED
          BY <2>9, <3>2, <3>3, FS_Injection
  <2>11. QED
         BY <2>2, <2>4, <2>5, <2>10
<1>2. QED
      BY <1>1, SaveInvariant, PTL
=============================================================================
