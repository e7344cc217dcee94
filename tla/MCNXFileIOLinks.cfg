SPECIFICATION Spec
CONSTANTS
  root = root
  g1 = g1
  g2 = g2
  f1 = f1
  lf = lf
  lg = lg
  u = u
  v = v
  w = w
  None = None
  Root = root
  Groups = {root}
  LinkGroups = {lg}
  Fields = {f1}
  LinkFields = {lf}
  ClassOf <- Classes
  BornName <- Born
  AttrType <- Types
  ChildNames = {0, 1, 2}
  Given = {1, 2}
  Parts <- PlainParts
  AttrNames = {u, v, w}
  FileAttr = w
  Annotated = {}
  x = x
  Files = {x}
  Modes = {"r", "rw", "a", "w", "x"}
  Foreign <- OtherTools
  Contents <- SomeContents
  Garbage = Garbage
  WellKnown = {w}
  MaxLost = 0
  MaxSaves = 1
INVARIANT LinksAreRefused
CHECK_DEADLOCK FALSE
