SPECIFICATION Spec
CONSTANTS
  root = root
  g1 = g1
  g2 = g2
  f1 = f1
  lf = lf
  lg = lg
  u = u
  v = v
  w = w
  None = None
  Root = root
  Groups = {root, g1, g2}
  LinkGroups = {}
  Fields = {f1}
  LinkFields = {}
  ClassOf <- Classes
  BornName <- Born
  AttrType <- Types
  ChildNames = {0, 1, 2}
  Given = {2}
  Parts <- PlainParts
  AttrNames = {u, v, w}
  FileAttr = w
  Annotated <- OfTheField
  x = x
  Files = {x, y}
  Modes = {"r", "a", "w", "x"}
  Foreign <- OtherTools
  Contents <- SomeContents
  Garbage = Garbage
  WellKnown = {u, w}
  MaxLost = 1
  MaxSaves = 1
SYMMETRY Symmetry
INVARIANTS
  OrderMatchesEntries
  PathsResolve
  ComponentIsComplete
  TypeOK
  SavedIsWhole
  NothingInvented
  RoundTrip
  DuplicateIsFaithful
  ViewsLeadOn
PROPERTIES
  OrderIsKept
  OthersKeepFiles
CHECK_DEADLOCK FALSE
