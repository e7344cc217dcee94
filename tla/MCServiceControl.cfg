SPECIFICATION DeploymentSpec
CONSTANTS
  Calls = {c1}
  Pids = {p1, p2, p3}
  NoPid = NoPid
  MaxWait = 2
  IntOf <- Numbers
  PyIntOf <- PyNumbers
  TrueTexts = {"true", "1"}
  FalseTexts = {"false", "0"}
  PyTrueTexts = {"true", "1", "yes"}
  TempDir = "/tmp"
  Creatable = {"/tmp", "/cache"}
  Environments <- SomeEnvironments
  ConfigFiles <- SomeFiles
  MaxEdits = 1
INVARIANTS
  TypeOK
  NoOrphan
  StopStops
  RestartApplies
  
PROPERTY CommandsEnd
CHECK_DEADLOCK FALSE
