\* Two processes whose key file may be lost, three importing threads, three
\* handlers that rerun two seeds, actions at, below and beyond each ceiling.
SPECIFICATION Spec
CONSTANTS
  Procs = {"service", "desktop"}
  Commands = {"c1", "c2"}
  Home <- TwoRoots
  Keys = {k1, k2}
  KeysGetLost = TRUE
  Artifacts = {"corpus", "champion", "candidate"}
  Script <- Order
  Lineage <- Parents
  Models = {"champion", "candidate"}
  Sound = {"candidate"}
  Candidate = "candidate"
  MaxRecords = 3
  Importers = {"g1", "g2", "g3"}
  Batches <- AllBatches
  Handlers = {"t1", "t2", "t3"}
  Seeds = {1, 2}
  DefaultSeed = 1
  MaxMemory = 1
  MaxCpu = 1
  MaxTtl = 1
  Sizes = {0, 1, 2}
  Labels = {"ascii"}
  Ids = {1}
  MaxRows = 2
INVARIANTS
  OneKeyOfRecord
  ReadyProcessVerifies
  BootstrapDecidesFirst
  ImportIsBacked
  
  FailuresAreOvertaken
  AcceptedIsWithinEveryRule
  GateAndGatewayAgree
CHECK_DEADLOCK FALSE
