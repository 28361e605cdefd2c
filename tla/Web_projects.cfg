SPECIFICATION ProjectsSpec
CONSTANTS
  Holders <- HoldersDef
  MaxRequests <- MaxRequestsDef
  MaxDeploys = 2
  MaxLines = 1
  ReplayBuf = 2
  ChanCap = 1
  MaxVersions = 3
  TagNames = {"r1", "r2"}
  MaxSchedules = 2
  Texts = {"a", "b"}
  EnvKeys = {"k", "j"}
  MaxVars = 1
  MaxSaved = 2
  Boxes = {"b1", "b2"}
  MaxProjects = 3
  PerPage = 2
  MaxLog = 4
  LogKeep = 2
  LogTail = 1
INVARIANTS DeployingIsTrue OutcomeIsTold LogIsPublished ReleasesShown
  EditorsShowSaved  PipelineIsTrue OneWrite BusyEnds
  
PROPERTIES  SessionIsTrue
CHECK_DEADLOCK FALSE
