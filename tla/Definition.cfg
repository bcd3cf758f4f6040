SPECIFICATION Spec
CONSTANTS
  Skeletons <- MCSkeletons
  Surroundings <- MCSurroundings
  Roots <- MCRoots
  Submachine = "sub"
  StateNames = {"a"}
  FinalNames = {"e"}
  PointNames = {"x"}
  OperationNames = {"op"}
  AttributeNames = {"level"}
  Paths <- MCPaths
  Events <- MCEvents
  Functions = {"f"}
  Observers = {"o"}
  Observables <- MCObservables
  HookResults = {"accepts", "rejects"}
  Elements = 2
  Rounds = 2
INVARIANT
  TypeOK
  ReferencesResolve
  ListedBySource
  RedefineChangesNothing
  ObservedOnce
  LastHookWins
  EmbeddingKeepsValid
PROPERTY
  OperationsSurvive
CHECK_DEADLOCK FALSE
