SPECIFICATION Spec
CONSTANTS
  alpha = alpha
  bravo = bravo
  home = home
  guest = guest
  control = control
  user = user
  a = a
  b = b
  Machines = {alpha, bravo}
  Contexts = {home, guest}
  Names = {a, b}
  Name <- MCName
  Id <- MCId
  Precedes <- MCPrecedes
  Home <- MCHome
  Cancellable = {guest}
  Groups <- MCGroups
  Clients = {control, user}
  Offers <- MCOffers
  Nested <- MCNested
  MaxNested = 1
  MaxCalls <- MCMaxCalls
  MaxQueued = 1
  None = none
CHECK_DEADLOCK FALSE
INVARIANTS
  TypeOK
  Findable
  ReachesAllStarted
PROPERTIES
  CallsEnd
