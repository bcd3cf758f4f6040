SPECIFICATION FairSpec
CONSTANTS
  root = root
  idle = idle
  box = box
  b1 = b1
  b2 = b2
  b21 = b21
  b22 = b22
  drive = drive
  d1 = d1
  d2 = d2
  dend = dend
  rootInitial = rootInitial
  boxInitial = boxInitial
  b2Initial = b2Initial
  driveInitial = driveInitial
  pick = pick
  boxShallow = boxShallow
  boxDeep = boxDeep
  warm = warm
  hatch = hatch
  work = work
  Sources = {idle, box, b1, b2, b21, d2}
  Targets = {idle, b2, b22, pick, boxShallow, warm, hatch}
  Vertices = {idle, box, b1, b2, b21, b22, drive, d1, d2, dend, rootInitial, boxInitial, b2Initial, driveInitial, pick, boxShallow, boxDeep, warm, hatch}
  Root = root
  Nothing = nothing
  Parent <- MCParent
  Ancestors <- MCAncestors
  Kind <- MCKind
  Initial <- MCInitial
  Outgoing <- MCOutgoing
  Defers <- MCDefers
  Timed = {box, b2, d1}
  EventNames <- MCEventNames
  AnyEvent = any
  InitialEvent = initial
  FinalEvent = final
  AbortBound = 2
  Off = off
INVARIANTS
  HistoryFaithful
PROPERTIES
  Terminates
