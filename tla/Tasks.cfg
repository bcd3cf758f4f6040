SPECIFICATION Spec
CONSTANTS
  busy = busy
  beat = beat
  rest = rest
  poll = poll
  fetch = fetch
  tick = tick
  timeout = timeout
  k1 = k1
  k2 = k2
  States = {busy, beat, rest}
  Activities = {poll, fetch}
  Operations = {fetch}
  Timers = {tick}
  Repeating = {tick}
  Owner <- MCOwner
  Starts <- MCStarts
  Target <- MCTarget
  Wishes = {beat, rest}
  Keys = {k1, k2}
  Caller = caller
  Faults = {"panic", "abort"}
  MaxQueued = 1
  Off = off
  None = none
SYMMETRY KeySymmetry
INVARIANTS
  TypeOK
  NoGhosts
  ReportedOnce
  Cancellable
  FindsMachine
PROPERTIES
  TasksWindDown
