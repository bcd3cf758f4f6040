SPECIFICATION Spec
CONSTANTS
  t1 = t1
  t2 = t2
  work1 = work1
  go = go
  call1 = call1
  call2 = call2
  set1 = set1
  initial = initial
  final = final
  root = root
  busy = busy
  inner = inner
  ready = ready
  end = end
  off = off
  None = None
  Threads = {t1, t2}
  Activities = {}
  Events = {go}
  Calls = {}
  Changes = {}
  Failing = {}
  Name <- NameOf
  Completions <- MCCompletions
  InitialEvent = initial
  FinalEvent = final
  States = {busy, inner, ready}
  FinalStates = {}
  Root = root
  Off = off
  Ancestors <- MCAncestors
  Defers <- MCDefers
  Submachines = {busy}
  MaxQueued = 1
  Api = {"dispatch", "stop"}
INVARIANTS
  StaysStopped
CHECK_DEADLOCK FALSE
