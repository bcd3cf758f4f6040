SPECIFICATION Spec
CONSTANTS
  t1 = t1
  t2 = t2
  work1 = work1
  go = go
  call1 = call1
  call2 = call2
  set1 = set1
  initial = initial
  final = final
  root = root
  busy = busy
  inner = inner
  ready = ready
  end = end
  off = off
  None = None
  Threads = {t1, t2}
  Activities = {t2}
  Events = {work1, call1, set1}
  Calls = {call1}
  Changes = {set1}
  Failing = {}
  Name <- NameOf
  Completions <- MCCompletions
  InitialEvent = initial
  FinalEvent = final
  States = {busy, inner, ready, end}
  FinalStates = {end}
  Root = root
  Off = off
  Ancestors <- MCAncestors
  Defers <- BusyDefers
  Submachines = {busy}
  MaxQueued = 1
  Api = {"dispatch", "call", "activity", "reentrant", "operation"}
PROPERTIES
  RunToCompletion
