SPECIFICATION FairSpec
CONSTANTS
  p1 = p1
  p2 = p2
  t1 = t1
  t2 = t2
  u = u
  a = a
  b = b
  c = c
  x = x
  Threads = {t1, t2, u}
  Processes = {p1, p2}
  Contexts = {a, b, c}
  Traces = {x}
  ProcessOf <- MCProcessOf
  TraceOf <- MCTraceOf
  Asked <- MCAsked
  TooBig = {p2}
  Permits = 1
  LateChange = FALSE
  MaxChanges = 1
  MaxFaults = 1
INVARIANTS GateTrue CacheOnce
PROPERTIES Answered
CHECK_DEADLOCK FALSE
