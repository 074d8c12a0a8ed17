SPECIFICATION SafetySpec
CONSTANTS
  c1 = c1
  c2 = c2
  c3 = c3
  e1 = e1
  e2 = e2
  Conns = {c1, c2, c3}
  Script <- BusyScript
  FDs = {1, 2, 3}
  Workers = {w1, w2}
  Events = {e1, e2}
  KeyOf <- MCKeyOf
  Room = 1
  MayStall = FALSE
  MayLeave = FALSE
  None = None
INVARIANTS
  WholeEvents
\* Clients that have nothing more to send leave the server idle.
CHECK_DEADLOCK FALSE
