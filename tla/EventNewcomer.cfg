SPECIFICATION SafetySpec
CONSTANTS
  c1 = c1
  c2 = c2
  c3 = c3
  e1 = e1
  e2 = e2
  Conns = {c1, c2, c3}
  Script <- LeaveScript
  FDs = {1, 2}
  Workers = {w1}
  Events = {e1, e2}
  KeyOf <- MCKeyOf
  Room = 2
  MayStall = FALSE
  MayLeave = TRUE
  None = None
INVARIANTS
  NewcomerKept
\* Clients that have nothing more to send leave the server idle.
CHECK_DEADLOCK FALSE
