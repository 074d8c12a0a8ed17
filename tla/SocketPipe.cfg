SPECIFICATION Spec
CONSTANTS
  Conns = {c1, c2, c3}
  OwnConns = {}
  FDs = {1, 2, 3}
  Workers = {w1}
  App = app
  PipeCap = 2
  Modes = {FALSE}
  AppMayClose = FALSE
  AppMayBreak = FALSE
  MaxSends = 0
  None = None
PROPERTIES
  ConnectionsHandled
\* The deadlock is the counterexample.
CHECK_DEADLOCK FALSE
