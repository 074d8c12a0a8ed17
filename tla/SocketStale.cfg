SPECIFICATION SafetySpec
CONSTANTS
  Conns = {c1, c2}
  OwnConns = {}
  FDs = {1}
  Workers = {w1, w2}
  App = app
  PipeCap = 2
  Modes = {FALSE}
  AppMayClose = TRUE
  AppMayBreak = FALSE
  MaxSends = 1
  None = None
SYMMETRY Symmetry
PROPERTIES
  ClosesOnlyRequested
\* Two bytes of pipe may fill, and the service stops: see SocketPipe.cfg.
CHECK_DEADLOCK FALSE
