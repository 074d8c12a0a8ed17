SPECIFICATION Spec
CONSTANTS
  Conns = {c1, c2}
  OwnConns = {}
  FDs = {1}
  Workers = {w1}
  App = app
  PipeCap = 8
  Modes = {FALSE, TRUE}
  AppMayClose = TRUE
  AppMayBreak = TRUE
  MaxSends = 1
  None = None
INVARIANTS
  NoForgottenClient
PROPERTIES
  Recovers
