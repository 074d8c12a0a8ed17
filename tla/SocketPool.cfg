SPECIFICATION Spec
CONSTANTS
  Conns = {c1, c2}
  OwnConns = {c2}
  FDs = {1, 2}
  Workers = {w1, w2}
  App = app
  PipeCap = 8
  Modes = {FALSE, TRUE}
  AppMayClose = FALSE
  AppMayBreak = FALSE
  MaxSends = 1
  None = None
INVARIANTS
  TypeOK
  OneJobPerClient
  NoStaleJob
  MaxFdCovers
PROPERTIES
  ClosesOnlyRequested
  DataServed
  NoDescriptorLeak
  CloseHappens
