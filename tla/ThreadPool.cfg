SPECIFICATION Spec
CONSTANTS
  Workers = {w1, w2, w3}
  Jobs = {j1, j2, j3, e1}
  Endless = {e1}
  Nobody = Nobody
INVARIANTS
  TypeOK
  NoLostWakeup
  EachJobOnce
  OnlyBusyLeftWaiting
PROPERTIES
  NoStartAfterShutdown
  KeepsPromise
  DeleteReturns
\* A deleted pool does nothing more.
CHECK_DEADLOCK FALSE
