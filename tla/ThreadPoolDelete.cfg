SPECIFICATION SafetySpec
CONSTANTS
  Workers = {w1, w2}
  Jobs = {j1}
  Endless = {}
  Nobody = Nobody
INVARIANT AllThreadsShutDown
CHECK_DEADLOCK FALSE
