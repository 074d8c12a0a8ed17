SPECIFICATION Spec
CONSTANTS
  Keys <- MCKeys
  Walkers = {w1}
  Ranges <- MCRanges
  MaxVersion = 1
  None = None
PROPERTIES
  WalkNotMessedUp
