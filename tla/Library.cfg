SPECIFICATION PartsSpec
CONSTANTS
    None = None
    Routes = {x, y}
    Readers = {r1, r2}
    Wrap = 4
    Tags = {t, u}
    Garbage = Garbage
    Walkers = {w1, w2}
INVARIANTS
    TreeSound
    LookupsRight
    Containers
    NoMissedChange
    OldestFirst
    MarkerVersion
    InputWhole
    FunctionsRight
    ResourcesKept
PROPERTIES
    WalkComplete
    ImplementsRouteTable
    EffectsAsPromised
SYMMETRY Symmetry
\* Every part may end: functions are computed, bounds are met.
CHECK_DEADLOCK FALSE
