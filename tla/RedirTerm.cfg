SPECIFICATION Spec
CONSTANTS
    Clients = {cli1, cli2}
    Room = 2
    InRoom = 1
    OutRoom = 1
    MaxOut = 2
    MaxIn = 1
    None = None
PROPERTIES
    TermEnds
\* Clients that have nothing more to do leave the reader waiting.
CHECK_DEADLOCK FALSE
