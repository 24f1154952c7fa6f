SPECIFICATION FairSpec
CONSTANTS
    Main = main
    Workers = {worker}
    busy = busy
    other = other
    Sessions = {busy, other}
    Requests <- RequestsOf
    MaxRequests <- RequestBounds
    Faults = {"thread", "throw", "accept", "signal", "reset"}
    None = None
INVARIANTS TypeOK AnsweredInOrder
PROPERTIES EveryRequestServed ShutsDown
CHECK_DEADLOCK FALSE
