SPECIFICATION ServerSpec
CONSTANTS
    Requests = {r1}
    Limits = {1}
    Endings = {"eot"}
    Workers = 1
INVARIANTS
    CountersCoverAllRequests
CHECK_DEADLOCK FALSE
