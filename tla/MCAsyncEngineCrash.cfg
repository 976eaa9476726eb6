SPECIFICATION FairSpec
CONSTANTS
    Requests = {r1, r2}
    Limits = {1}
    Endings = {"eot"}
    Workers = 2
PROPERTIES
    NoStreamHangs
CHECK_DEADLOCK FALSE
