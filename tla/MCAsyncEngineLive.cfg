SPECIFICATION NeverShutSpec
CONSTANTS
    Requests = {r1, r2}
    Limits = {2}
    Endings = {"length"}
    Workers = 1
PROPERTIES
    ServedStreamsEnd
    NoWorkerLeaks
    QueuesAreForgotten
CHECK_DEADLOCK FALSE
