SPECIFICATION ServerSpec
CONSTANTS
    Requests = {r1, r2}
    Limits = {2}
    Endings = {"eot"}
    Workers = 1
SYMMETRY Symmetric
INVARIANTS
    TypeOK
    NothingLostInDelivery
    EndsAreHonest
    ClosedMeansReleased
    NoLostWakeup
    AnswersAreComplete
    WholeAnswersAreCounted
CHECK_DEADLOCK FALSE
