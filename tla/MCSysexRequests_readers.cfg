SPECIFICATION FairSpec
CONSTANTS
    r1 = r1
    r2 = r2
    r3 = r3
    r4 = r4
    a1 = a1
    a2 = a2
    None = None
    DATA = DATA
    REQUEST = REQUEST
    OBJECT_TYPE = OBJECT_TYPE
    Requests = {r1, r2, r3, r4}
    Types = {DATA, REQUEST, OBJECT_TYPE}
    Addresses = {a1, a2}
    RequestType <- MCType
    Levels <- MCLevels
    FollowUp <- MCFollowUp
    StopsAt = {r2}
    Retries = 1
    MaxDisturbances = 1
CHECK_DEADLOCK FALSE
INVARIANT TypeOK
INVARIANT AnsweredOnceByItsOwn
INVARIANT PendingIsHooked
INVARIANT NoHookMissed
INVARIANT NoDataLost
INVARIANT RetriesGoOn
PROPERTY NeverSentAgain
PROPERTY ImplementsService
PROPERTY EveryRequestAnswered
