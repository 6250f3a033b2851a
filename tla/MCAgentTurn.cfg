SPECIFICATION Spec
CONSTANTS
    None = None
    Turns = {t1, t2}
    Users = {u1}
    Resv <- MCResv
    SessionOf <- OneSession
    UserOf <- OneUser
    Days = 2
    DailyCap = 1
    MonthlyCap = 1
    RateLimit = 1
    MaxTurns = 2
    MaxCalls = 2
    MaxRequests = 2
    Sizes = {1, 3}
    Crashes = 1
SYMMETRY Alike
INVARIANTS BooksBalance ChargesCoverBills PermitsBalance
PROPERTIES AnsweredAlone LeaseIsKept
CHECK_DEADLOCK FALSE
