\* Two processes start, four clients register, one of them logs in.
SPECIFICATION AccountsSpec
CONSTANTS
    t1 = t1
    t2 = t2
    t3 = t3
    t4 = t4
    ann = ann
    bob = bob
    cat = cat
    ea = ea
    eb = eb
    bad = bad
    worse = worse
    w1 = w1
    w2 = w2
    Attempts = {t1, t2, t3, t4}
    Names = {ann, bob, cat}
    Emails = {ea, eb, bad, worse}
    Malformed = {bad, worse}
    Workers = {w1, w2}
    NameOf <- MCNameOf
    EmailOf <- MCEmailOf
    WorkerOf <- MCWorkerOf
    PasswordOf <- MCPasswordOf
    Clients = {t2}
    Week = 1
    MaxTime = 4
INVARIANTS
    AccountsTypeOK
    AccountsDistinct
    RefusalJustified
    HalfAccountOfFailure
    RaceHasWinner
    ServedWithTables
    AnswerForetellsLogin
    TokenOfOwner
    LastsAWeek
PROPERTIES
    HalfAccountStays
    RegistrationAnswered
    StartEnds
CHECK_DEADLOCK FALSE
