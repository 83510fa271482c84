SPECIFICATION SendingSpec
CONSTANTS
    Row = {o1}
    Worker = {w1, w2, w3}
    NoRow = NoRow
    AttemptCap = 2
    MaxSubmissions = 2
    MaxCopies = 2
    MaxCrashes = 2
    EarlyExpiry = TRUE
    Live = {1}
    MaxDrafts = 2
    MaxCalls = 2
    c1 = c1
    c2 = c2
    inboxPath = inboxPath
    archivePath = archivePath
    k1 = k1
    k2 = k2
    g1 = g1
    g2 = g2
    s1 = s1
    s2 = s2
    r1 = r1
    r2 = r2
    m1 = m1
    m2 = m2
    m3 = m3
    AuthSetting <- FourSignIns
    HomeSetting <- ThreeHomes
SYMMETRY MCSymmetry
INVARIANTS
    PartsTypeOK
    TypeOK
    SubmittedAtMostOnce
    LockedWhileUnresolved
    OutcomeIsTrue
    CopiesAreBacked
    OwnerIsFollowed
    RepliesAndNumbersAreTrue
    HomeShowsAll
PROPERTIES
    DefinitiveIsFinal
    KeepsPromise
    AccessIsRevoked
CHECK_DEADLOCK FALSE
