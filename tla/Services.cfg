SPECIFICATION ServicesSpec
CONSTANTS
    m1 = m1
    m2 = m2
    p = p
    q = q
    s1 = s1
    r1 = r1
    r2 = r2
    d1 = d1
    d2 = d2
    w1 = w1
    w2 = w2
    t1 = t1
    p1 = p1
    p2 = p2
    r3 = r3
    r4 = r4
    Message = {m1, m2}
    Fetcher = {p}
    Bytes = {"b", "c"}
    First <- Same
    Other = "c"
    Unparsable = {}
    MaxBackups = 1
    MaxReaders = 0
    MaxFaults = 1
    Sender = {s1}
    SenderOf <- SentBy
    Ruled = {}
    Class = {"hidden"}
    Labels = {}
    Backfill = TRUE
    Cap = 1
    BatchLimit = 3
    Threshold = 2
    Window = 1
    Cooldown = 3
    MaxTime = 5
    MaxChanges = 0
    Device = {d1}
    Kind = {"reply_later"}
    Target = {}
    Choices = {}
    SavedWork = {w1, w2}
    MaxVersion = 4
    MaxGen = 1
    Pass = {p1, p2}
    MessageRow = {r1, r2, r3, r4}
    HeaderParse <- Reply
    FullParse <- Corrected
    Content <- Corrected
    Windows <- Arriving
    Generation = {gen1, gen2, gen3}
    NoGeneration = NoGeneration
    SendKey = {send1}
    ActionKey = {action1}
    MaxEffects = 2
    AccountCount = 1
    MaxGeneration = 2
    MaxWaiting = 1
    MaxStarts = 2
    Recipient = {1, 2}
    MaxAttempts = 2
    MaxTickets = 3
    MaxReads = 1
    LastStart = "off"
    Files = {Picture}
    MaxCopies = 3
    AllMail = {4, 5, 6}
    Old = {4, 5}
    SentOnly = {1, 2, 3, 4}
    PageSize = 1
    RequestCap = 1
    OffsetCap = 3
    MaxCommands = 0
INVARIANTS
    PartsTypeOK
    RestoreIsSafe
    OriginalsAreIntact
    SpendingIsBounded
    
    ListSkipsNothing
    VerdictIsSound
    NewestEditShows
    FilesAreKept
PROPERTIES
    WorkIsKept
    RolesAreStable
    WorkerReports
CHECK_DEADLOCK FALSE
