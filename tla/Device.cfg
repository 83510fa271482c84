SPECIFICATION DeviceSpec
CONSTANTS
    Draft = {d1, d2}
    Upload = {u1}
    Key = {k1, k2}
    NoKey = NoKey
    Text = {t1, t2}
    Request = {r1, r2}
    MaxRevision = 2
    MaxOrdinal = 1
    Device = {phone, laptop}
    HasStore = {phone}
    MaxEdits = 2
    LastRevision = 3
    MaxLost = 1
    MaxItems = 2
    MaxTrouble = 1
    MaxAcks = 1
SYMMETRY MCSymmetry
INVARIANTS
    PartsTypeOK
    TypeOK
    FrozenDraftIsTheSnapshot
    ReplayIsTheSameRequest
    
PROPERTIES
    EditorsKeepWork
CHECK_DEADLOCK FALSE
