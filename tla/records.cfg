SPECIFICATION Spec
CONSTANTS
    a = a
    b = b
    k = k
    l = l
    Clients <- TwoClients
    Keys <- TwoKeys
    MaxId = 2
    MaxFile = 3
SYMMETRY Symmetric
INVARIANTS TypeOK OneRecordPerKey FilesMatchRecords
PROPERTY HistoryKept
CONSTRAINT StillTelling
CHECK_DEADLOCK FALSE
