SPECIFICATION Spec
CONSTANTS
    Requests <- MCRequests
    Users = {u, v}
    NoUser = NoUser
    None = None
    Contents <- MCContents
    Grace = 1
    MaxTime = 2
SYMMETRY Symmetric
INVARIANTS
    TypeOK
    OneVoucherEach
    QuotaHolds
    QueryExplained
CHECK_DEADLOCK FALSE
