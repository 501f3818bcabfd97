SPECIFICATION Spec
CONSTANTS
    Requests = {r1, r2}
    Users <- MCUsers
    Configs <- MCConfigs
    Table <- MCTable
    None = none
    NoModel = noModel
    Labels <- MCLabels
    NoLabel = noLabel
    Alphabet <- MCAlphabet
SYMMETRY Symmetric
INVARIANTS
    TypeOK
    FairShare
    RouteIsSound
    SemanticRouteIsSound
    StaleOnlyIfOverlapped
PROPERTIES
    ZeroTimeoutExplained
