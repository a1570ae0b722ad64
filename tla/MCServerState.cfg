SPECIFICATION StateSpec
CONSTANTS
    Ops = {o1, o2}
    Procs = {p1, p2}
    Nobody = Nobody
    Server = Server
    NoOp = NoOp
    MaxMarkers = 7
    a1 = a1
    a2 = a2
    b1 = b1
    Targets <- MCTargets
    FamilyOf <- MCFamilyOf
    DependsOn <- MCDependsOn
    Builds <- MCBuilds
    PluginRooms = {room}
    PluginRounds = {round}
    PluginRequests = {q1, q2, q3}
    NoTarget = NoTarget
    MaxEvents = 3
SYMMETRY MCSymmetry
CHECK_DEADLOCK FALSE
INVARIANTS
    PendingIsRecoverable
    OutcomesAgree
    OnlyAuthorizedIsReplaced
    ServesOnlySettled
    VerifiedImagesStay
    CatalogStaysVerifiable
    FrozenResolutionsVerify
