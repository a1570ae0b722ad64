CONSTANTS
    m1 = m1
    m2 = m2
    NoRound = NoRound
    NoMember = NoMember
    Members <- MCMembers
    MemberOrder <- MCOrder
    Moderator = m1
    Rounds <- MCOneRound
    Requests <- MCOneRequest
    MaxAttempts = 2
    MaxDisruptions = 0
    Dynamic = TRUE
    MemberCap = 1
    FollowUps = 0
    Required = 2
    MaxConsecutive = 1
    StoreFaults = FALSE
SPECIFICATION RoundSafetySpec
CHECK_DEADLOCK FALSE
PROPERTIES
    CancelledIsFinal
