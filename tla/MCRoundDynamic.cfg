CONSTANTS
    m1 = m1
    m2 = m2
    NoRound = NoRound
    NoMember = NoMember
    Members <- MCMembers
    MemberOrder <- MCOrder
    Moderator = m1
    Rounds <- MCOneRound
    Requests <- MCOneRequest
    MaxAttempts = 2
    MaxDisruptions = 1
    Dynamic = TRUE
    MemberCap = 2
    FollowUps = 1
    Required = 2
    MaxConsecutive = 1
    StoreFaults = FALSE
SPECIFICATION RoundSafetySpec
CHECK_DEADLOCK FALSE
INVARIANTS
    RunningIsDriven
    CheckpointMatchesLedger
    NoReplay
    StreakRemembered
    FinishedRoundsAnswered
    CompletedIsClean
PROPERTIES
    InterjectionsYield
