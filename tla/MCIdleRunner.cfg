CONSTANTS
    r1 = r1
    m1 = m1
    m2 = m2
    w1 = w1
    w2 = w2
    NoRunner = NoRunner
    Round = Round
    NoMember = NoMember
    Requests <- MCRequests
    Members <- MCMembers
    Runners <- MCRunners
    MaxDisruptions = 2
    MaxAttempts = 3
SPECIFICATION IdleSpec
PROPERTIES
    RequestsTerminate
    ImplementsAnswerOnce
INVARIANTS
    ClaimsAreHeld
    CallsAreExplained
    RequestAgreesWithTargets
