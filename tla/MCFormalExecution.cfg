SPECIFICATION FormalSpec
CONSTANTS
    Runs = {q1, q2}
    Rounds = {d1, d2}
    Handlers = {h1, h2}
    Kinds <- AllKinds
    Plans <- TwoCalls
    CallOutcomes = {"RESPONDED"}
    MaxBudget = 2
    MaxDisruptions = 1
    NoRound = NoRound
    Nobody = Nobody
SYMMETRY Interchangeable
CHECK_DEADLOCK FALSE
INVARIANTS
    LiveCallsStarted
    RequestsArePaid
    KeptRoundsHaveLedger
PROPERTIES
    ImplementsLedger
    ImplementsCallBudget
