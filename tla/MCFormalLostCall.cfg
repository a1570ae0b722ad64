SPECIFICATION FormalSpec
CONSTANTS
    Runs = {q1}
    Rounds = {d1}
    Handlers = {h1}
    Kinds <- AllKinds
    Plans <- TwoCalls
    CallOutcomes = {"RESPONDED"}
    MaxBudget = 2
    MaxDisruptions = 1
    NoRound = NoRound
    Nobody = Nobody
CHECK_DEADLOCK FALSE
INVARIANT
    LostCallsAreRecoverable
