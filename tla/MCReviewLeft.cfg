SPECIFICATION ReviewSpec
CONSTANTS
    Runs = {c, d}
    Reviewers = {u, v}
    Expected = 2
    MaxBudget = 2
    Kinds = {"manual_chatgpt_review"}
    Rounds = {}
    NoRound = NoRound
    Nobody = Nobody
CHECK_DEADLOCK FALSE
INVARIANTS
    LeftMeansSettled
