SPECIFICATION RecordsSpec
CONSTANTS
    MaxVersion = 4
    Rationales = {"why"}
    Portfolios = {"plan"}
    Observations = {"watch"}
    Replays = {"run"}
    MaxDecisions = 2
    MaxPlan = 2
    ActionIds = {a, b}
    ItemStates = {open, done}
    RequestIds = {q, r}
    MaxSent = 4
    Runs = {c, d}
    Reviewers = {u, v, w}
    Expected = 3
    MaxBudget = 3
    Kinds = {"manual_chatgpt_review"}
    Rounds = {}
    NoRound = NoRound
    Nobody = Nobody
SYMMETRY MCSymmetry
CHECK_DEADLOCK FALSE
INVARIANTS
    RowsMatchLineage
    ValidationsFollowConfirmation
    AnswersStand
    NoUpdateIsLost
    DeskVerifies
    OneBudgetIsSpent
    SessionVerifies
PROPERTIES
    ReplacedDecisionsOnlyFinish
