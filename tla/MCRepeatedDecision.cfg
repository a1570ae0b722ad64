SPECIFICATION DecisionSpec
CONSTANTS
    MaxVersion = 4
    Rationales = {"why"}
    Portfolios = {"plan"}
    Observations = {"watch"}
    Replays = {"run"}
    MaxDecisions = 2
    MaxPlan = 2
CHECK_DEADLOCK FALSE
INVARIANT
    ReportedIsCurrent
