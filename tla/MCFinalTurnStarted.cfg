SPECIFICATION DirectorSpec
CONSTANTS
    Runs = {q1}
    Rounds = {d1}
    Run = q1
    Round = d1
    Kinds <- CallKinds
    Speakers = {s1, s2}
    NoMember = NoMember
    NoRound = NoRound
    MaxBudget = 3
    MaxTurns = 2
    DirectorPlans <- MCPlans
    MaxDisruptions = 1
SYMMETRY Interchangeable
CHECK_DEADLOCK FALSE
INVARIANTS
    FinalTurnsSettled
