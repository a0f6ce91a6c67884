SPECIFICATION Spec
CONSTANTS
    Setups = {s1}
    runtime = runtime
    private = private
    operator = operator
    Tasks = {runtime, operator}
    Duties <- KillDuties
    Qty = 1
    MaxLegs = 2
    Overlap = TRUE
    Network = "reliable"
    Brackets = {"plain"}
    NoOne = NoOne
INVARIANT KilledMeansDead
CHECK_DEADLOCK FALSE
