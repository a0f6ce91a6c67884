SPECIFICATION Spec
CONSTANTS
    Setups = {s1}
    runtime = runtime
    private = private
    operator = operator
    Tasks = {runtime}
    Duties <- RecoveryDuties
    Qty = 1
    MaxLegs = 4
    Overlap = FALSE
    Network = "reliable"
    Brackets = {"plain"}
    NoOne = NoOne
INVARIANT NoDuplicateStop
CHECK_DEADLOCK FALSE
