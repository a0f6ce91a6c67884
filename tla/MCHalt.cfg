SPECIFICATION Spec
CONSTANTS
    Setups = {s1}
    runtime = runtime
    private = private
    operator = operator
    Tasks = {runtime, private, operator}
    Duties <- HaltDuties
    Qty = 1
    MaxLegs = 2
    Overlap = TRUE
    Network = "reliable"
    Brackets = {"plain"}
    NoOne = NoOne
INVARIANTS TrackedExposureHoldsLock UnfilledVerdictIsTrue
CHECK_DEADLOCK FALSE
