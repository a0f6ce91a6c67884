SPECIFICATION Spec
CONSTANTS
    Setups = {s1}
    runtime = runtime
    private = private
    operator = operator
    Tasks = {runtime}
    Duties <- BracketDuties
    Qty = 2
    MaxLegs = 5
    Overlap = FALSE
    Network = "failing"
    Brackets = {"plain", "exact"}
    NoOne = NoOne
INVARIANTS TrackedExposureHoldsLock FillsAreReal ProtectionIsReal EngineLegsTracked
CHECK_DEADLOCK FALSE
