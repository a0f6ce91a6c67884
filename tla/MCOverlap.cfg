SPECIFICATION Spec
CONSTANTS
    Setups = {s1, s2}
    runtime = runtime
    private = private
    operator = operator
    Tasks = {runtime, private}
    Duties <- TradingDuties
    Qty = 1
    MaxLegs = 2
    Overlap = TRUE
    Network = "lossy"
    Brackets = {"plain"}
    NoOne = NoOne
SYMMETRY SetupSymmetry
INVARIANTS TypeOK ExposureHoldsLock UnfilledVerdictIsTrue
PROPERTIES FillsNeverRegress ImplementsSlot
CHECK_DEADLOCK FALSE
