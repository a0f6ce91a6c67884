SPECIFICATION Spec
CONSTANTS
    Setups = {s1}
    runtime = runtime
    private = private
    operator = operator
    Tasks = {runtime, private}
    Duties <- ExitDuties
    Qty = 1
    MaxLegs = 2
    Overlap = FALSE
    Network = "reliable"
    Brackets = {"plain"}
    NoOne = NoOne
PROPERTY ExitClosesTrade
CHECK_DEADLOCK FALSE
