SPECIFICATION RecoverySpec
CONSTANTS
    s1 = s1
    Setups = {s1}
    runtime = runtime
    private = private
    Tasks = {runtime, private}
    Duties <- RecoveryDuties
    Qty = 1
    MaxLegs = 6
    Overlap = FALSE
    Network = "reliable"
    Brackets = {"plain"}
    NoOne = NoOne
INVARIANT ProtectionIsReal
PROPERTIES CleanPassSeesProtection PositionGetsProtected
CHECK_DEADLOCK FALSE
