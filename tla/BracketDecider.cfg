SPECIFICATION ReportsSpec
CONSTANTS
    d1 = d1
    d2 = d2
    Devices = {d1, d2}
    Free = Free
    Tournaments <- SmallEvent
INVARIANTS
    DeciderIsOfThisFinal
CHECK_DEADLOCK FALSE
