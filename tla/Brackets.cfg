SPECIFICATION ReportsSpec
CONSTANTS
    d1 = d1
    d2 = d2
    Devices = {d1, d2}
    Free = Free
    Tournaments <- Events
INVARIANTS
    ResultsCarried
    PlayedByThoseInIt
    EventOver
    TwoLossesAndOut
    OneOutcome
    ConfirmedScoreCounts
PROPERTIES
    ResultsStand
CHECK_DEADLOCK FALSE
