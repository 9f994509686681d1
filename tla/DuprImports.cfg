SPECIFICATION FairSpec
CONSTANTS
    q1 = q1
    q2 = q2
    g1 = g1
    g2 = g2
    Requests = {q1, q2}
    Ticker = Ticker
    Free = Free
    Games = {g1, g2}
    Occasions <- Events
    duprMaxAttempts = 2
    duprPendingDeleteMaxAttempts = 4
INVARIANTS OnDuprOnce CorrectionsArrive
PROPERTIES BacklogsDrain
CHECK_DEADLOCK FALSE
