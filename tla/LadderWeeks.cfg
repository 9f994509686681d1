SPECIFICATION WeekSpec
CONSTANTS
  Nobody = Nobody
  e1 = e1
  e2 = e2
  e3 = e3
  e4 = e4
  q1 = q1
  q2 = q2
  Entrants <- Four
  Requests <- Two
  MaxChallenges = 3
  Order <- Rungs
  MaxRungs = 3
  Reorder = "swap"
  MaxOutgoing = 1
  MaxIncoming = 1
  Budget <- Most
INVARIANTS AgreedBeforeClaimed CapsHeld
PROPERTIES ResolvedOnce ChallengesEnd
CHECK_DEADLOCK FALSE
