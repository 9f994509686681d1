SPECIFICATION Spec
CONSTANTS
  Blank = Blank
  NoScore = NoScore
  q1 = q1
  q2 = q2
  Order <- Six
  Starters = 5
  MaxCourts = 1
  Mode = "down"
  Planned = 0
  AutoAdvance = FALSE
  Requests <- Two
  Sweeper = Sweeper
  Janitor = Janitor
  MaxRounds = 3
  Budget <- Joining
INVARIANTS NeverBricked
CHECK_DEADLOCK FALSE
