SPECIFICATION NobodySpec
CONSTANTS
  Blank = Blank
  NoScore = NoScore
  q1 = q1
  q2 = q2
  Order <- Four
  Starters = 4
  MaxCourts = 1
  Mode = "down"
  Planned = 0
  AutoAdvance = TRUE
  Requests <- One
  Sweeper = Sweeper
  Janitor = Janitor
  MaxRounds = 3
  Budget <- NobodyMost
PROPERTIES OverdueRoundsMoveOn AbandonedNightsEnd
CHECK_DEADLOCK FALSE
