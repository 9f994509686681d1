SPECIFICATION RacingSpec
CONSTANTS
  Blank = Blank
  NoScore = NoScore
  q1 = q1
  q2 = q2
  Order <- Five
  Starters = 5
  MaxCourts = 1
  Mode = "down"
  Planned = 0
  AutoAdvance = TRUE
  Requests <- Two
  Sweeper = Sweeper
  Janitor = Janitor
  MaxRounds = 3
  Budget <- RacingMost
INVARIANTS TypeOK TalliedPerClose NeverBricked
PROPERTIES StandsStill IsANight
SYMMETRY Alike
CHECK_DEADLOCK FALSE
