SPECIFICATION RecordSpec
CONSTANTS
  Blank = Blank
  NoScore = NoScore
  q1 = q1
  q2 = q2
  Order <- Seven
  Starters = 5
  MaxCourts = 1
  Mode = "down"
  Planned = 2
  AutoAdvance = FALSE
  Requests <- One
  Sweeper = Sweeper
  Janitor = Janitor
  MaxRounds = 3
  Budget <- RecordMost
INVARIANTS SeatedAsTheRosterSays GamesMatchBoard ScoresHaveSeats WinsMatchBoard ScorecardDecides
CHECK_DEADLOCK FALSE
