SPECIFICATION NightsSpec
CONSTANTS
  Blank = Blank
  NoScore = NoScore
  Order <- Fifteen
  Evenings <- Mixed
  MaxCourts = 2
  MaxPlace = 3
  MaxEdits = 2
  Draws <- TwoDraws
INVARIANTS NobodyTwice EqualCourtTime
PROPERTIES RoomForEverybody RiverRule BenchedOnlyForTheRested PlacementHonoured EveryoneOpens
CHECK_DEADLOCK FALSE
