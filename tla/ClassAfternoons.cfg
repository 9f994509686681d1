SPECIFICATION AfternoonSpec
CONSTANTS
  Nobody = Nobody
  a = a
  b = b
  c = c
  q1 = q1
  q2 = q2
  i1 = i1
  i2 = i2
  Players <- Booking
  Requests <- Two
  Intents <- Payments
  Seats = 1
  Priced = TRUE
  Granted = 1
  PackSize = 2
  Budget <- Most
INVARIANTS CreditsNeverMinted ChargedNotStranded SeatsInTurn
PROPERTIES RefundsArrive
CHECK_DEADLOCK FALSE
