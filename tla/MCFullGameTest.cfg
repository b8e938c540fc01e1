SPECIFICATION TestSpec
CONSTANTS
  P1 = P1
  P2 = P2
  NoPlayer = NoPlayer
  Players = {P1, P2}
  Keys <- TestKeys
  Bet = 1
  MaxAttempts = 20
  Rent = 1
  Funds = 3
  RoundMax = 255
  Items = {}
INVARIANT
  PlayedUntilFinished
CHECK_DEADLOCK FALSE
