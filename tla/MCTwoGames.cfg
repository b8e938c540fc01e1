SPECIFICATION Spec
CONSTANTS
  Alice = Alice
  Bob = Bob
  NoPlayer = NoPlayer
  Players = {Alice, Bob}
  Keys <- TwoGames
  Rent = 1
  Funds = 4
  RoundMax = 2
  Items = {}
CONSTRAINT QuickRounds
PROPERTY
  ImplementsEscrow
\* A game whose round counter is at its limit accepts no instruction.
CHECK_DEADLOCK FALSE
