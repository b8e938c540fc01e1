SPECIFICATION RoundsSpec
CONSTANTS
  Alice = Alice
  Bob = Bob
  Carol = Carol
  NoPlayer = NoPlayer
  Players = {Alice, Bob, Carol}
  Keys <- OneGame
  Rent = 1
  Funds = 2
  RoundMax = 3
  Items = {1, 2}
INVARIANTS
  TypeOK
  ChamberCount
  TurnMatchesChamber
  WinnerSurvives
  PotMatchesPhase
  TwoHitsARound
PROPERTY
  EveryInstructionAges
\* A game whose round counter is at its limit accepts no instruction.
CHECK_DEADLOCK FALSE
