SPECIFICATION ShortSpec
CONSTANTS
  Alice = Alice
  Bob = Bob
  NoPlayer = NoPlayer
  None = None
  Players = {Alice, Bob}
  Keys <- TheKeys
  Room <- TheRoom
  Rent = 1
  Funds = 2
  RoundMax = 2
  Items = {1}
  Hashes = {1, 2}
  MaxLag = 2
INVARIANT
  CaughtUp
PROPERTY
  ObserverComesBack
