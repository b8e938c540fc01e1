SPECIFICATION Spec
CONSTANTS
  hash1 = hash1
  ana = ana
  ben = ben
  cleo = cleo
  a1 = a1
  a2 = a2
  b1 = b1
  c1 = c1
  cellar = cellar
  None = None
  Clients = {a1, b1, c1}
  Wallets = {ana, ben, cleo}
  WalletOf <- OneEach
  Bets = {10, 20}
  Rooms = {cellar}
  Requests <- Matching
  Reports = {}
  Ticks = {1}
  MaxRequests <- AnaThrice
  MaxMatches = 2
  MaxReports = 0
  MaxRestarts = 0
INVARIANTS
  WalletInOnePlace
  SessionsAgree
  NobodyWaitsTogether
PROPERTIES
  RaceHasOneWinner
  ImplementsLobby
\* Users may stop sending, and every bound is reached at last.
CHECK_DEADLOCK FALSE
