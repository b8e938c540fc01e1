SPECIFICATION Spec
CONSTANTS
  hash1 = hash1
  ana = ana
  ben = ben
  cleo = cleo
  a1 = a1
  a2 = a2
  b1 = b1
  c1 = c1
  cellar = cellar
  None = None
  Clients = {a1, a2, b1}
  Wallets = {ana, ben}
  WalletOf <- AnaTwice
  Bets = {10}
  Rooms = {cellar}
  Requests <- Reconnecting
  Reports = {}
  Ticks = {1}
  MaxRequests <- TwiceThenOnce
  MaxMatches = 2
  MaxReports = 0
  MaxRestarts = 0
INVARIANTS
  NoLostMatch
  RoomsAreTended
PROPERTY
  MatchIsDecided
\* Users may stop sending, and every bound is reached at last.
CHECK_DEADLOCK FALSE
