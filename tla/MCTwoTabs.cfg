SPECIFICATION Spec
CONSTANTS
  hash1 = hash1
  ana = ana
  ben = ben
  cleo = cleo
  a1 = a1
  a2 = a2
  b1 = b1
  c1 = c1
  cellar = cellar
  None = None
  Clients = {a1, a2, b1}
  Wallets = {ana, ben}
  WalletOf <- AnaTwice
  Bets = {10}
  Rooms = {cellar}
  Requests <- Joining
  Reports = {}
  Ticks = {1}
  MaxRequests <- Once
  MaxMatches = 1
  MaxReports = 0
  MaxRestarts = 0
INVARIANT
  WalletInOnePlace
\* Users may stop sending, and every bound is reached at last.
CHECK_DEADLOCK FALSE
