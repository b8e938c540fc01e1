SPECIFICATION Spec
CONSTANTS
  hash1 = hash1
  ana = ana
  ben = ben
  cleo = cleo
  a1 = a1
  a2 = a2
  b1 = b1
  c1 = c1
  cellar = cellar
  None = None
  Clients = {a1, b1}
  Wallets = {ana, ben}
  WalletOf <- OneEach
  Bets = {10}
  Rooms = {cellar}
  Requests <- JoinAndRegister
  Reports = {"finished"}
  Ticks = {1}
  MaxRequests <- Thrice
  MaxMatches = 1
  MaxReports = 1
  MaxRestarts = 0
PROPERTY
  RefusedOnlyWhileActive
\* Users may stop sending, and every bound is reached at last.
CHECK_DEADLOCK FALSE
