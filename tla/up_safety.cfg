SPECIFICATION ProfileSpec
CONSTANTS
  hd = hd
  path = path
  none = none
  s1 = s1
  s2 = s2
  NoLabel = none
  WalletId <- MCWallets
  HdWallets <- MCWallets
  Identity <- MCIdentity
  Reach <- MCReach
  Label = {none, label}
  Password = {p1}
  Calls = {c1}
  Stores <- MCStores
  MaxWallets = 1
SYMMETRY Symmetry
INVARIANTS
  PublishedWalletsAreCurrent
  VersionMatchesKeyring
  ResolvedStoreIsDurable
