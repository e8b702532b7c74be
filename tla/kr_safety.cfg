SPECIFICATION KeyringSpec
CONSTANTS
  hd1 = hd1
  hd2 = hd2
  ed1 = ed1
  ed2 = ed2
  path1 = path1
  path2 = path2
  none = none
  NoLabel = none
  WalletId <- MCWalletId
  HdWallets <- MCHdWallets
  Identity <- MCIdentity
  Reach <- MCReach
  Label <- MCLabel
  Calls = {c1, c2}
  MaxWallets = 2
INVARIANTS
  WalletIdentitiesUnique
  PlainWalletsDisjoint
PROPERTIES
  KeyringOnlyGrows
