SPECIFICATION Spec
CONSTANTS
  w1 = w1
  w2 = w2
  o1 = o1
  o2 = o2
  Calls = {c1, c2}
  Wallets <- TwoWallets
  Outputs <- TwoOutputs
  Owner <- BothFirst
  NoWallet = NoWallet
  NoOutput = NoOutput
  MaxOverlaps = 1
  MaxLater = 1
SYMMETRY Symmetry
INVARIANTS TypeOK CachesStayOwn KeysOfActiveWallet OwnTransfers
PROPERTY HistoryGrows
