CONSTANTS
  v1 = v1
  v2 = v2
  w1 = w1
  w2 = w2
  Api = Api
  NoWallet = NoWallet
  Validators <- MCValidators
  Wallets <- MCWallets
  Window = 1
  MaxLedger = 4
  MaxNetRuns = 3
  MaxFundRuns = 3
SPECIFICATION Spec
CONSTRAINT FewRuns
SYMMETRY Symmetry
INVARIANTS TypeOK TrustAgrees FinishedIsComplete FundedHasSeed PaidOnceUnlessUnseen ReportedIsFunded
CHECK_DEADLOCK FALSE
