\* Vouching and lending.  The thresholds keep the order of the code's 300 and
\* 500, both terms are equal (30 epochs in the code), and 120% makes the coverage
\* of a loan of 2 round down to 2, which a stake of 1 does not meet.
CONSTANTS
  a1 = a1
  a2 = a2
  Accounts = {a1, a2}
  Vouches = {v1, v2}
  Loans = {l1, l2}
  NoVouch = NoVouch
  Deleted = Deleted
  NoLoan = NoLoan
  Scores = {0, 3}
  Amounts = {1, 2}
  InitialWallet <- MCInitialWallet
  MinVoucherScore = 3
  MinBorrowerScore = 2
  MinCollateralPct = 120
  LoanPerPoint = 1
  VouchDuration = 0
  LoanTerm = 0
  MaxU64 = 300
  MaxEpoch = 2
SYMMETRY MCSymmetry
SPECIFICATION Spec
INVARIANT CoinsConserved
INVARIANT SlashedOnlyAfterDefault
INVARIANT StakeFigureIsBacked
INVARIANT ActiveVouchCoversItsLoans
INVARIANT DefaultedLoanVouchIsRedeemable
PROPERTY CollateralReleasedToTheRightParty
