---------------------------- MODULE LendingProofs ----------------------------
(***************************************************************************)
(* Proofs about Lending, for any number of accounts, vouches and loans and *)
(* any thresholds: type correctness, then one inductive invariant that     *)
(* carries the safety properties, then the action properties.              *)
(***************************************************************************)
EXTENDS Lending, FiniteSums, TLAPS

\* What ties the clocks of vouches and loans together.
VouchNotFromTheFuture ==
  \A v \in Vouches : Live(v) => vouches[v].expires <= epoch + VouchDuration

VouchExpiresNoLaterThanItsLoans ==
  \A l \in Loans : Issued(l) =>
    /\ vouches[loans[l].vouch] # NoVouch
    /\ Live(loans[l].vouch) =>
         vouches[loans[l].vouch].expires <= loans[l].due

DefaultedIsOverdue ==
  \A l \in Loans : Issued(l) /\ loans[l].defaulted => epoch > loans[l].due

\* The inductive invariant, relative to TypeOK.
LendingInv ==
  /\ VouchNotFromTheFuture
  /\ VouchExpiresNoLaterThanItsLoans
  /\ DefaultedIsOverdue
  /\ SlashedOnlyAfterDefault
  /\ StakeFigureIsBacked
  /\ ActiveVouchCoversItsLoans
  /\ SettledOnce

-----------------------------------------------------------------------------
\* Coins move between accounts without leaving the natural numbers.
LEMMA WalletMoves ==
  ASSUME NEW w \in [Accounts -> Nat], NEW a \in Accounts, NEW x \in Nat
  PROVE  /\ Deposit(w, a, x) \in [Accounts -> Nat]
         /\ x <= w[a] => Withdraw(w, a, x) \in [Accounts -> Nat]
BY SMT DEF Deposit, Withdraw

\* Every variable keeps its type.
THEOREM TypeCorrect == Spec => []TypeOK
<1> USE LendingNumbers, ZeroScore, Sentinels
<1>1. Init => TypeOK
  BY DEF Init, TypeOK
<1>2. TypeOK /\ [Next]_vars => TypeOK'
  <2> SUFFICES ASSUME TypeOK, [Next]_vars PROVE TypeOK'
    OBVIOUS
  <2>1. CASE AdvanceEpoch
    BY <2>1 DEF AdvanceEpoch, TypeOK
  <2>2. ASSUME NEW a \in Accounts, NEW s \in Scores, UpdateCredit(a, s)
        PROVE TypeOK'
    BY <2>2 DEF UpdateCredit, TypeOK
  <2>3. ASSUME NEW v \in Vouches, NEW sender \in Accounts,
               NEW cited \in Accounts, NEW vouchee \in Accounts,
               NEW stake \in Amounts,
               CreateVouch(v, sender, cited, vouchee, stake)
        PROVE TypeOK'
    <3>1. wallet' \in [Accounts -> Nat]
      BY <2>3, WalletMoves DEF CreateVouch, Owns, TypeOK
    <3>2. vouches' \in [Vouches -> VouchRec \cup {NoVouch, Deleted}]
      BY <2>3 DEF CreateVouch, TypeOK, VouchRec
    <3> QED BY <2>3, <3>1, <3>2 DEF CreateVouch, TypeOK
  <2>4. ASSUME NEW l \in Loans, NEW v \in Vouches, NEW lender \in Accounts,
               NEW borrower \in Accounts, NEW funder \in Accounts,
               NEW amount \in Amounts, NEW collateral \in Amounts,
               IssueLoan(l, v, lender, borrower, funder, amount, collateral)
        PROVE TypeOK'
    <3>1. wallet' \in [Accounts -> Nat]
      BY <2>4, WalletMoves DEF IssueLoan, Owns, TypeOK
    <3>2. loans' \in [Loans -> LoanRec \cup {NoLoan}]
      BY <2>4 DEF IssueLoan, TypeOK, LoanRec
    <3> QED BY <2>4, <3>1, <3>2 DEF IssueLoan, TypeOK
  <2>5. ASSUME NEW l \in Loans, NEW payer \in Accounts,
               NEW repayment \in Amounts, RepayLoan(l, payer, repayment)
        PROVE TypeOK'
    <3>1. loans[l] \in LoanRec
      BY <2>5 DEF RepayLoan, TypeOK, Issued
    <3>2. Withdraw(wallet, payer, repayment) \in [Accounts -> Nat]
      BY <2>5, WalletMoves DEF RepayLoan, Owns, TypeOK
    <3>3. Deposit(Withdraw(wallet, payer, repayment), loans[l].borrower,
                  loans[l].collateral) \in [Accounts -> Nat]
      BY <3>1, <3>2, WalletMoves DEF LoanRec
    <3>4. wallet' \in [Accounts -> Nat]
      BY <2>5, <3>1, <3>3, WalletMoves DEF RepayLoan, CollateralReturnsTo, LoanRec
    <3>5. loans' \in [Loans -> LoanRec \cup {NoLoan}]
      BY <2>5, <3>1 DEF RepayLoan, CollateralWithdrawn, TypeOK, LoanRec
    <3> QED BY <2>5, <3>4, <3>5 DEF RepayLoan, TypeOK
  <2>6. ASSUME NEW l \in Loans, MarkLoanDefaulted(l)
        PROVE TypeOK'
    BY <2>6 DEF MarkLoanDefaulted, Issued, TypeOK, LoanRec
  <2>7. ASSUME NEW l \in Loans, NEW v \in Vouches, SlashDefaultedVouch(l, v)
        PROVE TypeOK'
    <3>1. loans[l] \in LoanRec /\ vouches[v] \in VouchRec
      BY <2>7 DEF SlashDefaultedVouch, TypeOK, Issued, Live
    <3>2. wallet' \in [Accounts -> Nat]
      BY <2>7, <3>1, WalletMoves DEF SlashDefaultedVouch, TypeOK, LoanRec, VouchRec
    <3>3. loans' \in [Loans -> LoanRec \cup {NoLoan}]
      BY <2>7, <3>1 DEF SlashDefaultedVouch, CollateralWithdrawn, TypeOK, LoanRec
    <3>4. vouches' \in [Vouches -> VouchRec \cup {NoVouch, Deleted}]
      BY <2>7, <3>1 DEF SlashDefaultedVouch, SlashForDefault, TypeOK, VouchRec
    <3> QED BY <2>7, <3>2, <3>3, <3>4 DEF SlashDefaultedVouch, TypeOK
  <2>8. ASSUME NEW v \in Vouches, RedeemExpired(v)
        PROVE TypeOK'
    <3>1. vouches[v] \in VouchRec
      BY <2>8 DEF RedeemExpired, TypeOK, Live
    <3>2. wallet' \in [Accounts -> Nat]
      BY <2>8, <3>1, WalletMoves DEF RedeemExpired, TypeOK, VouchRec
    <3> QED BY <2>8, <3>2 DEF RedeemExpired, TypeOK
  <2>9. CASE UNCHANGED vars
    BY <2>9 DEF vars, TypeOK
  <2> QED
    BY <2>1, <2>2, <2>3, <2>4, <2>5, <2>6, <2>7, <2>8, <2>9 DEF Next
<1> QED BY <1>1, <1>2, PTL DEF Spec

-----------------------------------------------------------------------------
(***************************************************************************)
(* One lemma per action: what it does to a live vouch and an issued loan   *)
(* preserves LendingInv.  InvDefs is not an operator: the definitions of   *)
(* the conjuncts are expanded where they are used.                         *)
(***************************************************************************)
LEMMA CreateVouchInv ==
  ASSUME TypeOK, TypeOK', LendingInv,
         NEW v \in Vouches, NEW sender \in Accounts, NEW cited \in Accounts,
         NEW vouchee \in Accounts, NEW stake \in Amounts,
         CreateVouch(v, sender, cited, vouchee, stake)
  PROVE  LendingInv'
<1> USE LendingNumbers, Sentinels DEF CreateVouch, Live, Issued, TypeOK, LendingInv
<1>1. \A u \in Vouches : u # v => vouches'[u] = vouches[u]
  OBVIOUS
<1>2. vouches'[v] = [voucher |-> sender, vouchee |-> vouchee, stake |-> stake,
        balance |-> stake, expires |-> epoch + VouchDuration, active |-> TRUE]
  OBVIOUS
<1>3. \A l \in Loans : Issued(l) => loans[l] \in LoanRec
                                    /\ loans[l].vouch \in Vouches \ {v}
  BY DEF LoanRec, VouchExpiresNoLaterThanItsLoans
<1>4. VouchNotFromTheFuture'
  BY <1>1, <1>2 DEF VouchNotFromTheFuture, VouchRec
<1>5. VouchExpiresNoLaterThanItsLoans'
  BY <1>1, <1>3 DEF VouchExpiresNoLaterThanItsLoans
<1>6. DefaultedIsOverdue'
  BY DEF DefaultedIsOverdue
<1>7. SlashedOnlyAfterDefault'
  BY <1>1, <1>2 DEF SlashedOnlyAfterDefault
<1>8. StakeFigureIsBacked'
  BY <1>1, <1>2 DEF StakeFigureIsBacked
<1>9. ActiveVouchCoversItsLoans'
  BY <1>1, <1>3 DEF ActiveVouchCoversItsLoans
<1>10. SettledOnce'
  BY DEF SettledOnce
<1> QED BY <1>4, <1>5, <1>6, <1>7, <1>8, <1>9, <1>10

LEMMA IssueLoanInv ==
  ASSUME TypeOK, TypeOK', LendingInv,
         NEW k \in Loans, NEW v \in Vouches, NEW lender \in Accounts,
         NEW borrower \in Accounts, NEW funder \in Accounts,
         NEW amount \in Amounts, NEW collateral \in Amounts,
         IssueLoan(k, v, lender, borrower, funder, amount, collateral)
  PROVE  LendingInv'
<1> USE LendingNumbers, Sentinels DEF IssueLoan, Live, Issued, TypeOK, LendingInv
<1>1. \A l \in Loans : l # k => loans'[l] = loans[l]
  OBVIOUS
<1>2. loans'[k] =
       [borrower |-> borrower, lender |-> lender, amount |-> amount,
        collateral |-> collateral, vouch |-> v, due |-> epoch + LoanTerm,
        repaid |-> FALSE, defaulted |-> FALSE]
  OBVIOUS
<1>3. vouches[v] \in VouchRec /\ vouches[v].expires \in Nat
  BY DEF VouchRec
<1>4. VouchNotFromTheFuture'
  BY DEF VouchNotFromTheFuture
<1>5. VouchExpiresNoLaterThanItsLoans'
  BY <1>1, <1>2, <1>3, VouchNotLongerThanLoan
     DEF VouchExpiresNoLaterThanItsLoans, VouchNotFromTheFuture
<1>6. DefaultedIsOverdue'
  BY <1>1, <1>2 DEF DefaultedIsOverdue
<1>7. SlashedOnlyAfterDefault'
  BY <1>1, <1>2 DEF SlashedOnlyAfterDefault
<1>8. StakeFigureIsBacked'
  BY DEF StakeFigureIsBacked
<1>9. ActiveVouchCoversItsLoans'
  BY <1>1, <1>2 DEF ActiveVouchCoversItsLoans, VerifyVouchCoverage
<1>10. SettledOnce'
  BY <1>1, <1>2 DEF SettledOnce
<1> QED BY <1>4, <1>5, <1>6, <1>7, <1>8, <1>9, <1>10

LEMMA RepayLoanInv ==
  ASSUME TypeOK, TypeOK', LendingInv,
         NEW k \in Loans, NEW payer \in Accounts, NEW repayment \in Amounts,
         RepayLoan(k, payer, repayment)
  PROVE  LendingInv'
<1> USE LendingNumbers, Sentinels DEF RepayLoan, Live, Issued, TypeOK, LendingInv
<1>1. \A l \in Loans : l # k => loans'[l] = loans[l]
  OBVIOUS
<1>2. loans[k] \in LoanRec
  OBVIOUS
<1>3. /\ loans'[k].repaid /\ ~loans'[k].defaulted
      /\ loans'[k].collateral = 0
      /\ loans'[k].borrower = loans[k].borrower
      /\ loans'[k].lender = loans[k].lender
      /\ loans'[k].vouch = loans[k].vouch
      /\ loans'[k].amount = loans[k].amount
      /\ loans'[k].due = loans[k].due
  BY <1>2 DEF Open, CollateralWithdrawn, LoanRec
<1>4. VouchNotFromTheFuture'
  BY DEF VouchNotFromTheFuture
<1>5. VouchExpiresNoLaterThanItsLoans'
  BY <1>1, <1>3 DEF VouchExpiresNoLaterThanItsLoans
<1>6. DefaultedIsOverdue'
  BY <1>1, <1>3 DEF DefaultedIsOverdue
<1>7. SlashedOnlyAfterDefault'
  BY <1>1, <1>2, <1>3 DEF SlashedOnlyAfterDefault, Open
<1>8. StakeFigureIsBacked'
  BY DEF StakeFigureIsBacked
<1>9. ActiveVouchCoversItsLoans'
  BY <1>1, <1>3 DEF ActiveVouchCoversItsLoans
<1>10. SettledOnce'
  BY <1>1, <1>3 DEF SettledOnce
<1> QED BY <1>4, <1>5, <1>6, <1>7, <1>8, <1>9, <1>10

LEMMA MarkLoanDefaultedInv ==
  ASSUME TypeOK, TypeOK', LendingInv, NEW k \in Loans, MarkLoanDefaulted(k)
  PROVE  LendingInv'
<1> USE LendingNumbers, Sentinels DEF MarkLoanDefaulted, Live, Issued, TypeOK, LendingInv
<1>1. \A l \in Loans : l # k => loans'[l] = loans[l]
  OBVIOUS
<1>2. loans[k] \in LoanRec
  OBVIOUS
<1>3. /\ loans'[k].defaulted /\ ~loans'[k].repaid
      /\ loans'[k].borrower = loans[k].borrower
      /\ loans'[k].lender = loans[k].lender
      /\ loans'[k].vouch = loans[k].vouch
      /\ loans'[k].amount = loans[k].amount
      /\ loans'[k].due = loans[k].due
  BY <1>2 DEF Open, LoanRec
<1>4. VouchNotFromTheFuture'
  BY DEF VouchNotFromTheFuture
<1>5. VouchExpiresNoLaterThanItsLoans'
  BY <1>1, <1>3 DEF VouchExpiresNoLaterThanItsLoans
<1>6. DefaultedIsOverdue'
  BY <1>1, <1>3 DEF DefaultedIsOverdue, Overdue
<1>7. SlashedOnlyAfterDefault'
  BY <1>1, <1>3 DEF SlashedOnlyAfterDefault, Open, Overdue
<1>8. StakeFigureIsBacked'
  BY DEF StakeFigureIsBacked
<1>9. ActiveVouchCoversItsLoans'
  BY <1>1, <1>3 DEF ActiveVouchCoversItsLoans
<1>10. SettledOnce'
  BY <1>1, <1>3 DEF SettledOnce, Open
<1> QED BY <1>4, <1>5, <1>6, <1>7, <1>8, <1>9, <1>10

LEMMA SlashDefaultedVouchInv ==
  ASSUME TypeOK, TypeOK', LendingInv,
         NEW k \in Loans, NEW v \in Vouches, SlashDefaultedVouch(k, v)
  PROVE  LendingInv'
<1> USE LendingNumbers, Sentinels DEF SlashDefaultedVouch, Live, Issued, TypeOK, LendingInv
<1>1. /\ \A l \in Loans : l # k => loans'[l] = loans[l]
      /\ \A u \in Vouches : u # v => vouches'[u] = vouches[u]
  OBVIOUS
<1>2. loans[k] \in LoanRec /\ vouches[v] \in VouchRec
  OBVIOUS
<1>3. /\ loans'[k].defaulted = loans[k].defaulted
      /\ loans'[k].repaid = loans[k].repaid
      /\ loans'[k].collateral = 0
      /\ loans'[k].borrower = loans[k].borrower
      /\ loans'[k].lender = loans[k].lender
      /\ loans'[k].vouch = loans[k].vouch
      /\ loans'[k].amount = loans[k].amount
      /\ loans'[k].due = loans[k].due
  BY <1>2 DEF CollateralWithdrawn, LoanRec
<1>4. /\ ~vouches'[v].active /\ vouches'[v].balance = 0 /\ vouches'[v].stake = 0
      /\ vouches'[v].vouchee = vouches[v].vouchee
      /\ vouches'[v].expires = vouches[v].expires
      /\ vouches'[v] \in VouchRec
  BY <1>2 DEF SlashForDefault, VouchRec
<1>5. /\ loans'[k].defaulted /\ loans'[k].borrower = vouches'[v].vouchee
      /\ epoch > loans'[k].due
  BY <1>2, <1>3, <1>4 DEF Slashable, DefaultedIsOverdue
<1>6. VouchNotFromTheFuture'
  BY <1>1, <1>4 DEF VouchNotFromTheFuture
<1>7. VouchExpiresNoLaterThanItsLoans'
  BY <1>1, <1>3, <1>4 DEF VouchExpiresNoLaterThanItsLoans
<1>8. DefaultedIsOverdue'
  BY <1>1, <1>3 DEF DefaultedIsOverdue
<1>9. SlashedOnlyAfterDefault'
  <2>1. loans'[k] # NoLoan /\ epoch' = epoch
    BY <1>2 DEF CollateralWithdrawn, LoanRec
  <2> SUFFICES ASSUME NEW u \in Vouches, Live(u)', ~vouches'[u].active
               PROVE  \E l \in Loans : /\ loans'[l] # NoLoan
                                       /\ loans'[l].borrower = vouches'[u].vouchee
                                       /\ loans'[l].defaulted
                                       /\ epoch > loans'[l].due
    BY <2>1 DEF SlashedOnlyAfterDefault
  <2>2. CASE u = v
    BY <1>5, <2>1, <2>2
  <2>3. CASE u # v
    <3>1. PICK l \in Loans : /\ loans[l] # NoLoan
                             /\ loans[l].borrower = vouches[u].vouchee
                             /\ loans[l].defaulted
                             /\ epoch > loans[l].due
      BY <1>1, <2>3 DEF SlashedOnlyAfterDefault
    <3> QED BY <1>1, <1>3, <2>1, <2>3, <3>1
  <2> QED BY <2>2, <2>3
<1>10. StakeFigureIsBacked'
  BY <1>1, <1>4 DEF StakeFigureIsBacked
<1>11. ActiveVouchCoversItsLoans'
  BY <1>1, <1>3, <1>4 DEF ActiveVouchCoversItsLoans
<1>12. SettledOnce'
  BY <1>1, <1>3 DEF SettledOnce
<1> QED BY <1>6, <1>7, <1>8, <1>9, <1>10, <1>11, <1>12

LEMMA RedeemExpiredInv ==
  ASSUME TypeOK, TypeOK', LendingInv, NEW v \in Vouches, RedeemExpired(v)
  PROVE  LendingInv'
<1> USE LendingNumbers, Sentinels DEF RedeemExpired, Live, Issued, TypeOK, LendingInv
<1>1. vouches'[v] = Deleted /\ \A u \in Vouches : u # v => vouches'[u] = vouches[u]
  OBVIOUS
<1>2. VouchNotFromTheFuture'
  BY <1>1 DEF VouchNotFromTheFuture
<1>3. VouchExpiresNoLaterThanItsLoans'
  BY <1>1 DEF VouchExpiresNoLaterThanItsLoans
<1>4. DefaultedIsOverdue'
  BY DEF DefaultedIsOverdue
<1>5. SlashedOnlyAfterDefault'
  BY <1>1 DEF SlashedOnlyAfterDefault
<1>6. StakeFigureIsBacked'
  BY <1>1 DEF StakeFigureIsBacked
<1>7. ActiveVouchCoversItsLoans'
  BY <1>1 DEF ActiveVouchCoversItsLoans
<1>8. SettledOnce'
  BY DEF SettledOnce
<1> QED BY <1>2, <1>3, <1>4, <1>5, <1>6, <1>7, <1>8

-----------------------------------------------------------------------------
\* Every reachable state satisfies the inductive invariant.
THEOREM LendingInvariant == Spec => []LendingInv
<1>1. Init => LendingInv
  BY Sentinels DEF Init, LendingInv, Live, Issued, VouchNotFromTheFuture,
     VouchExpiresNoLaterThanItsLoans, DefaultedIsOverdue, SlashedOnlyAfterDefault,
     StakeFigureIsBacked, ActiveVouchCoversItsLoans, SettledOnce
<1>2. TypeOK /\ TypeOK' /\ LendingInv /\ [Next]_vars => LendingInv'
  <2> SUFFICES ASSUME TypeOK, TypeOK', LendingInv, [Next]_vars PROVE LendingInv'
    OBVIOUS
  <2>1. CASE AdvanceEpoch
    BY <2>1, LendingNumbers DEF AdvanceEpoch, LendingInv, TypeOK, Live, Issued,
       VouchNotFromTheFuture, VouchExpiresNoLaterThanItsLoans, DefaultedIsOverdue,
       SlashedOnlyAfterDefault, StakeFigureIsBacked, ActiveVouchCoversItsLoans,
       SettledOnce, VouchRec, LoanRec
  <2>2. ASSUME UNCHANGED <<epoch, vouches, loans>> PROVE LendingInv'
    BY <2>2 DEF LendingInv, Live, Issued,
       VouchNotFromTheFuture, VouchExpiresNoLaterThanItsLoans, DefaultedIsOverdue,
       SlashedOnlyAfterDefault, StakeFigureIsBacked, ActiveVouchCoversItsLoans,
       SettledOnce
  <2>3. ASSUME NEW a \in Accounts, NEW s \in Scores, UpdateCredit(a, s)
        PROVE LendingInv'
    BY <2>2, <2>3 DEF UpdateCredit
  <2>4. CASE UNCHANGED vars
    BY <2>2, <2>4 DEF vars
  <2> QED
    BY <2>1, <2>3, <2>4, CreateVouchInv, IssueLoanInv, RepayLoanInv,
       MarkLoanDefaultedInv, SlashDefaultedVouchInv, RedeemExpiredInv DEF Next
<1> QED BY <1>1, <1>2, TypeCorrect, PTL DEF Spec

\* A stake is lost only to a default of the vouchee that is past its due epoch.
THEOREM SlashNeedsDefault == Spec => []SlashedOnlyAfterDefault
BY LendingInvariant, PTL DEF LendingInv

\* stake_amount is backed by coins, and a slashed vouch holds none.
THEOREM StakeBacked == Spec => []StakeFigureIsBacked
BY LendingInvariant, PTL DEF LendingInv

\* An active vouch covers every loan that names it.
THEOREM LoansCovered == Spec => []ActiveVouchCoversItsLoans
BY LendingInvariant, PTL DEF LendingInv

\* Repaid and defaulted exclude each other, and repaid loans are empty.
THEOREM LoanSettledOnce == Spec => []SettledOnce
BY LendingInvariant, PTL DEF LendingInv

\* By the time a loan can be in default its vouch can be redeemed.
THEOREM SlashRacesRedemption == Spec => []DefaultedLoanVouchIsRedeemable
<1>1. TypeOK /\ LendingInv => DefaultedLoanVouchIsRedeemable
  BY Sentinels DEF TypeOK, LendingInv, VouchExpiresNoLaterThanItsLoans,
     DefaultedIsOverdue, DefaultedLoanVouchIsRedeemable, Live, Issued,
     LoanRec, VouchRec
<1> QED BY <1>1, TypeCorrect, LendingInvariant, PTL

\* A vouch is only ever made on the voucher's own CREDIT score.
THEOREM OwnScoreCited == Spec => VouchCitesOwnScore
<1>1. ASSUME TypeOK, [Next]_vars, NEW v \in Vouches,
             vouches[v] = NoVouch, vouches'[v] # NoVouch
      PROVE  credit[vouches'[v].voucher] >= MinVoucherScore
  <2>1. PICK u \in Vouches, sender \in Accounts, cited \in Accounts,
             vouchee \in Accounts, stake \in Amounts :
             CreateVouch(u, sender, cited, vouchee, stake)
    BY <1>1 DEF Next, vars, AdvanceEpoch, UpdateCredit, IssueLoan, RepayLoan,
       MarkLoanDefaulted, SlashDefaultedVouch, RedeemExpired, Live, TypeOK
  <2> QED
    BY <1>1, <2>1 DEF CreateVouch, OwnProfile, TypeOK
<1>2. TypeOK /\ [Next]_vars =>
        [\A v \in Vouches : vouches[v] = NoVouch /\ vouches'[v] # NoVouch =>
           credit[vouches'[v].voucher] >= MinVoucherScore]_vars
  BY <1>1
<1> QED BY <1>2, TypeCorrect, PTL DEF Spec, VouchCitesOwnScore

\* The step that empties the collateral of a repaid loan.
LEMMA RepaymentRecipients ==
  ASSUME TypeOK, LendingInv,
         NEW l \in Loans, NEW payer \in Accounts, NEW repayment \in Amounts,
         RepayLoan(l, payer, repayment)
  PROVE  LET b == loans[l].borrower
             c == loans[l].lender
             short == wallet[b] + loans[l].collateral - wallet'[b]
         IN  /\ loans'[l].collateral = 0
             /\ ~loans[l].repaid /\ loans'[l].repaid
             /\ short = 0 \/ /\ short >= loans[l].amount
                             /\ wallet'[c] = wallet[c] + short
<1> DEFINE b == loans[l].borrower
           c == loans[l].lender
           x == loans[l].collateral
<1>1. loans[l] \in LoanRec /\ b # c
  BY DEF RepayLoan, TypeOK, Issued, LendingInv, SettledOnce
<1>2. b \in Accounts /\ c \in Accounts /\ x \in Nat /\ loans[l].amount \in Nat
  BY <1>1 DEF LoanRec
<1>3. /\ loans'[l].collateral = 0
      /\ ~loans[l].repaid /\ loans'[l].repaid
  BY <1>1 DEF RepayLoan, Open, CollateralWithdrawn, TypeOK, LoanRec
<1>4. wallet' = [[[wallet EXCEPT ![payer] = @ - repayment]
                          EXCEPT ![b] = @ + x] EXCEPT ![c] = @ + repayment]
  BY DEF RepayLoan, Withdraw, Deposit, CollateralReturnsTo
<1>5. repayment \in Nat /\ repayment >= loans[l].amount
  BY LendingNumbers DEF RepayLoan
<1>6. wallet[b] \in Nat /\ wallet[c] \in Nat
  BY <1>2 DEF TypeOK
<1>7. CASE payer = b
  <2>1. /\ wallet'[b] = wallet[b] - repayment + x
        /\ wallet'[c] = wallet[c] + repayment
    BY <1>1, <1>2, <1>4, <1>7 DEF TypeOK
  <2> QED BY <1>2, <1>3, <1>5, <1>6, <2>1
<1>8. CASE payer # b
  <2>1. wallet'[b] = wallet[b] + x
    BY <1>1, <1>2, <1>4, <1>8 DEF TypeOK
  <2> QED BY <1>2, <1>3, <1>6, <2>1
<1> QED BY <1>7, <1>8

\* Collateral is released to the borrower on repayment and to the lender after
\* a default, and by no other step.
THEOREM CollateralRecipients == Spec => CollateralReleasedToTheRightParty
<1> DEFINE Right(l) ==
      LET b == loans[l].borrower
          c == loans[l].lender
          short == wallet[b] + loans[l].collateral - wallet'[b]
      IN  /\ loans'[l].collateral = 0
          /\ \/ /\ ~loans[l].repaid /\ loans'[l].repaid
                /\ \/ short = 0
                   \/ /\ short >= loans[l].amount
                      /\ wallet'[c] = wallet[c] + short
             \/ /\ loans[l].defaulted
                /\ \E v \in Vouches :
                      /\ Live(v) /\ vouches[v].active
                      /\ Live(v)' /\ ~vouches'[v].active
                      /\ wallet'[c] = wallet[c] + vouches[v].balance
                                                + loans[l].collateral
<1>1. ASSUME TypeOK, LendingInv, [Next]_vars, NEW l \in Loans, Issued(l),
             loans'[l].collateral # loans[l].collateral
      PROVE  Right(l)
  <2>1. \/ \E payer \in Accounts, repayment \in Amounts :
             RepayLoan(l, payer, repayment)
        \/ \E v \in Vouches : SlashDefaultedVouch(l, v)
    <3>1. ASSUME NEW k \in Loans, MarkLoanDefaulted(k) PROVE FALSE
      BY <1>1, <3>1 DEF MarkLoanDefaulted, TypeOK, Issued, LoanRec
    <3>2. ASSUME NEW k \in Loans, NEW payer \in Accounts,
                 NEW repayment \in Amounts, RepayLoan(k, payer, repayment)
          PROVE  k = l
      BY <1>1, <3>2 DEF RepayLoan, TypeOK
    <3>3. ASSUME NEW k \in Loans, NEW v \in Vouches, SlashDefaultedVouch(k, v)
          PROVE  k = l
      BY <1>1, <3>3 DEF SlashDefaultedVouch, TypeOK
    <3>4. ASSUME NEW k \in Loans, NEW v \in Vouches, NEW lender \in Accounts,
                 NEW borrower \in Accounts, NEW funder \in Accounts,
                 NEW amount \in Amounts, NEW collateral \in Amounts,
                 IssueLoan(k, v, lender, borrower, funder, amount, collateral)
          PROVE  FALSE
      BY <1>1, <3>4 DEF IssueLoan, TypeOK, Issued
    <3> QED
      BY <1>1, <3>1, <3>2, <3>3, <3>4 DEF Next, vars, AdvanceEpoch, UpdateCredit,
         CreateVouch, RedeemExpired
  <2>2. CASE \E payer \in Accounts, repayment \in Amounts :
               RepayLoan(l, payer, repayment)
    BY <1>1, <2>2, RepaymentRecipients
  <2>3. ASSUME NEW v \in Vouches, SlashDefaultedVouch(l, v) PROVE Right(l)
    <3>1. loans[l] \in LoanRec /\ vouches[v] \in VouchRec
      BY <1>1, <2>3 DEF SlashDefaultedVouch, TypeOK, Issued, Live
    <3>2. loans'[l].collateral = 0 /\ loans[l].defaulted
      BY <1>1, <2>3, <3>1 DEF SlashDefaultedVouch, Slashable, CollateralWithdrawn,
         TypeOK, LoanRec
    <3>3. vouches'[v] \in VouchRec /\ ~vouches'[v].active
      BY <1>1, <2>3, <3>1 DEF SlashDefaultedVouch, SlashForDefault, TypeOK, VouchRec
    <3>4. Live(v) /\ vouches[v].active /\ Live(v)'
      BY <2>3, <3>3, Sentinels DEF SlashDefaultedVouch, Slashable, Live
    <3>5. wallet'[loans[l].lender] = wallet[loans[l].lender]
            + vouches[v].balance + loans[l].collateral
      BY <1>1, <2>3, <3>1 DEF SlashDefaultedVouch, Deposit, TypeOK, LoanRec, VouchRec
    <3> QED BY <3>2, <3>3, <3>4, <3>5
  <2> QED BY <2>1, <2>2, <2>3
<1>2. TypeOK /\ LendingInv /\ [Next]_vars =>
        [\A l \in Loans :
           Issued(l) /\ loans'[l].collateral # loans[l].collateral => Right(l)]_vars
  BY <1>1
<1> QED
  BY <1>2, TypeCorrect, LendingInvariant, PTL
     DEF Spec, CollateralReleasedToTheRightParty
-----------------------------------------------------------------------------
(* The coins                                                               *)

LEMMA DepositAdds ==
  ASSUME NEW w \in [Accounts -> Nat], NEW a \in Accounts, NEW x \in Nat
  PROVE  SumFunction(Deposit(w, a, x)) = SumFunction(w) + x
<1>1. w \in [Accounts -> Int] /\ x \in Int
  OBVIOUS
<1> QED BY <1>1, FiniteIds, SumAfterAdding DEF Deposit

LEMMA WithdrawSubtracts ==
  ASSUME NEW w \in [Accounts -> Nat], NEW a \in Accounts, NEW x \in Nat
  PROVE  SumFunction(Withdraw(w, a, x)) = SumFunction(w) - x
<1> DEFINE y == -x
<1>1. Withdraw(w, a, x) = [w EXCEPT ![a] = @ + y]
  <2>1. w[a] - x = w[a] + y
    OBVIOUS
  <2> QED BY <2>1 DEF Withdraw
<1>2. w \in [Accounts -> Int] /\ y \in Int
  OBVIOUS
<1>3. SumFunction(w) \in Int
  BY <1>2, FiniteIds, SumType
<1>4. SumFunction(w) + y = SumFunction(w) - x
  BY <1>3
<1> HIDE DEF y
<1>5. SumFunction([w EXCEPT ![a] = @ + y]) = SumFunction(w) + y
  BY <1>2, FiniteIds, SumAfterAdding
<1> QED BY <1>1, <1>4, <1>5

LEMMA CoinTypes ==
  TypeOK => /\ Locked \in [Vouches -> Int] /\ Pledged \in [Loans -> Int]
            /\ SumFunction(wallet) \in Int
            /\ SumFunction(Locked) \in Int /\ SumFunction(Pledged) \in Int
<1> SUFFICES ASSUME TypeOK
             PROVE  /\ Locked \in [Vouches -> Int] /\ Pledged \in [Loans -> Int]
                    /\ SumFunction(wallet) \in Int
                    /\ SumFunction(Locked) \in Int /\ SumFunction(Pledged) \in Int
  OBVIOUS
<1>1. Locked \in [Vouches -> Int]
  BY DEF TypeOK, Locked, Live, VouchRec
<1>2. Pledged \in [Loans -> Int]
  BY DEF TypeOK, Pledged, Issued, LoanRec
<1>3. wallet \in [Accounts -> Int]
  BY DEF TypeOK
<1> QED BY <1>1, <1>2, <1>3, FiniteIds, SumType

\* The same of the next state.
LEMMA CoinTypesNext ==
  TypeOK' => /\ Locked' \in [Vouches -> Int] /\ Pledged' \in [Loans -> Int]
             /\ SumFunction(wallet)' \in Int
             /\ SumFunction(Locked)' \in Int /\ SumFunction(Pledged)' \in Int
<1> SUFFICES ASSUME TypeOK'
             PROVE  /\ Locked' \in [Vouches -> Int] /\ Pledged' \in [Loans -> Int]
                    /\ SumFunction(wallet)' \in Int
                    /\ SumFunction(Locked)' \in Int /\ SumFunction(Pledged)' \in Int
  OBVIOUS
<1>1. Locked' \in [Vouches -> Int]
  BY DEF TypeOK, Locked, Live, VouchRec
<1>2. Pledged' \in [Loans -> Int]
  BY DEF TypeOK, Pledged, Issued, LoanRec
<1>3. wallet' \in [Accounts -> Int]
  BY DEF TypeOK
<1> QED BY <1>1, <1>2, <1>3, FiniteIds, SumType

\* What a vouch that alone is written holds afterwards.
LEMMA LockedChange ==
  ASSUME TypeOK, TypeOK', NEW v \in Vouches, NEW new, vouches' = [vouches EXCEPT ![v] = new]
  PROVE  SumFunction(Locked)' = SumFunction(Locked) + Locked'[v] - Locked[v]
<1>1. Locked \in [Vouches -> Int] /\ Locked' \in [Vouches -> Int]
  BY CoinTypes, CoinTypesNext
<1>2. \A u \in Vouches \ {v} : Locked[u] = Locked'[u]
  BY DEF TypeOK, Locked, Live
<1> QED BY <1>1, <1>2, FiniteIds, SumAfterChange

LEMMA PledgedChange ==
  ASSUME TypeOK, TypeOK', NEW l \in Loans, NEW new, loans' = [loans EXCEPT ![l] = new]
  PROVE  SumFunction(Pledged)' = SumFunction(Pledged) + Pledged'[l] - Pledged[l]
<1>1. Pledged \in [Loans -> Int] /\ Pledged' \in [Loans -> Int]
  BY CoinTypes, CoinTypesNext
<1>2. \A k \in Loans \ {l} : Pledged[k] = Pledged'[k]
  BY DEF TypeOK, Pledged, Issued
<1> QED BY <1>1, <1>2, FiniteIds, SumAfterChange

Coins == SumFunction(wallet) + SumFunction(Locked) + SumFunction(Pledged)

\* No sequence of transactions creates or destroys a coin: each moves what one
\* wallet or object loses to others.
THEOREM CoinConservation == Spec => []CoinsConserved
<1>1. Init => CoinsConserved
  <2> SUFFICES ASSUME Init PROVE CoinsConserved
    OBVIOUS
  <2>1. SumFunction(Locked) = 0
    <3>1. Locked = [v \in Vouches |-> 0]
      BY DEF Init, Locked, Live
    <3> QED BY <3>1, FiniteIds, SumOfZeros
  <2>2. SumFunction(Pledged) = 0
    <3>1. Pledged = [l \in Loans |-> 0]
      BY DEF Init, Pledged, Issued
    <3> QED BY <3>1, FiniteIds, SumOfZeros
  <2>3. SumFunction(InitialWallet) \in Int
    <3>1. InitialWallet \in [Accounts -> Int]
      BY LendingNumbers
    <3> QED BY <3>1, FiniteIds, SumType
  <2> QED BY <2>1, <2>2, <2>3 DEF Init, CoinsConserved
<1>2. ASSUME TypeOK, TypeOK', LendingInv, [Next]_vars PROVE Coins' = Coins
  <2> USE <1>2
  <2>0. /\ SumFunction(wallet) \in Int /\ SumFunction(wallet)' \in Int
        /\ SumFunction(Locked) \in Int /\ SumFunction(Locked)' \in Int
        /\ SumFunction(Pledged) \in Int /\ SumFunction(Pledged)' \in Int
        /\ wallet \in [Accounts -> Nat]
    BY CoinTypes, CoinTypesNext DEF TypeOK
  <2>1. ASSUME UNCHANGED vouches PROVE SumFunction(Locked)' = SumFunction(Locked)
    BY <2>1 DEF Locked, Live
  <2>2. ASSUME UNCHANGED loans PROVE SumFunction(Pledged)' = SumFunction(Pledged)
    BY <2>2 DEF Pledged, Issued
  <2>3. ASSUME NEW v \in Vouches, NEW sender \in Accounts, NEW cited \in Accounts,
               NEW vouchee \in Accounts, NEW stake \in Amounts,
               CreateVouch(v, sender, cited, vouchee, stake)
        PROVE  Coins' = Coins
    <3>1. stake \in Nat /\ wallet' = Withdraw(wallet, sender, stake)
      BY <2>3, LendingNumbers DEF CreateVouch
    <3>2. SumFunction(wallet)' = SumFunction(wallet) - stake
      BY <2>0, <3>1, WithdrawSubtracts
    <3>3. Locked[v] = 0
      BY <2>3 DEF CreateVouch, Locked, Live
    <3>4. Locked'[v] = stake
      <4>1. vouches'[v] \in VouchRec /\ vouches'[v].balance = stake
        BY <2>3, <3>1, LendingNumbers DEF CreateVouch, TypeOK, VouchRec
      <4> QED BY <4>1, Sentinels DEF Locked, Live
    <3>5. SumFunction(Locked)' = SumFunction(Locked) + Locked'[v] - Locked[v]
      BY <2>3, LockedChange DEF CreateVouch
    <3>6. SumFunction(Pledged)' = SumFunction(Pledged)
      BY <2>2, <2>3 DEF CreateVouch
    <3> QED BY <2>0, <3>1, <3>2, <3>3, <3>4, <3>5, <3>6 DEF Coins
  <2>4. ASSUME NEW l \in Loans, NEW v \in Vouches, NEW lender \in Accounts,
               NEW borrower \in Accounts, NEW funder \in Accounts,
               NEW amount \in Amounts, NEW collateral \in Amounts,
               IssueLoan(l, v, lender, borrower, funder, amount, collateral)
        PROVE  Coins' = Coins
    <3>1. collateral \in Nat /\ wallet' = Withdraw(wallet, funder, collateral)
      BY <2>4, LendingNumbers DEF IssueLoan
    <3>2. SumFunction(wallet)' = SumFunction(wallet) - collateral
      BY <2>0, <3>1, WithdrawSubtracts
    <3>3. Pledged[l] = 0
      BY <2>4 DEF IssueLoan, Pledged, Issued
    <3>4. Pledged'[l] = collateral
      <4>1. loans'[l] \in LoanRec /\ loans'[l].collateral = collateral
        BY <2>4, <3>1, LendingNumbers DEF IssueLoan, TypeOK, LoanRec
      <4> QED BY <4>1, Sentinels DEF Pledged, Issued
    <3>5. SumFunction(Pledged)' = SumFunction(Pledged) + Pledged'[l] - Pledged[l]
      BY <2>4, PledgedChange DEF IssueLoan
    <3>6. SumFunction(Locked)' = SumFunction(Locked)
      BY <2>1, <2>4 DEF IssueLoan
    <3> QED BY <2>0, <3>1, <3>2, <3>3, <3>4, <3>5, <3>6 DEF Coins
  <2>5. ASSUME NEW l \in Loans, NEW payer \in Accounts, NEW repayment \in Amounts,
               RepayLoan(l, payer, repayment)
        PROVE  Coins' = Coins
    <3> DEFINE b == loans[l].borrower
               c == loans[l].lender
               x == loans[l].collateral
               paid == Withdraw(wallet, payer, repayment)
               released == Deposit(paid, b, x)
    <3>1. loans[l] \in LoanRec
      BY <2>5 DEF RepayLoan, TypeOK, Issued
    <3>2. b \in Accounts /\ c \in Accounts /\ x \in Nat /\ repayment \in Nat
      BY <2>5, <3>1, LendingNumbers DEF LoanRec
    <3>3. wallet' = Deposit(released, c, repayment)
      BY <2>5 DEF RepayLoan, CollateralReturnsTo
    <3>4. paid \in [Accounts -> Nat]
      BY <2>0, <2>5, <3>2, WalletMoves DEF RepayLoan, Owns
    <3>5. released \in [Accounts -> Nat]
      <4> HIDE DEF b, x, paid
      <4> QED BY <3>2, <3>4, WalletMoves
    <3>6. SumFunction(paid) = SumFunction(wallet) - repayment
      BY <2>0, <3>2, WithdrawSubtracts
    <3>7. SumFunction(released) = SumFunction(paid) + x
      <4> HIDE DEF b, x, paid
      <4> QED BY <3>2, <3>4, DepositAdds
    <3>8. SumFunction(wallet)' = SumFunction(released) + repayment
      <4> HIDE DEF c, released
      <4> QED BY <3>2, <3>3, <3>5, DepositAdds
    <3>9. Pledged[l] = x
      BY <2>5 DEF RepayLoan, Pledged
    <3>10. Pledged'[l] = 0
      BY <2>5, <3>1 DEF RepayLoan, CollateralWithdrawn, Pledged, TypeOK, LoanRec
    <3>11. SumFunction(Pledged)' = SumFunction(Pledged) + Pledged'[l] - Pledged[l]
      BY <2>5, PledgedChange DEF RepayLoan
    <3>12. SumFunction(Locked)' = SumFunction(Locked)
      BY <2>1, <2>5 DEF RepayLoan
    <3> HIDE DEF b, c, x, paid, released
    <3> QED BY <2>0, <3>2, <3>6, <3>7, <3>8, <3>9, <3>10, <3>11, <3>12 DEF Coins
  <2>6. ASSUME NEW l \in Loans, MarkLoanDefaulted(l) PROVE Coins' = Coins
    <3>1. loans[l] \in LoanRec
      BY <2>6 DEF MarkLoanDefaulted, TypeOK, Issued
    <3>2. Pledged'[l] = Pledged[l]
      BY <2>6, <3>1, Sentinels DEF MarkLoanDefaulted, Pledged, Issued, TypeOK, LoanRec
    <3>3. loans' = [loans EXCEPT ![l] = [loans[l] EXCEPT !.defaulted = TRUE]]
      BY <2>6 DEF MarkLoanDefaulted
    <3>4. SumFunction(Pledged)' = SumFunction(Pledged) + Pledged'[l] - Pledged[l]
      BY <3>3, PledgedChange
    <3>5. Pledged[l] \in Int
      BY CoinTypes
    <3>6. SumFunction(Locked)' = SumFunction(Locked) /\ wallet' = wallet
      BY <2>1, <2>6 DEF MarkLoanDefaulted
    <3> QED BY <2>0, <3>2, <3>4, <3>5, <3>6 DEF Coins
  <2>7. ASSUME NEW l \in Loans, NEW v \in Vouches, SlashDefaultedVouch(l, v)
        PROVE  Coins' = Coins
    <3> DEFINE c == loans[l].lender
               x == loans[l].collateral
               y == vouches[v].balance
    <3>1. loans[l] \in LoanRec /\ vouches[v] \in VouchRec
      BY <2>7 DEF SlashDefaultedVouch, TypeOK, Issued, Live
    <3>2. c \in Accounts /\ x \in Nat /\ y \in Nat
      BY <3>1 DEF LoanRec, VouchRec
    <3>3. wallet' = Deposit(wallet, c, y + x)
      BY <2>7 DEF SlashDefaultedVouch
    <3>4. SumFunction(wallet)' = SumFunction(wallet) + (y + x)
      <4> HIDE DEF c, x, y
      <4> QED BY <2>0, <3>2, <3>3, DepositAdds
    <3>5. Locked[v] = y /\ Pledged[l] = x
      BY <2>7 DEF SlashDefaultedVouch, Locked, Pledged
    <3>6. Locked'[v] = 0
      BY <2>7, <3>1 DEF SlashDefaultedVouch, SlashForDefault, Locked, TypeOK, VouchRec
    <3>7. Pledged'[l] = 0
      BY <2>7, <3>1 DEF SlashDefaultedVouch, CollateralWithdrawn, Pledged, TypeOK, LoanRec
    <3>8. /\ SumFunction(Locked)' = SumFunction(Locked) + Locked'[v] - Locked[v]
          /\ SumFunction(Pledged)' = SumFunction(Pledged) + Pledged'[l] - Pledged[l]
      BY <2>7, LockedChange, PledgedChange DEF SlashDefaultedVouch
    <3> HIDE DEF c, x, y
    <3> QED BY <2>0, <3>2, <3>4, <3>5, <3>6, <3>7, <3>8 DEF Coins
  <2>8. ASSUME NEW v \in Vouches, RedeemExpired(v) PROVE Coins' = Coins
    <3> DEFINE a == vouches[v].voucher
               y == vouches[v].balance
    <3>1. a \in Accounts /\ y \in Nat
      BY <2>8 DEF RedeemExpired, TypeOK, Live, VouchRec
    <3>2. wallet' = Deposit(wallet, a, y)
      BY <2>8 DEF RedeemExpired
    <3>3. SumFunction(wallet)' = SumFunction(wallet) + y
      <4> HIDE DEF a, y
      <4> QED BY <2>0, <3>1, <3>2, DepositAdds
    <3>4. Locked[v] = y /\ Locked'[v] = 0
      BY <2>8 DEF RedeemExpired, Locked, Live, TypeOK
    <3>5. SumFunction(Locked)' = SumFunction(Locked) + Locked'[v] - Locked[v]
      BY <2>8, LockedChange DEF RedeemExpired
    <3>6. SumFunction(Pledged)' = SumFunction(Pledged)
      BY <2>2, <2>8 DEF RedeemExpired
    <3> HIDE DEF a, y
    <3> QED BY <2>0, <3>1, <3>3, <3>4, <3>5, <3>6 DEF Coins
  <2>9. CASE UNCHANGED <<wallet, vouches, loans>>
    BY <2>1, <2>2, <2>9 DEF Coins
  <2> QED
    BY <2>3, <2>4, <2>5, <2>6, <2>7, <2>8, <2>9
       DEF Next, vars, AdvanceEpoch, UpdateCredit
<1>3. TypeOK /\ TypeOK' /\ LendingInv /\ CoinsConserved /\ [Next]_vars => CoinsConserved'
  BY <1>2 DEF Coins, CoinsConserved
<1> QED BY <1>1, <1>3, TypeCorrect, LendingInvariant, PTL DEF Spec

=============================================================================
