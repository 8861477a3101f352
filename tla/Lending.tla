------------------------------- MODULE Lending -------------------------------
(***************************************************************************)
(* Social vouching and vouch-backed loans: sources/vouch.move and          *)
(* sources/lending.move, with the CREDIT score they read from              *)
(* sources/profile.move and the SUI coins they hold.                       *)
(*                                                                         *)
(* Every action is one Move transaction.  A Move abort rolls the whole     *)
(* transaction back, so an assert! of the code is a conjunct of the guard. *)
(* Objects are records indexed by an object id that is never reused;       *)
(* NoVouch and NoLoan stand for an id that is not yet in use, Deleted for  *)
(* a Vouch consumed by redeem_expired.                                     *)
(*                                                                         *)
(* Custody is abstracted: both Vouch and Loan have `store`, so whoever     *)
(* holds one may hand it over before the call, and any account may end up  *)
(* being the one that passes it to a function.                             *)
(***************************************************************************)
EXTENDS Integers, FiniteSets, Functions

CONSTANTS
  Accounts,          \* wallet addresses
  Vouches, Loans,    \* object ids
  NoVouch, Deleted,  \* the two states of a Vouch id that carry no object
  NoLoan,            \* a Loan id that is not in use
  Scores,            \* CREDIT scores an oracle may write
  Amounts,           \* coin amounts a transaction may carry
  InitialWallet,     \* coins of each account before the first transaction
  MinVoucherScore,   \* MIN_VOUCHER_SCORE (500)
  MinBorrowerScore,  \* the literal 300 of issue_loan
  MinCollateralPct,  \* MIN_COLLATERAL_PCT (20)
  LoanPerPoint,      \* MAX_LOAN_MULTIPLIER * 1_000_000_000
  VouchDuration,     \* VOUCH_DURATION_EPOCHS (30)
  LoanTerm,          \* the literal 30 of issue_loan
  MaxU64,            \* largest u64; an operation that exceeds it aborts
  MaxEpoch           \* bound on the epochs explored

ASSUME FiniteIds ==
  IsFiniteSet(Accounts) /\ IsFiniteSet(Vouches) /\ IsFiniteSet(Loans)

ASSUME LendingNumbers ==
  /\ Scores \subseteq Nat /\ Amounts \subseteq Nat
  /\ InitialWallet \in [Accounts -> Nat]
  /\ MinVoucherScore \in Nat /\ MinBorrowerScore \in Nat
  /\ MinCollateralPct \in Nat /\ LoanPerPoint \in Nat
  /\ VouchDuration \in Nat /\ LoanTerm \in Nat
  /\ MaxU64 \in Nat /\ MaxEpoch \in Nat

\* A vouch made and used in one epoch does not outlive the loan it backs:
\* both terms are 30 epochs in the code.
ASSUME VouchNotLongerThanLoan == VouchDuration <= LoanTerm

\* The score write at profile creation: an absent CREDIT entry reads as zero.
ASSUME ZeroScore == 0 \in Scores

VARIABLES
  epoch,    \* tx_context::epoch
  wallet,   \* SUI owned by each account
  credit,   \* CREDIT score of each account's profile (the best one, should it
            \* have created several: the others cannot do more for it)
  vouches,  \* Vouch objects
  loans     \* Loan objects

vars == <<epoch, wallet, credit, vouches, loans>>

VouchRec == [voucher : Accounts, vouchee : Accounts, stake : Nat,
             balance : Nat, expires : Nat, active : BOOLEAN]

LoanRec == [borrower : Accounts, lender : Accounts, amount : Nat,
            collateral : Nat, vouch : Vouches, due : Nat,
            repaid : BOOLEAN, defaulted : BOOLEAN]

ASSUME Sentinels ==
  /\ NoVouch \notin VouchRec /\ Deleted \notin VouchRec
  /\ NoVouch # Deleted /\ NoLoan \notin LoanRec

Live(v) == vouches[v] \notin {NoVouch, Deleted}
Issued(l) == loans[l] # NoLoan

Withdraw(w, a, x) == [w EXCEPT ![a] = @ - x]
Deposit(w, a, x) == [w EXCEPT ![a] = @ + x]

(***************************************************************************)
(* The checks and updates the actions are made of.  An operator whose      *)
(* comment says "Mistaken" is a plausible mistake in the one that follows  *)
(* it; no action uses it.                                                  *)
(***************************************************************************)
OwnProfile(sender, cited) == cited = sender

Owns(a, x) == x <= wallet[a]

\* Mistaken: the stake is not compared with the loan.
CoverageIgnoringStake(vouch, amount, borrower) ==
  /\ vouch.active
  /\ vouch.vouchee = borrower
  /\ amount * MinCollateralPct <= MaxU64

\* Neither the expiry nor the other loans backed by the vouch are looked at.
VerifyVouchCoverage(vouch, amount, borrower) ==
  /\ vouch.active
  /\ vouch.vouchee = borrower
  /\ amount * MinCollateralPct <= MaxU64
  /\ vouch.stake >= (amount * MinCollateralPct) \div 100

Open(loan) == ~loan.repaid /\ ~loan.defaulted

\* Mistaken: the due epoch itself already counts as late.
OverdueWhenDue(loan) == epoch >= loan.due
Overdue(loan) == epoch > loan.due

\* Mistaken: slashing does not wait for mark_loan_defaulted.
SlashableBeforeDefault(loan, vouch) ==
  loan.borrower = vouch.vouchee /\ vouch.active
\* Any active vouch of the borrower, not only the one recorded in the loan.
Slashable(loan, vouch) ==
  loan.borrower = vouch.vouchee /\ vouch.active /\ loan.defaulted

\* Mistaken: stake_amount is not reset with the balance.
SlashedKeepingStake(vouch) == [vouch EXCEPT !.active = FALSE, !.balance = 0]
SlashForDefault(vouch) ==
  [vouch EXCEPT !.active = FALSE, !.stake = 0, !.balance = 0]

\* Mistaken: the loan keeps the collateral that was paid out.
CollateralKept(loan) == loan
CollateralWithdrawn(loan) == [loan EXCEPT !.collateral = 0]

\* Mistaken: repay_loan sends the collateral to the lender.
CollateralToLender(loan) == loan.lender
CollateralReturnsTo(loan) == loan.borrower

-----------------------------------------------------------------------------
Init ==
  /\ epoch = 0
  /\ wallet = InitialWallet
  /\ credit = [a \in Accounts |-> 0]
  /\ vouches = [v \in Vouches |-> NoVouch]
  /\ loans = [l \in Loans |-> NoLoan]

\* An epoch of the chain ends.
AdvanceEpoch ==
  /\ epoch < MaxEpoch
  /\ epoch' = epoch + 1
  /\ UNCHANGED <<wallet, credit, vouches, loans>>

\* profile::update_score on the CREDIT schema.
UpdateCredit(a, s) ==
  /\ credit' = [credit EXCEPT ![a] = s]
  /\ UNCHANGED <<epoch, wallet, vouches, loans>>

\* The Vouch object is sent to the vouchee.
CreateVouch(v, sender, cited, vouchee, stake) ==
  /\ vouches[v] = NoVouch
  /\ OwnProfile(sender, cited)
  /\ credit[cited] >= MinVoucherScore
  /\ Owns(sender, stake)
  /\ wallet' = Withdraw(wallet, sender, stake)
  /\ vouches' = [vouches EXCEPT ![v] =
       [voucher |-> sender, vouchee |-> vouchee, stake |-> stake,
        balance |-> stake, expires |-> epoch + VouchDuration, active |-> TRUE]]
  /\ UNCHANGED <<epoch, credit, loans>>

\* The sender is the lender; the collateral coin may come from any account.
\* The principal does not pass through the module.
IssueLoan(l, v, lender, borrower, funder, amount, collateral) ==
  /\ loans[l] = NoLoan /\ Live(v)
  /\ borrower # lender
  /\ VerifyVouchCoverage(vouches[v], amount, borrower)
  /\ credit[borrower] >= MinBorrowerScore
  /\ credit[borrower] * LoanPerPoint <= MaxU64
  /\ amount <= credit[borrower] * LoanPerPoint
  /\ Owns(funder, collateral)
  /\ wallet' = Withdraw(wallet, funder, collateral)
  /\ loans' = [loans EXCEPT ![l] =
       [borrower |-> borrower, lender |-> lender, amount |-> amount,
        collateral |-> collateral, vouch |-> v, due |-> epoch + LoanTerm,
        repaid |-> FALSE, defaulted |-> FALSE]]
  /\ UNCHANGED <<epoch, credit, vouches>>

\* Late repayment is accepted until the loan has been marked defaulted.
RepayLoan(l, payer, repayment) ==
  /\ Issued(l)
  /\ Open(loans[l])
  /\ repayment >= loans[l].amount
  /\ Owns(payer, repayment)
  /\ wallet' = Deposit(Deposit(Withdraw(wallet, payer, repayment),
                               CollateralReturnsTo(loans[l]),
                               loans[l].collateral),
                       loans[l].lender, repayment)
  /\ loans' = [loans EXCEPT ![l] =
                 [CollateralWithdrawn(loans[l]) EXCEPT !.repaid = TRUE]]
  /\ UNCHANGED <<epoch, credit, vouches>>

MarkLoanDefaulted(l) ==
  /\ Issued(l)
  /\ Open(loans[l])
  /\ Overdue(loans[l])
  /\ loans' = [loans EXCEPT ![l].defaulted = TRUE]
  /\ UNCHANGED <<epoch, wallet, credit, vouches>>

\* Stake and collateral both go to the lender.  The call borrows the one
\* LendingCapability, which init gave to the deployer and which, like the other
\* objects here, may be passed on: who has it is left out, so the call is open.
SlashDefaultedVouch(l, v) ==
  /\ Issued(l) /\ Live(v)
  /\ Slashable(loans[l], vouches[v])
  /\ wallet' = Deposit(wallet, loans[l].lender,
                       vouches[v].balance + loans[l].collateral)
  /\ vouches' = [vouches EXCEPT ![v] = SlashForDefault(vouches[v])]
  /\ loans' = [loans EXCEPT ![l] = CollateralWithdrawn(loans[l])]
  /\ UNCHANGED <<epoch, credit>>

\* The stake goes to the voucher, whoever calls.
RedeemExpired(v) ==
  /\ Live(v)
  /\ epoch > vouches[v].expires \/ ~vouches[v].active
  /\ wallet' = Deposit(wallet, vouches[v].voucher, vouches[v].balance)
  /\ vouches' = [vouches EXCEPT ![v] = Deleted]
  /\ UNCHANGED <<epoch, credit, loans>>

Next ==
  \/ AdvanceEpoch
  \/ \E a \in Accounts, s \in Scores : UpdateCredit(a, s)
  \/ \E v \in Vouches, sender, cited, vouchee \in Accounts, stake \in Amounts :
        CreateVouch(v, sender, cited, vouchee, stake)
  \/ \E l \in Loans, v \in Vouches, lender, borrower, funder \in Accounts,
        amount, collateral \in Amounts :
        IssueLoan(l, v, lender, borrower, funder, amount, collateral)
  \/ \E l \in Loans, payer \in Accounts, repayment \in Amounts :
        RepayLoan(l, payer, repayment)
  \/ \E l \in Loans : MarkLoanDefaulted(l)
  \/ \E l \in Loans, v \in Vouches : SlashDefaultedVouch(l, v)
  \/ \E v \in Vouches : RedeemExpired(v)

Spec == Init /\ [][Next]_vars

-----------------------------------------------------------------------------
\* Every variable has its type.
TypeOK ==
  /\ epoch \in Nat
  /\ wallet \in [Accounts -> Nat]
  /\ credit \in [Accounts -> Nat]
  /\ vouches \in [Vouches -> VouchRec \cup {NoVouch, Deleted}]
  /\ loans \in [Loans -> LoanRec \cup {NoLoan}]

\* A vouch can be slashed only after one of its vouchee's loans has defaulted,
\* past its due epoch: a voucher whose vouchee pays cannot lose the stake
\* (slash_defaulted_vouch and mark_loan_defaulted together).
SlashedOnlyAfterDefault ==
  \A v \in Vouches : Live(v) /\ ~vouches[v].active =>
    \E l \in Loans : /\ Issued(l)
                     /\ loans[l].borrower = vouches[v].vouchee
                     /\ loans[l].defaulted
                     /\ epoch > loans[l].due

\* The figure that coverage checks and VouchRedeemed report, stake_amount, is
\* the coin balance the object really holds, and a slashed vouch is empty: no
\* sequence of slash and redeem pays one stake twice.
StakeFigureIsBacked ==
  \A v \in Vouches : Live(v) =>
    /\ vouches[v].stake = vouches[v].balance
    /\ ~vouches[v].active => vouches[v].balance = 0

\* As long as the vouch of a loan exists and is active it covers that loan:
\* nothing between the coverage check of issue_loan and a default can shrink
\* the stake.
ActiveVouchCoversItsLoans ==
  \A l \in Loans : Issued(l) =>
    LET v == vouches[loans[l].vouch]
    IN  Live(loans[l].vouch) /\ v.active =>
          /\ v.vouchee = loans[l].borrower
          /\ v.stake >= (loans[l].amount * MinCollateralPct) \div 100

\* Repaid and defaulted are mutually exclusive (SECURITY.md, Lending), and a
\* loan that was repaid no longer holds collateral, so neither repay_loan nor
\* slash_defaulted_vouch can pay it out a second time.
SettledOnce ==
  \A l \in Loans : Issued(l) =>
    /\ ~(loans[l].repaid /\ loans[l].defaulted)
    /\ loans[l].repaid => loans[l].collateral = 0
    /\ loans[l].borrower # loans[l].lender

\* The vouch behind a defaulted loan can always be redeemed by then: the slash
\* races redeem_expired, because the vouch was made no later than the loan and
\* both run for the same number of epochs.
DefaultedLoanVouchIsRedeemable ==
  \A l \in Loans : Issued(l) /\ loans[l].defaulted =>
    LET v == loans[l].vouch
    IN  vouches[v] # NoVouch /\ (Live(v) => epoch > vouches[v].expires)

\* A vouch can only be taken out with the voucher's own score
\* (SECURITY.md, Vouch).
VouchCitesOwnScore ==
  [][\A v \in Vouches : vouches[v] = NoVouch /\ vouches'[v] # NoVouch =>
        credit[vouches'[v].voucher] >= MinVoucherScore]_vars

\* Collateral leaves a loan all at once.  In repay_loan the borrower gets it:
\* what the borrower's wallet is short of afterwards is the repayment, and the
\* lender received exactly that.  In slash_defaulted_vouch the lender gets it,
\* together with the stake of an active vouch.  No other step touches it.
CollateralReleasedToTheRightParty ==
  [][\A l \in Loans :
        Issued(l) /\ loans'[l].collateral # loans[l].collateral =>
          LET b == loans[l].borrower
              c == loans[l].lender
              short == wallet[b] + loans[l].collateral - wallet'[b]
          IN  /\ loans'[l].collateral = 0
              /\ \/ /\ ~loans[l].repaid /\ loans'[l].repaid
                    /\ \/ short = 0
                       \/ /\ short >= loans[l].amount
                          /\ wallet'[c] = wallet[c] + short
                 \/ /\ loans[l].defaulted
                    /\ \E v \in Vouches :
                          /\ Live(v) /\ vouches[v].active
                          /\ Live(v)' /\ ~vouches'[v].active
                          /\ wallet'[c] = wallet[c] + vouches[v].balance
                                                    + loans[l].collateral]_vars

\* SUI held in the objects.
Locked == [v \in Vouches |-> IF Live(v) THEN vouches[v].balance ELSE 0]
Pledged == [l \in Loans |-> IF Issued(l) THEN loans[l].collateral ELSE 0]

\* No sequence of vouching, lending, repaying, slashing and redeeming creates
\* or destroys a coin.
CoinsConserved ==
  SumFunction(wallet) + SumFunction(Locked) + SumFunction(Pledged)
    = SumFunction(InitialWallet)

=============================================================================
