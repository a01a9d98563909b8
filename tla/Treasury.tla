------------------------------ MODULE Treasury ------------------------------
(***************************************************************************)
(* stayke-treasury: guarantee deposits kept in one shared token vault.     *)
(* The vault is a token account; who owns how much of it is recorded in    *)
(* UserProfile.deposited, in another program's account.  Token accounts    *)
(* of users and of the platform are balances.                              *)
(***************************************************************************)
EXTENDS CoreProfiles

CONSTANTS
    InitialBalance,     \* tokens each user's wallet starts with
    Amounts,            \* amounts a user asks to deposit or withdraw
    MaxDeposited        \* bound on one user's recorded deposit

ASSUME TreasuryAssumption ==
    /\ InitialBalance \in [Users -> Nat]
    /\ Amounts \subseteq Nat
    /\ MaxDeposited \in Nat

VARIABLES
    wallet,     \* the users' own token accounts
    vault       \* the treasury vault

treasuryVars == <<wallet, vault>>

TreasuryTypeOK ==
    /\ wallet \in [Users -> Nat]
    /\ vault \in Nat

TreasuryInit ==
    /\ wallet = InitialBalance
    /\ vault = 0

-----------------------------------------------------------------------------
(* Deposits are at least the minimum.  MaxDeposited bounds the instance. *)
DepositGuarantee(u, amount) ==
    /\ amount >= MinimumDeposit
    /\ deposited[u] + amount <= MaxDeposited
    /\ wallet[u] >= amount
    /\ wallet' = [wallet EXCEPT ![u] = @ - amount]
    /\ vault' = vault + amount
    /\ IncreaseDeposit(u, amount)
    /\ UNCHANGED <<identityVars, activeBooking, stayVars, reputationVars, scoreVars>>

(* A guarantee is locked while the profile names an active booking. *)
WithdrawGuaranteeAccounts(u) == activeBooking[u] = NoBooking

(* The SPL transfer fails when the vault holds less than the amount. *)
WithdrawGuarantee(u, amount) ==
    /\ WithdrawGuaranteeAccounts(u)
    /\ amount > 0
    /\ deposited[u] >= amount
    /\ DecreaseDeposit(u, amount)
    /\ vault >= amount
    /\ vault' = vault - amount
    /\ wallet' = [wallet EXCEPT ![u] = @ + amount]
    /\ UNCHANGED <<identityVars, activeBooking, stayVars, reputationVars, scoreVars>>

(* cpi_penalize_transfer: what the vault must allow, and what it pays.  The
   receiving wallet belongs to the caller's action, which may credit it more
   than once. *)
CanPenalize(amount) ==
    /\ amount > 0
    /\ vault >= amount

PenalizeTransfer(amount) ==
    /\ CanPenalize(amount)
    /\ vault' = vault - amount

TreasuryNext ==
    \E u \in Users, amount \in Amounts :
        \/ DepositGuarantee(u, amount)
        \/ WithdrawGuarantee(u, amount)
=============================================================================
