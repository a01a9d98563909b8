------------------------------ MODULE Disputes ------------------------------
(***************************************************************************)
(* stayke-disputes: a dispute freezes a booking, and is withdrawn by its   *)
(* opener, or escalated and decided by an admin.                           *)
(*                                                                         *)
(* There is at most one dispute account per booking (its PDA is seeded     *)
(* with the booking).  The account's `outcome` and evidence fields are     *)
(* left out: no handler stores them (resolve_dispute never writes outcome, *)
(* link_evidence takes the dispute account read-only).                     *)
(***************************************************************************)
EXTENDS Escrow, Functions

CONSTANTS
    Admins,         \* keys that are, or may become, dispute admins
    InitialAdmins,  \* DisputeConfig.admins as initialised, at least one
    Outcomes,       \* the verdicts the admins of an instance give
    Disputants,     \* the users of an instance who open disputes
    PairedAccounts  \* bound of an instance: disputes are withdrawn with their own booking

FaultOutcomes == {"GuestFavored", "HostFavored", "MaliciousClaim"}
AllOutcomes   == {[kind |-> "NoFaultFound"]}
                    \cup [kind : FaultOutcomes, severity : Severities]

ASSUME DisputesAssumption ==
    /\ InitialAdmins \in [Admins -> Nat]
    /\ \E a \in Admins : InitialAdmins[a] > 0
    /\ Outcomes \subseteq AllOutcomes
    /\ Disputants \subseteq Users
    /\ PairedAccounts \in BOOLEAN

VARIABLES
    disputeState,   \* dispute.state, "None" while the account does not exist
    openedBy,       \* dispute.opened_by
    openedAt,       \* dispute.opened_at
    originalStatus, \* dispute.original_booking_status
    admins          \* how often DisputeConfig.admins, a vector, names each key

(* History variables, which no program stores.  solve_dispute_before_admin
   does not compare the booking it restores with the dispute it closes, and
   nothing can be said of a booking restored by the withdrawal of another
   one's dispute: the properties set it aside, and it alone. *)
VARIABLES
    strayed,        \* bookings restored with the dispute of another booking
    abandoned       \* bookings whose dispute was withdrawn with another booking

accountVars == <<disputeState, openedBy, openedAt, originalStatus>>
historyVars == <<strayed, abandoned>>
disputeVars == <<accountVars, admins, historyVars>>

Parties       == {"Guest", "Host"}
DisputeStates == {"None", "OpenP2P", "Escalated", "ResolvedByP2P", "ResolvedByAdmin"}

(* Mutant: a released stay can still be disputed. *)
DisputableLate == {"Active", "Completed", "Released"}

(* The statuses a dispute may freeze. *)
Disputable    == {"Active", "Completed"}

DisputesTypeOK ==
    /\ disputeState \in [Bookings -> DisputeStates]
    /\ openedBy \in [Bookings -> Parties]
    /\ openedAt \in [Bookings -> Nat]
    /\ originalStatus \in [Bookings -> Disputable]
    /\ admins \in [Admins -> Nat]
    /\ strayed \subseteq Bookings
    /\ abandoned \subseteq Bookings

DisputesInit ==
    /\ disputeState = [b \in Bookings |-> "None"]
    /\ openedBy = [b \in Bookings |-> "Guest"]
    /\ openedAt = [b \in Bookings |-> 0]
    /\ originalStatus = [b \in Bookings |-> "Active"]
    /\ admins = InitialAdmins
    /\ strayed = {}
    /\ abandoned = {}

MAX_ADMINS == 5
DISPUTE_P2P_WINDOW == DAY
ESCROW_SLASH_MEDIUM_BPS == 5000
ESCROW_SLASH_HIGH_BPS == 10000
DEPOSIT_SLASH_MEDIUM_BPS == 3000
DEPOSIT_SLASH_HIGH_BPS == 10000

PartyProfile(b, party) == IF party = "Guest" THEN Guest[b] ELSE HostOf(b)

IsAdmin(a) == admins[a] > 0

-----------------------------------------------------------------------------
(* The two instructions other programs' accounts are changed through. *)

(* cpi_update_booking_status.  updated_at is left alone. *)
UpdateBookingStatus(b, new) ==
    /\ new = "Disputed" => status[b] \in Disputable
    /\ new \in {"DisputeResolved", "DisputeRejected"} => status[b] = "Disputed"
    /\ status' = [status EXCEPT ![b] = new]

(* Mutant: the guilty party's part is rounded on its own. *)
RoundsBothShares(amount, slashBps) ==
    LET distributable == amount - BasisPoints(amount, FeeBps)
    IN  [victim |-> BasisPoints(distributable, slashBps),
         guilty |-> BasisPoints(distributable, 10000 - slashBps),
         stayke |-> BasisPoints(amount, FeeBps)]

(* cpi_resolve_dispute_transfer: the fee first, then the victim's share of
   what is left, the rest to the guilty party. *)
DisputeSplit(amount, slashBps) ==
    LET fee           == BasisPoints(amount, FeeBps)
        distributable == amount - fee
        victimShare   == BasisPoints(distributable, slashBps)
    IN  [victim |-> victimShare, guilty |-> distributable - victimShare, stayke |-> fee]

ResolveDisputeTransferAccounts(b, guilty, victim) ==
    /\ status[b] = "Disputed"
    /\ guilty \in {Guest[b], HostOf(b)}
    /\ victim \in {Guest[b], HostOf(b)}
    /\ guilty # victim

-----------------------------------------------------------------------------
OpenDisputeAccounts(b, initiator) ==
    /\ Verified(initiator)
    /\ status[b] \in Disputable
    /\ disputeState[b] = "None"

OpenDispute(b, initiator) ==
    /\ OpenDisputeAccounts(b, initiator)
    /\ initiator \in {Guest[b], HostOf(b)}
    /\ disputeState' = [disputeState EXCEPT ![b] = "OpenP2P"]
    /\ openedBy' = [openedBy EXCEPT ![b] = IF initiator = Guest[b] THEN "Guest" ELSE "Host"]
    /\ openedAt' = [openedAt EXCEPT ![b] = now]
    /\ originalStatus' = [originalStatus EXCEPT ![b] = status[b]]
    /\ UpdateBookingStatus(b, "Disputed")
    /\ UNCHANGED <<coreVars, treasuryVars, now, termVars, updatedAt, reviewVars,
                   escrow, platform, occupied, admins, historyVars>>

(* solve_dispute_before_admin: the opener withdraws the dispute d.  The
   booking b it passes is any existing booking whose party on the opener's
   side is the signer; the code does not compare it with dispute.booking. *)
SolveDisputeBeforeAdminAccounts(d, b) ==
    /\ status[b] # "None"
    /\ PairedAccounts => b = d

SolveDisputeBeforeAdmin(d, b, initiator) ==
    /\ SolveDisputeBeforeAdminAccounts(d, b)
    /\ disputeState[d] = "OpenP2P"
    /\ now <= openedAt[d] + DISPUTE_P2P_WINDOW
    /\ initiator = PartyProfile(b, openedBy[d])
    /\ disputeState' = [disputeState EXCEPT ![d] = "ResolvedByP2P"]
    /\ UpdateBookingStatus(b, originalStatus[d])
    /\ strayed' = IF b = d THEN strayed ELSE strayed \cup {b}
    /\ abandoned' = IF b = d THEN abandoned ELSE abandoned \cup {d}
    /\ UNCHANGED <<coreVars, treasuryVars, now, termVars, updatedAt, reviewVars,
                   escrow, platform, occupied, openedBy, openedAt, originalStatus, admins>>

(* escalate_dispute: anyone, once the window of the parties is over. *)
EscalationDue(d) == now > openedAt[d] + DISPUTE_P2P_WINDOW

EscalateDispute(d) ==
    /\ disputeState[d] = "OpenP2P"
    /\ EscalationDue(d)
    /\ disputeState' = [disputeState EXCEPT ![d] = "Escalated"]
    /\ UNCHANGED <<coreVars, treasuryVars, escrowVars, openedBy, openedAt,
                   originalStatus, admins, historyVars>>

-----------------------------------------------------------------------------
(* resolve_dispute. *)

(* The victim's share of the escrow and the part of the guilty party's
   deposit that is struck from the record, in basis points.  A host found
   right gets the whole escrow. *)
SlashRates(severity, guilty) ==
    [escrow   |-> IF guilty = "Guest" THEN 10000
                  ELSE CASE severity = "High"   -> ESCROW_SLASH_HIGH_BPS
                         [] severity = "Medium" -> ESCROW_SLASH_MEDIUM_BPS
                         [] severity = "Low"    -> 0,
     treasury |-> CASE severity = "High"   -> DEPOSIT_SLASH_HIGH_BPS
                    [] severity = "Medium" -> DEPOSIT_SLASH_MEDIUM_BPS
                    [] severity = "Low"    -> 0]

(* Who a fault is found with; a malicious claim is the opener's fault. *)
GuiltyParty(b, kind) ==
    CASE kind = "GuestFavored"   -> "Host"
      [] kind = "HostFavored"    -> "Guest"
      [] kind = "MaliciousClaim" -> openedBy[b]

Judgement(b, outcome) ==
    LET party == GuiltyParty(b, outcome.kind)
    IN  [guilty |-> PartyProfile(b, party),
         victim |-> IF party = "Guest" THEN HostOf(b) ELSE Guest[b],
         rates  |-> SlashRates(outcome.severity, party)]

(* Mutant: an admin decides before the parties had their time. *)
JudgesUnescalated(a, b) == IsAdmin(a) /\ disputeState[b] \in {"OpenP2P", "Escalated"}

ResolveDisputeAccounts(a, b) ==
    /\ IsAdmin(a)
    /\ disputeState[b] = "Escalated"

(* What the treasury pays to the victim is the deposit LESS the slash, while
   the slash is what the guilty party's record loses. *)
ExecuteJudgement(b, outcome) ==
    LET j       == Judgement(b, outcome)
        split   == DisputeSplit(total[b], j.rates.escrow)
        slash   == BasisPoints(deposited[j.guilty], j.rates.treasury)
        payment == deposited[j.guilty] - slash
    IN  /\ ResolveDisputeTransferAccounts(b, j.guilty, j.victim)
        /\ AddInfraction(j.guilty, outcome.severity)
        /\ wallet' = Credit(Credit(wallet, j.guilty, split.guilty), j.victim,
                            split.victim + payment)
        /\ platform' = platform + split.stayke
        /\ CloseEscrow(b, split.guilty + split.victim + split.stayke)
        /\ UpdateBookingStatus(b, "DisputeResolved")
        /\ PenalizeTransfer(payment)
        /\ DecreaseDeposit(j.guilty, slash)
        /\ UNCHANGED <<identityVars, activeBooking, stayVars, clientCancellations,
                       hostCancellations, scoreVars, now, termVars, updatedAt,
                       reviewVars, occupied>>

(* No fault: only the dispute changes, the booking stays frozen until the
   dispute is closed. *)
ResolveDispute(a, b, outcome) ==
    /\ ResolveDisputeAccounts(a, b)
    /\ disputeState' = [disputeState EXCEPT ![b] = "ResolvedByAdmin"]
    /\ IF outcome.kind = "NoFaultFound"
       THEN UNCHANGED <<coreVars, treasuryVars, escrowVars>>
       ELSE ExecuteJudgement(b, outcome)
    /\ UNCHANGED <<openedBy, openedAt, originalStatus, admins, historyVars>>

-----------------------------------------------------------------------------
(* Mutants: an open dispute can be closed; only a withdrawn one can. *)
ClosesOpen(d)      == disputeState[d] # "None"
ClosesWithdrawn(d) == disputeState[d] = "ResolvedByP2P"

(* close_dispute: anyone, once the dispute is resolved. *)
CloseDisputeAccounts(d) == disputeState[d] \in {"ResolvedByAdmin", "ResolvedByP2P"}

(* Mutant: the account stays, and can be closed again. *)
KeepsDispute(d) == UNCHANGED accountVars

(* The account is closed: its PDA may be created again. *)
CloseDisputeAccount(d) ==
    /\ disputeState' = [disputeState EXCEPT ![d] = "None"]
    /\ openedBy' = [openedBy EXCEPT ![d] = "Guest"]
    /\ openedAt' = [openedAt EXCEPT ![d] = 0]
    /\ originalStatus' = [originalStatus EXCEPT ![d] = "Active"]

CountStay(d) ==
    /\ IncrementCompletedStays(Guest[d])
    /\ ClearActiveBooking(Guest[d])
    /\ IncrementHostedStays(HostOf(d))

(* Mutants: a withdrawn dispute counts the stay too; every booking an admin
   decided thaws; none does. *)
CountsWithdrawn(d) ==
    IF status[d] = "Disputed"
    THEN UpdateBookingStatus(d, originalStatus[d]) /\ UNCHANGED <<stayVars, activeBooking>>
    ELSE CountStay(d) /\ UNCHANGED status

ThawsDecided(d) ==
    /\ IF disputeState[d] = "ResolvedByAdmin"
       THEN UpdateBookingStatus(d, originalStatus[d])
       ELSE UNCHANGED status
    /\ UNCHANGED <<stayVars, activeBooking>>

LeavesFrozen(d) ==
    IF disputeState[d] = "ResolvedByAdmin" /\ status[d] # "Disputed"
    THEN CountStay(d) /\ UNCHANGED status
    ELSE UNCHANGED <<status, stayVars, activeBooking>>

(* After a verdict without fault the booking thaws; after a verdict that paid
   the escrow out, release_funds never runs, so the stay is counted here. *)
SettleDisputedStay(d) ==
    IF disputeState[d] # "ResolvedByAdmin"
    THEN UNCHANGED <<status, stayVars, activeBooking>>
    ELSE IF status[d] = "Disputed"
    THEN /\ UpdateBookingStatus(d, originalStatus[d])
         /\ UNCHANGED <<stayVars, activeBooking>>
    ELSE CountStay(d) /\ UNCHANGED status

CloseDispute(d) ==
    /\ CloseDisputeAccounts(d)
    /\ SettleDisputedStay(d)
    /\ CloseDisputeAccount(d)
    /\ UNCHANGED <<identityVars, deposited, reputationVars, scoreVars, treasuryVars,
                   now, termVars, updatedAt, reviewVars, escrow, platform, occupied,
                   admins, historyVars>>

-----------------------------------------------------------------------------
(* The admins change the list of admins themselves, whose order nothing reads. *)
AddAdmin(a, new) ==
    /\ IsAdmin(a)
    /\ SumFunction(admins) < MAX_ADMINS
    /\ admins' = [admins EXCEPT ![new] = @ + 1]
    /\ UNCHANGED <<coreVars, treasuryVars, escrowVars, accountVars, historyVars>>

DeleteAdmin(a, old) ==
    /\ IsAdmin(a)
    /\ admins' = [admins EXCEPT ![old] = 0]
    /\ UNCHANGED <<coreVars, treasuryVars, escrowVars, accountVars, historyVars>>
=============================================================================
