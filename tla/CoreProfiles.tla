---------------------------- MODULE CoreProfiles ----------------------------
(***************************************************************************)
(* stayke-core: the user and reputation profiles, as the other programs    *)
(* read and change them.                                                   *)
(*                                                                         *)
(* A profile field is a function from Users.  Each handler_* mutator of    *)
(* instructions/cpi is an operator that primes exactly the field it        *)
(* writes; the instruction that makes the call leaves the others           *)
(* unchanged.  A Solana transaction is atomic, so a call and its caller    *)
(* are one step.  Which program may call which mutator (cpi_authority) is  *)
(* fixed by the action in which the operator is used.                      *)
(*                                                                         *)
(* banned is left out: no instruction ever sets it.  The counters are u8   *)
(* to u64 with saturating additions; no instance comes near their limit.   *)
(***************************************************************************)
EXTENDS Integers, FiniteSets

CONSTANTS
    Users,              \* wallets that own a UserProfile
    Identities,         \* Identity accounts issued by the verification authority
    NoIdentity,         \* UserProfile.identity = None
    InitialIdentity,    \* the identity each profile starts a behaviour with
    Bookings,           \* booking PDAs
    NoBooking,          \* UserProfile.active_booking = None
    FreeOps,            \* GlobalConfig.free_ops
    MinimumDeposit      \* GlobalConfig.minimum_deposit

ASSUME CoreAssumption ==
    /\ NoIdentity \notin Identities
    /\ InitialIdentity \in [Users -> Identities \cup {NoIdentity}]
    /\ \A u, v \in Users : InitialIdentity[u] = InitialIdentity[v]
                              => u = v \/ InitialIdentity[u] = NoIdentity
    /\ NoBooking \notin Bookings
    /\ FreeOps \in Nat
    /\ MinimumDeposit \in Nat

VARIABLES
    identity,               \* UserProfile.identity
    linked,                 \* the identities whose `linked` flag is set
    activeBooking,          \* UserProfile.active_booking
    deposited,              \* UserProfile.deposited
    completedStays,         \* UserProfile.completed_stays
    hostedStays,            \* UserProfile.hosted_stays
    clientCancellations,    \* ReputationProfile.client_cancellations
    hostCancellations,      \* ReputationProfile.host_cancellations
    infractions,            \* ReputationProfile.{low,medium,high}_infractions
    hostScore,              \* host_reviews and total_score_host
    clientScore             \* client_reviews and total_score_client

identityVars   == <<identity, linked>>
reputationVars == <<clientCancellations, hostCancellations, infractions>>
scoreVars      == <<hostScore, clientScore>>
stayVars       == <<completedStays, hostedStays>>
coreVars       == <<identityVars, activeBooking, deposited, stayVars,
                    reputationVars, scoreVars>>

Severities == {"Low", "Medium", "High"}
Scores     == 1..5

CoreTypeOK ==
    /\ identity \in [Users -> Identities \cup {NoIdentity}]
    /\ linked \subseteq Identities
    /\ activeBooking \in [Users -> Bookings \cup {NoBooking}]
    /\ deposited \in [Users -> Nat]
    /\ completedStays \in [Users -> Nat]
    /\ hostedStays \in [Users -> Nat]
    /\ clientCancellations \in [Users -> Nat]
    /\ hostCancellations \in [Users -> Nat]
    /\ infractions \in [Users -> [Severities -> Nat]]
    /\ hostScore \in [Users -> [count : Nat, total : Nat]]
    /\ clientScore \in [Users -> [count : Nat, total : Nat]]

(* Fresh profiles, some of them verified already. *)
CoreInit ==
    /\ identity = InitialIdentity
    /\ linked = {InitialIdentity[u] : u \in Users} \ {NoIdentity}
    /\ activeBooking = [u \in Users |-> NoBooking]
    /\ deposited = [u \in Users |-> 0]
    /\ completedStays = [u \in Users |-> 0]
    /\ hostedStays = [u \in Users |-> 0]
    /\ clientCancellations = [u \in Users |-> 0]
    /\ hostCancellations = [u \in Users |-> 0]
    /\ infractions = [u \in Users |-> [s \in Severities |-> 0]]
    /\ hostScore = [u \in Users |-> [count |-> 0, total |-> 0]]
    /\ clientScore = [u \in Users |-> [count |-> 0, total |-> 0]]

-----------------------------------------------------------------------------
(* Constraints on a profile that several programs repeat. *)

Verified(u) == identity[u] # NoIdentity

(* The treasury guarantee, waived while the user is in the free tier. *)
PassesDepositGate(u) ==
    \/ completedStays[u] + hostedStays[u] < FreeOps
    \/ deposited[u] >= MinimumDeposit

-----------------------------------------------------------------------------
(* Mutant: an identity may be linked twice. *)
RelinksIdentity(u, i) == identity[u] = NoIdentity

(* The authority links an unlinked identity to an unverified profile. *)
LinkIdentityAccounts(u, i) ==
    /\ identity[u] = NoIdentity
    /\ i \notin linked

LinkIdentity(u, i) ==
    /\ LinkIdentityAccounts(u, i)
    /\ identity' = [identity EXCEPT ![u] = i]
    /\ linked' = linked \cup {i}

-----------------------------------------------------------------------------
(* The CPI-gated mutators. *)

SaturatingSub(a, b) == IF a >= b THEN a - b ELSE 0

IncreaseDeposit(u, amount) ==
    deposited' = [deposited EXCEPT ![u] = @ + amount]

DecreaseDeposit(u, amount) ==
    deposited' = [deposited EXCEPT ![u] = SaturatingSub(@, amount)]

(* Sets the slot whatever it held before. *)
SetActiveBooking(u, b) == activeBooking' = [activeBooking EXCEPT ![u] = b]

(* Mutant: the slot is never cleared. *)
KeepsActiveBooking(u) == UNCHANGED activeBooking

(* Clears the slot whichever booking it names. *)
ClearActiveBooking(u) == activeBooking' = [activeBooking EXCEPT ![u] = NoBooking]

IncrementCompletedStays(u) == completedStays' = [completedStays EXCEPT ![u] = @ + 1]

IncrementHostedStays(u) == hostedStays' = [hostedStays EXCEPT ![u] = @ + 1]

AddInfraction(u, severity) ==
    infractions' = [infractions EXCEPT ![u][severity] = @ + 1]

IncrementClientCancellations(u) ==
    clientCancellations' = [clientCancellations EXCEPT ![u] = @ + 1]

IncrementHostCancellations(u) ==
    hostCancellations' = [hostCancellations EXCEPT ![u] = @ + 1]

AddScore(score, s) == [count |-> score.count + 1, total |-> score.total + s]

UpdateHostReview(u, score) ==
    /\ score \in Scores
    /\ hostScore' = [hostScore EXCEPT ![u] = AddScore(@, score)]

UpdateClientReview(u, score) ==
    /\ score \in Scores
    /\ clientScore' = [clientScore EXCEPT ![u] = AddScore(@, score)]
=============================================================================
