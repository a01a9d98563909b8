------------------------------- MODULE Escrow -------------------------------
(***************************************************************************)
(* stayke-escrow: the life of a booking, from the guest's payment into a   *)
(* per-booking escrow account to its payout.                               *)
(*                                                                         *)
(* One action per instruction.  An instruction is one transaction: if any  *)
(* of its transfers, calls or checks fails, nothing happens, so every      *)
(* check is a conjunct of the action wherever the handler makes it.        *)
(*                                                                         *)
(* A booking is named by its PDA (property, guest, check-in), so these     *)
(* three are constants of a booking; the host is the owner of the listing. *)
(* The check-out and the price are fixed by create_booking.                *)
(***************************************************************************)
EXTENDS Treasury, Availability

CONSTANTS
    Owner,          \* the host of each listing
    Guest,          \* booking.guest
    PropertyOf,     \* booking.property
    CheckIn,        \* booking.check_in
    CheckOuts,      \* check-out times a guest asks for
    Prices,         \* nightly prices the listing's host sets
    FeeBps,         \* GlobalConfig.fee_bps
    ReviewScores,   \* the scores given in an instance
    MaxTime         \* bound on the clock

ASSUME EscrowAssumption ==
    /\ Owner \in [Properties -> Users]
    /\ Guest \in [Bookings -> Users]
    /\ PropertyOf \in [Bookings -> Properties]
    /\ CheckIn \in [Bookings -> Nat]
    /\ CheckOuts \subseteq Nat
    /\ Prices \subseteq Nat
    /\ ReviewScores \subseteq Scores
    /\ FeeBps \in Nat
    /\ FeeBps <= 10000
    /\ MaxTime \in Nat
    /\ \A b, c \in Bookings :
          <<Guest[b], PropertyOf[b], CheckIn[b]>> = <<Guest[c], PropertyOf[c], CheckIn[c]>>
              => b = c

VARIABLES
    now,            \* Clock::unix_timestamp, in ticks
    status,         \* booking.status, "None" while the account does not exist
    checkOut,       \* booking.check_out
    total,          \* booking.total_price
    updatedAt,      \* booking.updated_at
    hostReview,     \* booking.host_review, 0 when not given
    guestReview,    \* booking.guest_review, 0 when not given
    listingScore,   \* Listing.total_reviews and Listing.rating
    escrow,         \* balance of the escrow account, 0 when there is none
    platform        \* balance of the platform vault

termVars   == <<checkOut, total>>
reviewVars == <<hostReview, guestReview, listingScore>>
escrowVars == <<now, status, termVars, updatedAt, reviewVars, escrow, platform, occupied>>

HostOf(b) == Owner[PropertyOf[b]]

Statuses == {"None", "Pending", "HostAccepted", "Active", "Completed", "Released",
             "Cancelled", "Disputed", "DisputeResolved", "DisputeRejected"}

EscrowTypeOK ==
    /\ AvailabilityTypeOK
    /\ now \in Nat
    /\ status \in [Bookings -> Statuses]
    /\ checkOut \in [Bookings -> Nat]
    /\ total \in [Bookings -> Nat]
    /\ updatedAt \in [Bookings -> Nat]
    /\ hostReview \in [Bookings -> {0} \cup Scores]
    /\ guestReview \in [Bookings -> {0} \cup Scores]
    /\ listingScore \in [Properties -> [count : Nat, total : Nat]]
    /\ escrow \in [Bookings -> Nat]
    /\ platform \in Nat

EscrowInit ==
    /\ AvailabilityInit
    /\ now = 0
    /\ status = [b \in Bookings |-> "None"]
    /\ checkOut = [b \in Bookings |-> 0]
    /\ total = [b \in Bookings |-> 0]
    /\ updatedAt = [b \in Bookings |-> 0]
    /\ hostReview = [b \in Bookings |-> 0]
    /\ guestReview = [b \in Bookings |-> 0]
    /\ listingScore = [p \in Properties |-> [count |-> 0, total |-> 0]]
    /\ escrow = [b \in Bookings |-> 0]
    /\ platform = 0

-----------------------------------------------------------------------------
(* Money. *)

Percent(amount, percentage) == (amount * percentage) \div 100

BasisPoints(amount, bps) == (amount * bps) \div 10000

CANCELLATION_WINDOW == 3 * DAY
CANCELLATION_REFUND_PERCENTAGE == 60
CANCELLATION_HOST_SHARE_PERCENTAGE == 75
HOST_CANCELLATION_PENALTY_PERCENTAGE == 10

(* Mutant: the platform's part is rounded on its own. *)
RoundsEveryPart(amount) ==
    LET refund    == Percent(amount, CANCELLATION_REFUND_PERCENTAGE)
        remaining == amount - refund
    IN  [guest |-> refund, host |-> Percent(remaining, 75), stayke |-> Percent(remaining, 25)]

(* What a guest who cancels inside the window, the host and the platform get. *)
InsideWindowSplit(amount) ==
    LET refund    == Percent(amount, CANCELLATION_REFUND_PERCENTAGE)
        remaining == amount - refund
        share     == Percent(remaining, CANCELLATION_HOST_SHARE_PERCENTAGE)
    IN  [guest |-> refund, host |-> share, stayke |-> remaining - share]

FullRefund(amount) == [guest |-> amount, host |-> 0, stayke |-> 0]

GuestCancellationSplit(b) ==
    IF CheckIn[b] - now > CANCELLATION_WINDOW
    THEN FullRefund(total[b])
    ELSE InsideWindowSplit(total[b])

HostSlash(b) ==
    IF CheckIn[b] - now > CANCELLATION_WINDOW
    THEN 0
    ELSE Percent(deposited[HostOf(b)], HOST_CANCELLATION_PENALTY_PERCENTAGE)

(* Mutant: the host's part is rounded on its own. *)
RoundsHostPart(amount) ==
    [host |-> BasisPoints(amount, 10000 - FeeBps), stayke |-> BasisPoints(amount, FeeBps)]

(* The platform's fee and the host's part of a completed stay. *)
ReleaseSplit(amount) ==
    LET fee == BasisPoints(amount, FeeBps)
    IN  [host |-> amount - fee, stayke |-> fee]

Credit(balances, u, amount) == [balances EXCEPT ![u] = @ + amount]

(* SPL closes a token account only when it is empty: paid, the sum of the
   transfers made before, must be all that the escrow held. *)
CloseEscrow(b, paid) ==
    /\ escrow[b] = paid
    /\ escrow' = [escrow EXCEPT ![b] = 0]

(* Anchor's `close`: the PDA may be created again. *)
CloseBooking(b) ==
    /\ status' = [status EXCEPT ![b] = "None"]
    /\ checkOut' = [checkOut EXCEPT ![b] = 0]
    /\ total' = [total EXCEPT ![b] = 0]
    /\ updatedAt' = [updatedAt EXCEPT ![b] = 0]

-----------------------------------------------------------------------------
(* create_booking. *)
CreateBookingAccounts(b) ==
    LET client == Guest[b]
        host   == HostOf(b)
    IN  /\ client # host
        /\ Verified(client)
        /\ activeBooking[client] = NoBooking
        /\ PassesDepositGate(client)
        /\ Verified(host)
        /\ PassesDepositGate(host)
        /\ status[b] = "None"

(* Mutant: the two ends of the stay are swapped. *)
NightsSwapped(in, out) == (in - out) \div DAY

(* A stay shorter than 24 h has no night to pay. *)
Nights(in, out) == (out - in) \div DAY

FundBooking(b, out, price) ==
    LET cost == price * Nights(CheckIn[b], out)
    IN  /\ CreateBookingAccounts(b)
        /\ CheckIn[b] < out
        /\ CheckIn[b] >= now
        /\ wallet[Guest[b]] >= cost
        /\ wallet' = [wallet EXCEPT ![Guest[b]] = @ - cost]
        /\ escrow' = [escrow EXCEPT ![b] = cost]
        /\ status' = [status EXCEPT ![b] = "Pending"]
        /\ checkOut' = [checkOut EXCEPT ![b] = out]
        /\ total' = [total EXCEPT ![b] = cost]
        /\ updatedAt' = [updatedAt EXCEPT ![b] = now]
        /\ UNCHANGED <<coreVars, vault, now, reviewVars, platform>>

CreateBooking(b, out, price) ==
    /\ FundBooking(b, out, price)
    /\ ReserveDaysSingleYear(PropertyOf[b], CheckIn[b], out)

CreateBookingCrossYear(b, out, price) ==
    /\ FundBooking(b, out, price)
    /\ ReserveDaysCrossYears(PropertyOf[b], CheckIn[b], out)

(* host_accept_booking.  The code compares updated_at with updated_at + 24 h,
   so the acceptance has no deadline. *)
HostAcceptBookingAccounts(b) ==
    /\ Verified(HostOf(b))
    /\ PassesDepositGate(HostOf(b))
    /\ status[b] = "Pending"
    /\ updatedAt[b] <= updatedAt[b] + DAY

HostAcceptBooking(b) ==
    /\ HostAcceptBookingAccounts(b)
    /\ status' = [status EXCEPT ![b] = "HostAccepted"]
    /\ updatedAt' = [updatedAt EXCEPT ![b] = now]
    /\ UNCHANGED <<coreVars, treasuryVars, now, termVars, reviewVars, escrow,
                   platform, occupied>>

(* host_reject_booking: full refund, the booking account disappears. *)
HostRejectBookingAccounts(b) ==
    /\ Verified(HostOf(b))
    /\ status[b] = "Pending"

RefundAndClose(b) ==
    /\ escrow[b] >= total[b]
    /\ wallet' = Credit(wallet, Guest[b], total[b])
    /\ CloseEscrow(b, total[b])
    /\ CloseBooking(b)
    /\ UNCHANGED <<coreVars, vault, now, reviewVars, platform>>

HostRejectBooking(b) ==
    /\ HostRejectBookingAccounts(b)
    /\ ReleaseDaysSingleYear(PropertyOf[b], CheckIn[b], checkOut[b])
    /\ RefundAndClose(b)

HostRejectBookingCrossYear(b) ==
    /\ HostRejectBookingAccounts(b)
    /\ ReleaseDaysCrossYears(PropertyOf[b], CheckIn[b], checkOut[b])
    /\ RefundAndClose(b)

(* expire_booking: anyone, once a request is unanswered for more than 24 h. *)
ExpireBookingAccounts(b) == status[b] = "Pending"

(* Mutant: the two sides are swapped. *)
ExpirySwapped(b) == now + DAY < updatedAt[b]

ExpiryDue(b) == updatedAt[b] + DAY < now

ExpireBooking(b) ==
    /\ ExpireBookingAccounts(b)
    /\ ExpiryDue(b)
    /\ ReleaseDaysSingleYear(PropertyOf[b], CheckIn[b], checkOut[b])
    /\ RefundAndClose(b)

ExpireBookingCrossYear(b) ==
    /\ ExpireBookingAccounts(b)
    /\ ExpiryDue(b)
    /\ ReleaseDaysCrossYears(PropertyOf[b], CheckIn[b], checkOut[b])
    /\ RefundAndClose(b)

-----------------------------------------------------------------------------
(* guest_cancel_booking: the two variants differ in the last moment. *)
(* Mutant: a running stay can be cancelled. *)
CancelsRunningStay(b) == status[b] \in {"Pending", "HostAccepted", "Active"}

CancelBookingAccounts(b) == status[b] \in {"Pending", "HostAccepted"}

GuestCancel(b) ==
    LET split == GuestCancellationSplit(b)
    IN  /\ CancelBookingAccounts(b)
        /\ escrow[b] >= total[b]
        /\ wallet' = Credit(Credit(wallet, Guest[b], split.guest), HostOf(b), split.host)
        /\ platform' = platform + split.stayke
        /\ CloseEscrow(b, split.guest + split.host + split.stayke)
        /\ IncrementClientCancellations(Guest[b])
        /\ status' = [status EXCEPT ![b] = "Cancelled"]
        /\ UNCHANGED <<identityVars, activeBooking, deposited, stayVars,
                       hostCancellations, infractions, scoreVars, vault, now,
                       termVars, updatedAt, reviewVars>>

GuestCancelBooking(b) ==
    /\ now <= CheckIn[b]
    /\ GuestCancel(b)
    /\ ReleaseDaysSingleYear(PropertyOf[b], CheckIn[b], checkOut[b])

(* Mutant: compared like the other variant. *)
GuestCancelAtCheckIn(b) ==
    /\ now <= CheckIn[b]
    /\ GuestCancel(b)
    /\ ReleaseDaysCrossYears(PropertyOf[b], CheckIn[b], checkOut[b])

GuestCancelBookingCrossYear(b) ==
    /\ now < CheckIn[b]
    /\ GuestCancel(b)
    /\ ReleaseDaysCrossYears(PropertyOf[b], CheckIn[b], checkOut[b])

(* host_cancel_booking: full refund, and inside the window a tenth of the
   host's deposit on top of it. *)
(* Mutant: only the vault sees the slash. *)
SlashUnrecorded(b, slash) ==
    /\ IF slash > 0 THEN PenalizeTransfer(slash) ELSE UNCHANGED vault
    /\ UNCHANGED deposited

SlashHost(b, slash) ==
    IF slash > 0
    THEN PenalizeTransfer(slash) /\ DecreaseDeposit(HostOf(b), slash)
    ELSE UNCHANGED <<vault, deposited>>

HostCancel(b) ==
    LET slash == HostSlash(b)
    IN  /\ CancelBookingAccounts(b)
        /\ now < CheckIn[b]
        /\ escrow[b] >= total[b]
        /\ SlashHost(b, slash)
        /\ wallet' = Credit(wallet, Guest[b], total[b] + slash)
        /\ CloseEscrow(b, total[b])
        /\ IncrementHostCancellations(HostOf(b))
        /\ status' = [status EXCEPT ![b] = "Cancelled"]
        /\ UNCHANGED <<identityVars, activeBooking, stayVars, clientCancellations,
                       infractions, scoreVars, now, termVars, updatedAt,
                       reviewVars, platform>>

HostCancelBooking(b) ==
    /\ HostCancel(b)
    /\ ReleaseDaysSingleYear(PropertyOf[b], CheckIn[b], checkOut[b])

HostCancelBookingCrossYear(b) ==
    /\ HostCancel(b)
    /\ ReleaseDaysCrossYears(PropertyOf[b], CheckIn[b], checkOut[b])

-----------------------------------------------------------------------------
(* booking_starts: anyone, from check-in on.  The caller chooses the host
   profile it passes; nothing ties it to booking.host. *)
BookingStartsAccounts(b, hostProfile) ==
    /\ status[b] = "HostAccepted"
    /\ Verified(Guest[b])
    /\ PassesDepositGate(Guest[b])
    /\ Verified(hostProfile)
    /\ PassesDepositGate(hostProfile)

BookingStarts(b, hostProfile) ==
    /\ BookingStartsAccounts(b, hostProfile)
    /\ now >= CheckIn[b]
    /\ status' = [status EXCEPT ![b] = "Active"]
    /\ updatedAt' = [updatedAt EXCEPT ![b] = now]
    /\ SetActiveBooking(Guest[b], b)
    /\ UNCHANGED <<identityVars, deposited, stayVars, reputationVars, scoreVars,
                   treasuryVars, now, termVars, reviewVars, escrow, platform, occupied>>

(* booking_completes: anyone, from check-out on. *)
BookingCompletesAccounts(b) == status[b] = "Active"

CompletionDue(b) == now >= checkOut[b]

BookingCompletes(b) ==
    /\ BookingCompletesAccounts(b)
    /\ CompletionDue(b)
    /\ status' = [status EXCEPT ![b] = "Completed"]
    /\ updatedAt' = [updatedAt EXCEPT ![b] = now]
    /\ UNCHANGED <<coreVars, treasuryVars, now, termVars, reviewVars, escrow,
                   platform, occupied>>

(* Mutant: a frozen booking is paid out. *)
ReleasesFrozen(b) == status[b] \in {"Completed", "Disputed"}

(* release_funds: anyone, 24 h after completion. *)
ReleaseFundsAccounts(b) == status[b] = "Completed"

(* Mutant: no day is left for a dispute. *)
PaysAtOnce(b) == now >= updatedAt[b]

PayoutDue(b) == now >= updatedAt[b] + DAY

ReleaseFunds(b) ==
    LET split == ReleaseSplit(total[b])
    IN  /\ ReleaseFundsAccounts(b)
        /\ PayoutDue(b)
        /\ wallet' = Credit(wallet, HostOf(b), split.host)
        /\ platform' = platform + split.stayke
        /\ CloseEscrow(b, split.host + split.stayke)
        /\ status' = [status EXCEPT ![b] = "Released"]
        /\ IncrementCompletedStays(Guest[b])
        /\ ClearActiveBooking(Guest[b])
        /\ IncrementHostedStays(HostOf(b))
        /\ UNCHANGED <<identityVars, deposited, reputationVars, scoreVars, vault, now,
                       termVars, updatedAt, reviewVars, occupied>>

-----------------------------------------------------------------------------
(* The reviews: once each, after the stay. *)
Reviewable(b) ==
    status[b] \in {"Completed", "Released", "DisputeResolved", "DisputeRejected"}

(* Mutant: a guest reviews again and again. *)
ReviewsAgain(b) == Reviewable(b)

GuestReviewAccounts(b) == guestReview[b] = 0 /\ Reviewable(b)

GuestReviews(b, score) ==
    /\ GuestReviewAccounts(b)
    /\ guestReview' = [guestReview EXCEPT ![b] = score]
    /\ UpdateHostReview(HostOf(b), score)
    /\ listingScore' = [listingScore EXCEPT ![PropertyOf[b]] = AddScore(@, score)]
    /\ UNCHANGED <<identityVars, activeBooking, deposited, stayVars, reputationVars,
                   clientScore, treasuryVars, now, status, termVars, updatedAt,
                   hostReview, escrow, platform, occupied>>

HostReviewAccounts(b) == hostReview[b] = 0 /\ Reviewable(b)

HostReviews(b, score) ==
    /\ HostReviewAccounts(b)
    /\ hostReview' = [hostReview EXCEPT ![b] = score]
    /\ UpdateClientReview(Guest[b], score)
    /\ UNCHANGED <<identityVars, activeBooking, deposited, stayVars, reputationVars,
                   hostScore, treasuryVars, now, status, termVars, updatedAt,
                   guestReview, listingScore, escrow, platform, occupied>>
=============================================================================
