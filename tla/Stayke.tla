------------------------------- MODULE Stayke -------------------------------
(***************************************************************************)
(* The five programs together.  A step is one transaction of one party, or *)
(* the clock moving on; transactions of all parties interleave freely.     *)
(*                                                                         *)
(* Horizon bounds an instance in time: after it the parties rest, and the  *)
(* clock moves on only when no crank is due, but for bookings restored     *)
(* with another one's dispute, whose cranks may be refused for ever.  With *)
(* Horizon = MaxTime it restricts nothing.                                 *)
(***************************************************************************)
EXTENDS Disputes

CONSTANT Horizon

ASSUME HorizonAssumption == Horizon \in 0..MaxTime

vars == <<coreVars, treasuryVars, escrowVars, disputeVars>>

Init ==
    /\ CoreInit
    /\ TreasuryInit
    /\ EscrowInit
    /\ DisputesInit

-----------------------------------------------------------------------------
(* Calls anybody may make for a booking, once their time has come. *)
Expire(b) ==
    /\ ExpireBooking(b) \/ ExpireBookingCrossYear(b)
    /\ UNCHANGED disputeVars

Complete(b) == BookingCompletes(b) /\ UNCHANGED disputeVars

PayOut(b) == ReleaseFunds(b) /\ UNCHANGED disputeVars

CrankNext(b) ==
    \/ Expire(b)
    \/ Complete(b)
    \/ PayOut(b)
    \/ EscalateDispute(b)
    \/ CloseDispute(b)

CrankDue(b) ==
    \/ status[b] = "Pending" /\ ExpiryDue(b)
    \/ status[b] = "Active" /\ CompletionDue(b)
    \/ status[b] = "Completed" /\ PayoutDue(b)
    \/ disputeState[b] = "OpenP2P" /\ EscalationDue(b)
    \/ disputeState[b] \in {"ResolvedByAdmin", "ResolvedByP2P"}

Tick ==
    /\ now < MaxTime
    /\ now >= Horizon => \A b \in Bookings \ strayed : ~CrankDue(b)
    /\ now' = now + 1
    /\ UNCHANGED <<coreVars, treasuryVars, status, termVars, updatedAt, reviewVars,
                   escrow, platform, occupied, disputeVars>>

-----------------------------------------------------------------------------
(* Steps of the guests, hosts, admins and the verification authority. *)
CoreNext ==
    /\ \E u \in Users, i \in Identities : LinkIdentity(u, i)
    /\ UNCHANGED <<activeBooking, deposited, stayVars, reputationVars, scoreVars,
                   treasuryVars, escrowVars, disputeVars>>

GuaranteeNext ==
    /\ TreasuryNext
    /\ UNCHANGED <<escrowVars, disputeVars>>

BookingNext(b) ==
    /\ \/ \E out \in CheckOuts, price \in Prices :
             \/ CreateBooking(b, out, price)
             \/ CreateBookingCrossYear(b, out, price)
       \/ HostAcceptBooking(b)
       \/ HostRejectBooking(b)
       \/ HostRejectBookingCrossYear(b)
       \/ GuestCancelBooking(b)
       \/ GuestCancelBookingCrossYear(b)
       \/ HostCancelBooking(b)
       \/ HostCancelBookingCrossYear(b)
       \/ \E hostProfile \in Users : BookingStarts(b, hostProfile)
       \/ \E score \in ReviewScores : GuestReviews(b, score) \/ HostReviews(b, score)
    /\ UNCHANGED disputeVars

DisputeNext(b) ==
    \/ \E initiator \in Disputants : OpenDispute(b, initiator)
    \/ \E c \in Bookings, initiator \in Users : SolveDisputeBeforeAdmin(b, c, initiator)
    \/ \E a \in Admins, outcome \in Outcomes : ResolveDispute(a, b, outcome)

AdminNext ==
    \E a, other \in Admins : AddAdmin(a, other) \/ DeleteAdmin(a, other)

PartyNext ==
    /\ now <= Horizon
    /\ \/ CoreNext
       \/ GuaranteeNext
       \/ \E b \in Bookings : BookingNext(b) \/ DisputeNext(b)
       \/ AdminNext

Next ==
    \/ Tick
    \/ \E b \in Bookings : CrankNext(b)
    \/ PartyNext

Spec == Init /\ [][Next]_vars

(* The cranks are permissionless and both parties gain from them, so somebody
   eventually makes a call that stays possible.  Nothing is assumed of
   guests, hosts or admins.  No call stops the clock: that it waits for due
   cranks after Horizon is the instance's doing, hence the strong fairness. *)
Fairness ==
    /\ SF_vars(Tick)
    /\ \A b \in Bookings :
          /\ WF_vars(Expire(b))
          /\ WF_vars(Complete(b))
          /\ WF_vars(PayOut(b))
          /\ WF_vars(EscalateDispute(b))
          /\ WF_vars(CloseDispute(b))

FairSpec == Spec /\ Fairness

TypeOK ==
    /\ CoreTypeOK
    /\ TreasuryTypeOK
    /\ EscrowTypeOK
    /\ DisputesTypeOK

-----------------------------------------------------------------------------
(* Helpers of the properties. *)

Held     == {"Pending", "HostAccepted", "Active", "Completed", "Disputed"}
Occupies == Statuses \ {"None", "Cancelled"}

Days(b) == StayDays(CheckIn[b], checkOut[b])

InEscrow(b) == IF status[b] \in Held THEN total[b] ELSE 0

(* The bookings no withdrawal of another one's dispute has touched. *)
Regular == Bookings \ strayed

(* The statuses of a booking that has started. *)
Started == {"Active", "Completed", "Released", "Disputed", "DisputeResolved"}

(* A status of a booking and the state of its dispute that fit each other. *)
Coupled(s, dispute) ==
    /\ dispute \in {"OpenP2P", "Escalated"} => s = "Disputed"
    /\ dispute = "ResolvedByP2P" => s \in {"Active", "Completed", "Released"}
    /\ dispute = "ResolvedByAdmin" => s \in {"Disputed", "DisputeResolved"}
    /\ s = "Disputed" => dispute \in {"OpenP2P", "Escalated", "ResolvedByAdmin"}
    /\ s = "DisputeResolved" => dispute \in {"None", "ResolvedByAdmin"}

(* What is left of a booking whose dispute was withdrawn with another one:
   no instruction can thaw or settle it. *)
Stranded(s, dispute) == s = "Disputed" /\ dispute \in {"ResolvedByP2P", "None"}

(* What is left of a booking restored with another one's dispute: it counts
   as started, whatever it was before. *)
Restored(s, dispute) ==
    /\ s \in Started
    /\ s = "DisputeResolved" => dispute \in {"None", "ResolvedByAdmin"}

Fits(b) ==
    /\ b \in strayed => Restored(status[b], disputeState[b])
    /\ b \in abandoned \ strayed => Stranded(status[b], disputeState[b])
    /\ b \notin strayed \cup abandoned => Coupled(status[b], disputeState[b])

(* Stays that both programs agree are over and counted. *)
StayCounted(b) ==
    \/ status[b] = "Released"
    \/ status[b] = "DisputeResolved" /\ disputeState[b] = "None"
-----------------------------------------------------------------------------
(* Safety. *)

(* The escrow account holds the whole price of the stay exactly as long as
   the booking is undecided, whatever sequence of acceptances, disputes and
   restorations it goes through, and nothing once it is settled: every path
   pays out all of it, once.  A booking stranded by the withdrawal of its
   dispute with another booking keeps its money; the one restored in its
   place has its whole price or nothing. *)
EscrowBacked ==
    \A b \in Bookings : escrow[b] = InEscrow(b) \/ (b \in strayed /\ escrow[b] = 0)

(* No double booking: the calendar of a property is exactly the days of the
   bookings that were not cancelled, and no two of them share a day.  So a
   release never finds one of its days free, and never frees another's.  A
   cancelled booking restored with another one's dispute comes back without
   its days; it takes none from the others, and frees none of theirs. *)
CalendarExact ==
    \A p \in Properties :
        LET booked  == {b \in Bookings : PropertyOf[b] = p /\ status[b] \in Occupies}
            regular == booked \cap Regular
        IN  /\ UNION {Days(b) : b \in regular} \subseteq occupied[p]
            /\ occupied[p] \subseteq UNION {Days(b) : b \in booked}
            /\ \A b, c \in regular : b # c => Days(b) \cap Days(c) = {}

(* The two programs agree on a dispute: while it is undecided its booking is
   frozen, a frozen booking has a dispute that can still thaw or settle it,
   and a withdrawn dispute has let its booking go.  The withdrawal of a
   dispute with another booking breaks this for the two bookings it names,
   in the two ways stated, and for no third one. *)
DisputeCoupled == \A b \in Bookings : Fits(b)

(* Every stay is counted once for its guest and once for its host, by
   release_funds or by close_dispute but never by both, so the free tier ends
   when it should; unless a stay of theirs was restored with another one's
   dispute, and may be counted again. *)
StaysCountedOnce ==
    \A u \in Users :
        LET stays  == {b \in Bookings : Guest[b] = u}
            hosted == {b \in Bookings : HostOf(b) = u}
        IN  /\ stays \subseteq Regular =>
                  completedStays[u] = Cardinality({b \in stays : StayCounted(b)})
            /\ hosted \subseteq Regular =>
                  hostedStays[u] = Cardinality({b \in hosted : StayCounted(b)})

(* As long as no verdict has found a fault, the vault holds exactly what the
   profiles record, through deposits, withdrawals and the slashes of hosts
   who cancel. *)
VaultMatchesDeposits ==
    (\A u \in Users, s \in Severities : infractions[u][s] = 0) => vault = SumFunction(deposited)

(* The active-booking slot never names a booking of someone else, a request
   that did not start, or a stay that is over and counted. *)
ActiveSlotSound ==
    \A u \in Users :
        activeBooking[u] # NoBooking =>
            LET b == activeBooking[u]
            IN  /\ Guest[b] = u
                /\ status[b] \in {"Active", "Completed", "Disputed", "DisputeResolved"}
                /\ ~StayCounted(b)

(* A host is paid for a stay only 24 h after check-out, even when a dispute
   interrupted the stay and the booking was restored with it. *)
ReleasedLate ==
    \A b \in Regular : status[b] = "Released" => now >= checkOut[b] + DAY

(* What the profiles and the listings total is what the bookings record: a
   review is counted once, whatever the booking goes through afterwards. *)
ReviewsTally ==
    LET given(f, S) == {b \in S : f[b] # 0}
        tally(f, S) == [count |-> Cardinality(given(f, S)),
                        total |-> SumFunctionOnSet(f, S)]
    IN  /\ \A u \in Users :
             /\ hostScore[u] = tally(guestReview, {b \in Bookings : HostOf(b) = u})
             /\ clientScore[u] = tally(hostReview, {b \in Bookings : Guest[b] = u})
        /\ \A p \in Properties :
             listingScore[p] = tally(guestReview, {b \in Bookings : PropertyOf[b] = p})

(* One person, one profile: an identity is linked to at most one profile, and
   its flag is set exactly when it is. *)
IdentityExclusive ==
    /\ linked = {identity[u] : u \in Users} \ {NoIdentity}
    /\ \A u, v \in Users : identity[u] = identity[v] => u = v \/ identity[u] = NoIdentity

(* No payout can be refused by the token program: each way a booking may be
   settled in its present state splits the escrow into parts that add up to
   its balance, so the account is empty when it is closed.  A booking restored
   with another one's dispute may have no money to split. *)
PayoutsExact ==
    \A b \in Regular :
        /\ status[b] \in {"Pending", "HostAccepted"} =>
              LET split == GuestCancellationSplit(b)
              IN  split.guest + split.host + split.stayke = escrow[b]
        /\ status[b] = "Completed" =>
              LET split == ReleaseSplit(total[b])
              IN  split.host + split.stayke = escrow[b]
        /\ status[b] = "Disputed" =>
              \A severity \in Severities, guilty \in Parties :
                  LET split == DisputeSplit(total[b], SlashRates(severity, guilty).escrow)
                  IN  split.victim + split.guilty + split.stayke = escrow[b]

-----------------------------------------------------------------------------
(* What a step may never do. *)

(* A dispute freezes the money: while it is undecided nobody moves the
   escrow, until an admin has decided. *)
FrozenWhileDisputed ==
    [][\A b \in Bookings :
          disputeState[b] # "None" /\ status[b] = "Disputed" /\ escrow'[b] # escrow[b]
              => disputeState[b] = "Escalated" /\ disputeState'[b] = "ResolvedByAdmin"]_vars

(* Nobody calls an accepted booking off once its check-in has passed, and at
   the very moment of check-in only the guest of a stay within a year. *)
CancelledByCheckIn ==
    [][\A b \in Bookings :
          status[b] = "HostAccepted" /\ status'[b] = "Cancelled" =>
              \/ now < CheckIn[b]
              \/ /\ now = CheckIn[b]
                 /\ SameYear(CheckIn[b], checkOut[b])
                 /\ clientCancellations'[Guest[b]] = clientCancellations[Guest[b]] + 1]_vars

(* A settled booking stays settled: its PDA is not used again and no later
   transaction changes its terms or funds it, and none revives it but the
   withdrawal of another booking's dispute. *)
SettledForever ==
    [][\A b \in Regular :
          status[b] \in {"Released", "Cancelled", "DisputeResolved"} =>
              /\ status'[b] = status[b] \/ b \in strayed'
              /\ escrow'[b] = 0
              /\ checkOut'[b] = checkOut[b]]_vars

-----------------------------------------------------------------------------
(* The system implements BookingCustody, in which a booking restored with
   another one's dispute is astray. *)
PhaseOf(s) ==
    CASE s = "None"                        -> "none"
      [] s \in {"Pending", "HostAccepted"} -> "requested"
      [] s \in {"Active", "Completed"}     -> "staying"
      [] s = "Disputed"                    -> "frozen"
      [] s = "Cancelled"                   -> "cancelled"
      [] s = "Released"                    -> "paid"
      [] OTHER                             -> "decided"

Custody == INSTANCE BookingCustody
              WITH phase <- [b \in Bookings |->
                                IF b \in strayed THEN "astray" ELSE PhaseOf(status[b])],
                   held <- [b \in Bookings |-> IF b \in strayed THEN 0 ELSE escrow[b]]

(* Every transaction is, for the money in escrow, one step of the custody of
   one booking: a payment in, a whole return, one settlement, a freeze or a
   thaw, and nothing for every other booking. *)
CustodySpec == Custody!Spec

-----------------------------------------------------------------------------
(* Liveness. *)

(* A request never keeps the guest's money for ever: it is answered, taken
   back or expires. *)
RequestsAnswered ==
    \A b \in Bookings : status[b] = "Pending" ~> status[b] # "Pending"

(* A started stay, also one that a dispute interrupted and left completed, is
   paid out unless a dispute stops it; or it was restored with another one's
   dispute, and then may have no money to pay. *)
StaysSettle ==
    \A b \in Bookings :
        status[b] \in {"Active", "Completed"} ~>
            status[b] \in {"Released", "Disputed"} \/ b \in strayed

(* A dispute does not stay between the parties: it is withdrawn or escalated,
   and a resolved one is closed. *)
DisputesProgress ==
    \A b \in Bookings :
        /\ disputeState[b] = "OpenP2P" ~> disputeState[b] # "OpenP2P"
        /\ disputeState[b] \in {"ResolvedByP2P", "ResolvedByAdmin"} ~> disputeState[b] = "None"
=============================================================================
