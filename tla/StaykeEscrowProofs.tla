------------------------- MODULE StaykeEscrowProofs -------------------------
(***************************************************************************)
(* Stayke is type-correct for every value of its constants: first the      *)
(* lemmas on the rounding splits, the days and the nights, then one lemma  *)
(* per action, then the theorem.                                           *)
(*                                                                         *)
(* The escrow: it is always backed and every payout exact, the system      *)
(* implements BookingCustody, a frozen booking's money rests, and a        *)
(* settled booking stays as it is.  A booking that a dispute of another    *)
(* one was withdrawn with is set aside, and only that one.                 *)
(*                                                                         *)
(* That the escrow holds the price as long as the booking is undecided     *)
(* needs to know that a dispute which can be withdrawn has a frozen        *)
(* booking, or a withdrawal could revive a settled one: Custodial joins    *)
(* the two.  Each step is summed up as one move of one booking, Advance,   *)
(* from which what no step may do follows.                                 *)
(***************************************************************************)
EXTENDS Stayke, TLAPS

-----------------------------------------------------------------------------
(* The rounding splits: their parts are naturals and add up to the amount. *)

LEMMA PercentBounds ==
    ASSUME NEW amount \in Nat, NEW percentage \in Nat, percentage <= 100
    PROVE  /\ Percent(amount, percentage) \in Nat
           /\ Percent(amount, percentage) <= amount
<1> DEFINE product == amount * percentage
<1>1. product \in Nat /\ product <= amount * 100
    OBVIOUS
<1> HIDE DEF product
<1>2. product \div 100 \in Nat /\ product \div 100 <= amount
    BY <1>1
<1>3. QED
    BY <1>2 DEF Percent, product

LEMMA BasisPointsBounds ==
    ASSUME NEW amount \in Nat, NEW bps \in Nat, bps <= 10000
    PROVE  /\ BasisPoints(amount, bps) \in Nat
           /\ BasisPoints(amount, bps) <= amount
<1> DEFINE product == amount * bps
<1>1. product \in Nat /\ product <= amount * 10000
    OBVIOUS
<1> HIDE DEF product
<1>2. product \div 10000 \in Nat /\ product \div 10000 <= amount
    BY <1>1
<1>3. QED
    BY <1>2 DEF BasisPoints, product

LEMMA InsideWindowSplitExact ==
    ASSUME NEW amount \in Nat
    PROVE  /\ InsideWindowSplit(amount) \in [guest : Nat, host : Nat, stayke : Nat]
           /\ LET split == InsideWindowSplit(amount)
              IN  split.guest + split.host + split.stayke = amount
<1> DEFINE refund    == Percent(amount, CANCELLATION_REFUND_PERCENTAGE)
           remaining == amount - refund
           share     == Percent(remaining, CANCELLATION_HOST_SHARE_PERCENTAGE)
<1>1. refund \in Nat /\ refund <= amount
    BY PercentBounds DEF CANCELLATION_REFUND_PERCENTAGE
<1> HIDE DEF refund
<1>2. remaining \in Nat
    BY <1>1
<1> HIDE DEF remaining
<1>3. share \in Nat /\ share <= remaining
    BY <1>2, PercentBounds DEF CANCELLATION_HOST_SHARE_PERCENTAGE
<1>4. InsideWindowSplit(amount) = [guest |-> refund, host |-> share, stayke |-> remaining - share]
    BY DEF InsideWindowSplit, refund, remaining, share
<1> HIDE DEF share
<1>5. QED
    BY <1>1, <1>2, <1>3, <1>4 DEF remaining

LEMMA GuestCancellationSplitExact ==
    ASSUME TypeOK, NEW b \in Bookings
    PROVE  /\ GuestCancellationSplit(b) \in [guest : Nat, host : Nat, stayke : Nat]
           /\ LET split == GuestCancellationSplit(b)
              IN  split.guest + split.host + split.stayke = total[b]
<1>1. total[b] \in Nat
    BY DEF TypeOK, EscrowTypeOK
<1>2. CASE CheckIn[b] - now > CANCELLATION_WINDOW
    <2>1. GuestCancellationSplit(b) = [guest |-> total[b], host |-> 0, stayke |-> 0]
        BY <1>2 DEF GuestCancellationSplit, FullRefund
    <2>2. QED
        BY <1>1, <2>1
<1>3. CASE ~(CheckIn[b] - now > CANCELLATION_WINDOW)
    <2>1. GuestCancellationSplit(b) = InsideWindowSplit(total[b])
        BY <1>3 DEF GuestCancellationSplit
    <2>2. QED
        BY <1>1, <2>1, InsideWindowSplitExact
<1>4. QED
    BY <1>2, <1>3

LEMMA FeeBounds ==
    ASSUME NEW amount \in Nat
    PROVE  BasisPoints(amount, FeeBps) \in Nat /\ BasisPoints(amount, FeeBps) <= amount
BY BasisPointsBounds, EscrowAssumption

LEMMA ReleaseSplitExact ==
    ASSUME NEW amount \in Nat
    PROVE  /\ ReleaseSplit(amount) \in [host : Nat, stayke : Nat]
           /\ ReleaseSplit(amount).host + ReleaseSplit(amount).stayke = amount
BY FeeBounds DEF ReleaseSplit

LEMMA DisputeSplitExact ==
    ASSUME NEW amount \in Nat, NEW bps \in Nat, bps <= 10000
    PROVE  /\ DisputeSplit(amount, bps) \in [victim : Nat, guilty : Nat, stayke : Nat]
           /\ LET split == DisputeSplit(amount, bps)
              IN  split.victim + split.guilty + split.stayke = amount
<1> DEFINE fee           == BasisPoints(amount, FeeBps)
           distributable == amount - fee
           share         == BasisPoints(distributable, bps)
<1>1. fee \in Nat /\ fee <= amount
    BY FeeBounds
<1> HIDE DEF fee
<1>2. distributable \in Nat
    BY <1>1
<1> HIDE DEF distributable
<1>3. share \in Nat /\ share <= distributable
    BY <1>2, BasisPointsBounds
<1>4. DisputeSplit(amount, bps) =
          [victim |-> share, guilty |-> distributable - share, stayke |-> fee]
    BY DEF DisputeSplit, fee, distributable, share
<1> HIDE DEF share
<1>5. QED
    BY <1>1, <1>2, <1>3, <1>4 DEF distributable

LEMMA DisputeSplitType ==
    ASSUME NEW amount \in Nat, NEW bps \in Nat, bps <= 10000
    PROVE  DisputeSplit(amount, bps) \in [victim : Nat, guilty : Nat, stayke : Nat]
BY DisputeSplitExact

LEMMA SlashRatesBounds ==
    ASSUME NEW severity \in Severities, NEW guilty \in Parties
    PROVE  LET rates == SlashRates(severity, guilty)
           IN  /\ rates.escrow \in Nat /\ rates.escrow <= 10000
               /\ rates.treasury \in Nat /\ rates.treasury <= 10000
<1> USE DEF SlashRates, ESCROW_SLASH_MEDIUM_BPS, ESCROW_SLASH_HIGH_BPS,
            DEPOSIT_SLASH_MEDIUM_BPS, DEPOSIT_SLASH_HIGH_BPS
<1>1. CASE severity = "High"
    BY <1>1
<1>2. CASE severity = "Medium"
    BY <1>2
<1>3. CASE severity = "Low"
    BY <1>3
<1>4. QED
    BY <1>1, <1>2, <1>3 DEF Severities

-----------------------------------------------------------------------------
(* Days and nights are natural numbers. *)

LEMMA DivNat ==
    ASSUME NEW x \in Nat, NEW y \in Nat \ {0}
    PROVE  x \div y \in Nat
OBVIOUS

LEMMA NightsNat ==
    ASSUME NEW in \in Nat, NEW out \in Nat, in < out
    PROVE  Nights(in, out) \in Nat
BY DivNat, AvailabilityAssumption DEF Nights

LEMMA ProductNat ==
    ASSUME NEW x \in Nat, NEW y \in Nat
    PROVE  x * y \in Nat
OBVIOUS

LEMMA StayDaysNat ==
    ASSUME NEW in \in Nat, NEW out \in Nat
    PROVE  StayDays(in, out) \subseteq Nat
<1>1. DayOf(in) \in Nat /\ DayOf(out) \in Nat
    BY DivNat, AvailabilityAssumption DEF DayOf
<1>2. QED
    BY <1>1 DEF StayDays

LEMMA PartyIsUser ==
    ASSUME NEW b \in Bookings
    PROVE  Guest[b] \in Users /\ PropertyOf[b] \in Properties /\ HostOf(b) \in Users
BY EscrowAssumption DEF HostOf

-----------------------------------------------------------------------------
(* Type correctness, action by action. *)

LEMMA CoreFrame == CoreTypeOK /\ UNCHANGED coreVars => CoreTypeOK'
BY DEF CoreTypeOK, coreVars, identityVars, stayVars, reputationVars, scoreVars

LEMMA TreasuryFrame == TreasuryTypeOK /\ UNCHANGED treasuryVars => TreasuryTypeOK'
BY DEF TreasuryTypeOK, treasuryVars

LEMMA EscrowFrame == EscrowTypeOK /\ UNCHANGED escrowVars => EscrowTypeOK'
BY DEF EscrowTypeOK, AvailabilityTypeOK, escrowVars, termVars, reviewVars

LEMMA DisputesFrame == DisputesTypeOK /\ UNCHANGED disputeVars => DisputesTypeOK'
BY DEF DisputesTypeOK, disputeVars, accountVars, historyVars

LEMMA InitTypeOK == Init => TypeOK
<1> SUFFICES ASSUME Init PROVE TypeOK
    OBVIOUS
<1>1. CoreTypeOK
    BY CoreAssumption DEF Init, CoreInit, CoreTypeOK
<1>2. TreasuryTypeOK
    BY TreasuryAssumption DEF Init, TreasuryInit, TreasuryTypeOK
<1>3. EscrowTypeOK
    BY DEF Init, EscrowInit, EscrowTypeOK, AvailabilityInit, AvailabilityTypeOK, Statuses
<1>4. DisputesTypeOK
    BY DisputesAssumption
       DEF Init, DisputesInit, DisputesTypeOK, DisputeStates, Parties, Disputable
<1>5. QED
    BY <1>1, <1>2, <1>3, <1>4 DEF TypeOK

LEMMA LinkIdentityType ==
    ASSUME TypeOK, NEW u \in Users, NEW i \in Identities, LinkIdentity(u, i),
           UNCHANGED <<activeBooking, deposited, stayVars, reputationVars, scoreVars>>
    PROVE  CoreTypeOK'
BY DEF TypeOK, CoreTypeOK, LinkIdentity, stayVars, reputationVars, scoreVars

LEMMA DepositGuaranteeType ==
    ASSUME TypeOK, NEW u \in Users, NEW amount \in Amounts, DepositGuarantee(u, amount)
    PROVE  CoreTypeOK' /\ TreasuryTypeOK'
<1>1. amount \in Nat
    BY TreasuryAssumption
<1>2. TreasuryTypeOK'
    BY <1>1 DEF TypeOK, TreasuryTypeOK, DepositGuarantee
<1>3. CoreTypeOK'
    BY <1>1 DEF TypeOK, CoreTypeOK, DepositGuarantee, IncreaseDeposit, identityVars,
                stayVars, reputationVars, scoreVars
<1>4. QED
    BY <1>2, <1>3

LEMMA DecreaseDepositType ==
    ASSUME deposited \in [Users -> Nat], NEW u \in Users, NEW amount \in Nat,
           DecreaseDeposit(u, amount)
    PROVE  deposited' \in [Users -> Nat]
BY DEF DecreaseDeposit, SaturatingSub

LEMMA WithdrawGuaranteeType ==
    ASSUME TypeOK, NEW u \in Users, NEW amount \in Amounts, WithdrawGuarantee(u, amount)
    PROVE  CoreTypeOK' /\ TreasuryTypeOK'
<1>1. amount \in Nat
    BY TreasuryAssumption
<1>2. TreasuryTypeOK'
    BY <1>1 DEF TypeOK, TreasuryTypeOK, WithdrawGuarantee
<1>3. deposited' \in [Users -> Nat]
    BY <1>1, DecreaseDepositType DEF TypeOK, CoreTypeOK, WithdrawGuarantee
<1>4. CoreTypeOK'
    BY <1>3 DEF TypeOK, CoreTypeOK, WithdrawGuarantee, identityVars, stayVars,
                reputationVars, scoreVars
<1>5. QED
    BY <1>2, <1>4

LEMMA FundBookingType ==
    ASSUME TypeOK, NEW b \in Bookings, NEW out \in CheckOuts, NEW price \in Prices,
           FundBooking(b, out, price)
    PROVE  CoreTypeOK' /\ TreasuryTypeOK' /\ (AvailabilityTypeOK' => EscrowTypeOK')
<1> DEFINE cost == price * Nights(CheckIn[b], out)
<1>1. out \in Nat /\ price \in Nat /\ CheckIn[b] \in Nat /\ CheckIn[b] < out
    BY EscrowAssumption DEF FundBooking
<1>2. cost \in Nat
    BY <1>1, NightsNat, ProductNat
<1>3. /\ wallet[Guest[b]] >= cost
      /\ wallet' = [wallet EXCEPT ![Guest[b]] = @ - cost]
      /\ escrow' = [escrow EXCEPT ![b] = cost]
      /\ total' = [total EXCEPT ![b] = cost]
      /\ UNCHANGED <<coreVars, vault, now, reviewVars, platform>>
      /\ status' = [status EXCEPT ![b] = "Pending"]
      /\ checkOut' = [checkOut EXCEPT ![b] = out]
      /\ updatedAt' = [updatedAt EXCEPT ![b] = now]
    BY DEF FundBooking
<1> HIDE DEF cost
<1>4. CoreTypeOK'
    BY <1>3, CoreFrame DEF TypeOK
<1>5. TreasuryTypeOK'
    BY <1>2, <1>3, PartyIsUser DEF TypeOK, TreasuryTypeOK
<1>6. AvailabilityTypeOK' => EscrowTypeOK'
    BY <1>1, <1>2, <1>3 DEF TypeOK, EscrowTypeOK, reviewVars, Statuses
<1>7. QED
    BY <1>4, <1>5, <1>6

LEMMA ReserveType ==
    ASSUME AvailabilityTypeOK, NEW p \in Properties, NEW days \in SUBSET Nat, Reserve(p, days)
    PROVE  AvailabilityTypeOK'
BY DEF AvailabilityTypeOK, Reserve

LEMMA ReleaseType ==
    ASSUME AvailabilityTypeOK, NEW p \in Properties, NEW days \in SUBSET Nat, Release(p, days)
    PROVE  AvailabilityTypeOK'
BY DEF AvailabilityTypeOK, Release

LEMMA RefundAndCloseType ==
    ASSUME TypeOK, NEW b \in Bookings, RefundAndClose(b), AvailabilityTypeOK'
    PROVE  CoreTypeOK' /\ TreasuryTypeOK' /\ EscrowTypeOK'
<1>1. CoreTypeOK'
    BY CoreFrame DEF TypeOK, RefundAndClose
<1>2. TreasuryTypeOK'
    BY PartyIsUser DEF TypeOK, TreasuryTypeOK, EscrowTypeOK, RefundAndClose, Credit
<1>3. EscrowTypeOK'
    BY DEF TypeOK, EscrowTypeOK, RefundAndClose, CloseEscrow, CloseBooking, reviewVars, Statuses
<1>4. QED
    BY <1>1, <1>2, <1>3

LEMMA GuestCancelType ==
    ASSUME TypeOK, NEW b \in Bookings, GuestCancel(b), AvailabilityTypeOK'
    PROVE  CoreTypeOK' /\ TreasuryTypeOK' /\ EscrowTypeOK'
<1> DEFINE split == GuestCancellationSplit(b)
<1>1. split \in [guest : Nat, host : Nat, stayke : Nat]
    BY GuestCancellationSplitExact
<1>2. /\ wallet' = Credit(Credit(wallet, Guest[b], split.guest), HostOf(b), split.host)
      /\ platform' = platform + split.stayke
    BY DEF GuestCancel
<1> HIDE DEF split
<1>3. CoreTypeOK'
    BY PartyIsUser DEF TypeOK, CoreTypeOK, GuestCancel, IncrementClientCancellations,
                       identityVars, stayVars, scoreVars
<1>4. TreasuryTypeOK'
    BY <1>1, <1>2, PartyIsUser DEF TypeOK, TreasuryTypeOK, GuestCancel, Credit
<1>5. EscrowTypeOK'
    BY <1>1, <1>2 DEF TypeOK, EscrowTypeOK, GuestCancel, CloseEscrow, termVars, reviewVars, Statuses
<1>6. QED
    BY <1>3, <1>4, <1>5

LEMMA HostSlashNat ==
    ASSUME TypeOK, NEW b \in Bookings
    PROVE  HostSlash(b) \in Nat
BY PercentBounds, PartyIsUser
   DEF TypeOK, CoreTypeOK, HostSlash, HOST_CANCELLATION_PENALTY_PERCENTAGE

LEMMA SlashHostType ==
    ASSUME TypeOK, NEW b \in Bookings, NEW slash \in Nat, SlashHost(b, slash)
    PROVE  vault' \in Nat /\ deposited' \in [Users -> Nat]
<1>1. CASE slash > 0
    BY <1>1, DecreaseDepositType, PartyIsUser
       DEF TypeOK, CoreTypeOK, TreasuryTypeOK, SlashHost, PenalizeTransfer, CanPenalize
<1>2. CASE ~(slash > 0)
    BY <1>2 DEF TypeOK, CoreTypeOK, TreasuryTypeOK, SlashHost
<1>3. QED
    BY <1>1, <1>2

LEMMA HostCancelType ==
    ASSUME TypeOK, NEW b \in Bookings, HostCancel(b), AvailabilityTypeOK'
    PROVE  CoreTypeOK' /\ TreasuryTypeOK' /\ EscrowTypeOK'
<1> DEFINE slash == HostSlash(b)
<1>1. slash \in Nat
    BY HostSlashNat
<1>2. SlashHost(b, slash) /\ wallet' = Credit(wallet, Guest[b], total[b] + slash)
    BY DEF HostCancel
<1>3. /\ IncrementHostCancellations(HostOf(b))
      /\ UNCHANGED <<identityVars, activeBooking, stayVars, clientCancellations, infractions,
                     scoreVars>>
    BY DEF HostCancel
<1> HIDE DEF slash
<1>4. vault' \in Nat
    BY <1>1, <1>2, SlashHostType
<1>5. deposited' \in [Users -> Nat]
    BY <1>1, <1>2, SlashHostType
<1>6. CoreTypeOK'
    <2>1. hostCancellations' \in [Users -> Nat]
        BY <1>3, PartyIsUser DEF TypeOK, CoreTypeOK, IncrementHostCancellations
    <2>2. QED
        BY <1>3, <1>5, <2>1 DEF TypeOK, CoreTypeOK, identityVars, stayVars, scoreVars
<1>7. TreasuryTypeOK'
    BY <1>1, <1>2, <1>4, PartyIsUser DEF TypeOK, TreasuryTypeOK, EscrowTypeOK, Credit
<1>8. EscrowTypeOK'
    BY DEF TypeOK, EscrowTypeOK, HostCancel, CloseEscrow, termVars, reviewVars, Statuses
<1>9. QED
    BY <1>6, <1>7, <1>8

LEMMA HostAcceptBookingType ==
    ASSUME TypeOK, NEW b \in Bookings, HostAcceptBooking(b)
    PROVE  CoreTypeOK' /\ TreasuryTypeOK' /\ EscrowTypeOK'
BY CoreFrame, TreasuryFrame
   DEF TypeOK, HostAcceptBooking, EscrowTypeOK, AvailabilityTypeOK, termVars, reviewVars, Statuses

LEMMA BookingStartsType ==
    ASSUME TypeOK, NEW b \in Bookings, NEW hostProfile \in Users, BookingStarts(b, hostProfile)
    PROVE  CoreTypeOK' /\ TreasuryTypeOK' /\ EscrowTypeOK'
<1>1. CoreTypeOK'
    BY PartyIsUser DEF TypeOK, CoreTypeOK, BookingStarts, SetActiveBooking, identityVars,
                       stayVars, reputationVars, scoreVars
<1>2. TreasuryTypeOK' /\ EscrowTypeOK'
    BY TreasuryFrame DEF TypeOK, EscrowTypeOK, AvailabilityTypeOK, BookingStarts, termVars,
                         reviewVars, Statuses
<1>3. QED
    BY <1>1, <1>2

LEMMA BookingCompletesType ==
    ASSUME TypeOK, NEW b \in Bookings, BookingCompletes(b)
    PROVE  CoreTypeOK' /\ TreasuryTypeOK' /\ EscrowTypeOK'
BY CoreFrame, TreasuryFrame
   DEF TypeOK, BookingCompletes, EscrowTypeOK, AvailabilityTypeOK, termVars, reviewVars, Statuses

LEMMA CountStayType ==
    ASSUME CoreTypeOK, NEW b \in Bookings, IncrementCompletedStays(Guest[b]),
           ClearActiveBooking(Guest[b]), IncrementHostedStays(HostOf(b)),
           UNCHANGED <<identityVars, deposited, reputationVars, scoreVars>>
    PROVE  CoreTypeOK'
BY PartyIsUser DEF CoreTypeOK, IncrementCompletedStays, ClearActiveBooking, IncrementHostedStays,
                   identityVars, reputationVars, scoreVars

LEMMA ReleaseFundsType ==
    ASSUME TypeOK, NEW b \in Bookings, ReleaseFunds(b)
    PROVE  CoreTypeOK' /\ TreasuryTypeOK' /\ EscrowTypeOK'
<1> DEFINE split == ReleaseSplit(total[b])
<1>1. split \in [host : Nat, stayke : Nat]
    BY ReleaseSplitExact DEF TypeOK, EscrowTypeOK
<1>2. /\ wallet' = Credit(wallet, HostOf(b), split.host)
      /\ platform' = platform + split.stayke
    BY DEF ReleaseFunds
<1> HIDE DEF split
<1>3. CoreTypeOK'
    BY CountStayType DEF TypeOK, ReleaseFunds
<1>4. TreasuryTypeOK'
    BY <1>1, <1>2, PartyIsUser DEF TypeOK, TreasuryTypeOK, ReleaseFunds, Credit
<1>5. EscrowTypeOK'
    BY <1>1, <1>2 DEF TypeOK, EscrowTypeOK, AvailabilityTypeOK, ReleaseFunds, CloseEscrow,
                      termVars, reviewVars, Statuses
<1>6. QED
    BY <1>3, <1>4, <1>5

LEMMA GuestReviewsType ==
    ASSUME TypeOK, NEW b \in Bookings, NEW score \in ReviewScores, GuestReviews(b, score)
    PROVE  CoreTypeOK' /\ TreasuryTypeOK' /\ EscrowTypeOK'
<1>1. score \in Scores
    BY EscrowAssumption
<1>2. CoreTypeOK'
    BY <1>1, PartyIsUser DEF TypeOK, CoreTypeOK, GuestReviews, UpdateHostReview, AddScore, Scores,
                             identityVars, stayVars, reputationVars
<1>3. TreasuryTypeOK'
    BY TreasuryFrame DEF TypeOK, GuestReviews
<1>4. EscrowTypeOK'
    BY <1>1, PartyIsUser DEF TypeOK, EscrowTypeOK, AvailabilityTypeOK, GuestReviews, AddScore,
                             Scores, termVars
<1>5. QED
    BY <1>2, <1>3, <1>4

LEMMA HostReviewsType ==
    ASSUME TypeOK, NEW b \in Bookings, NEW score \in ReviewScores, HostReviews(b, score)
    PROVE  CoreTypeOK' /\ TreasuryTypeOK' /\ EscrowTypeOK'
<1>1. score \in Scores
    BY EscrowAssumption
<1>2. CoreTypeOK'
    BY <1>1, PartyIsUser DEF TypeOK, CoreTypeOK, HostReviews, UpdateClientReview, AddScore, Scores,
                             identityVars, stayVars, reputationVars
<1>3. TreasuryTypeOK'
    BY TreasuryFrame DEF TypeOK, HostReviews
<1>4. EscrowTypeOK'
    BY <1>1 DEF TypeOK, EscrowTypeOK, AvailabilityTypeOK, HostReviews, Scores, termVars
<1>5. QED
    BY <1>2, <1>3, <1>4

-----------------------------------------------------------------------------
(* Type correctness of the disputes. *)

LEMMA UpdateBookingStatusType ==
    ASSUME EscrowTypeOK, NEW b \in Bookings, NEW new \in Statuses, UpdateBookingStatus(b, new)
    PROVE  status' \in [Bookings -> Statuses]
BY DEF EscrowTypeOK, UpdateBookingStatus

LEMMA OpenDisputeType ==
    ASSUME TypeOK, NEW b \in Bookings, NEW initiator \in Users, OpenDispute(b, initiator)
    PROVE  TypeOK'
<1>1. CoreTypeOK' /\ TreasuryTypeOK'
    BY CoreFrame, TreasuryFrame DEF TypeOK, OpenDispute
<1>2. status' \in [Bookings -> Statuses]
    BY UpdateBookingStatusType DEF TypeOK, OpenDispute, Statuses
<1>3. EscrowTypeOK'
    BY <1>2 DEF TypeOK, EscrowTypeOK, AvailabilityTypeOK, OpenDispute, termVars, reviewVars
<1>4. status[b] \in Disputable
    BY DEF OpenDispute, OpenDisputeAccounts
<1>5. DisputesTypeOK'
    BY <1>4 DEF TypeOK, EscrowTypeOK, DisputesTypeOK, OpenDispute, historyVars, DisputeStates,
               Parties
<1>6. QED
    BY <1>1, <1>3, <1>5 DEF TypeOK

LEMMA OriginalStatusType ==
    ASSUME DisputesTypeOK, NEW d \in Bookings
    PROVE  originalStatus[d] \in Disputable /\ originalStatus[d] \in Statuses
BY DEF DisputesTypeOK, Disputable, Statuses

LEMMA SolveDisputeBeforeAdminType ==
    ASSUME TypeOK, NEW d \in Bookings, NEW b \in Bookings, NEW initiator \in Users,
           SolveDisputeBeforeAdmin(d, b, initiator)
    PROVE  TypeOK'
<1>1. CoreTypeOK' /\ TreasuryTypeOK'
    BY CoreFrame, TreasuryFrame DEF TypeOK, SolveDisputeBeforeAdmin
<1>2. status' \in [Bookings -> Statuses]
    BY UpdateBookingStatusType, OriginalStatusType DEF TypeOK, SolveDisputeBeforeAdmin
<1>3. EscrowTypeOK'
    BY <1>2 DEF TypeOK, EscrowTypeOK, AvailabilityTypeOK, SolveDisputeBeforeAdmin, termVars,
                reviewVars
<1>4. DisputesTypeOK'
    BY DEF TypeOK, DisputesTypeOK, SolveDisputeBeforeAdmin, DisputeStates
<1>5. QED
    BY <1>1, <1>3, <1>4 DEF TypeOK

LEMMA EscalateDisputeType ==
    ASSUME TypeOK, NEW d \in Bookings, EscalateDispute(d)
    PROVE  TypeOK'
<1>1. CoreTypeOK' /\ TreasuryTypeOK' /\ EscrowTypeOK'
    BY CoreFrame, TreasuryFrame, EscrowFrame DEF TypeOK, EscalateDispute
<1>2. DisputesTypeOK'
    BY DEF TypeOK, DisputesTypeOK, EscalateDispute, historyVars, DisputeStates
<1>3. QED
    BY <1>1, <1>2 DEF TypeOK

LEMMA GuiltyPartyType ==
    ASSUME DisputesTypeOK, NEW b \in Bookings, NEW kind \in FaultOutcomes
    PROVE  GuiltyParty(b, kind) \in Parties
<1> USE DEF GuiltyParty, Parties, DisputesTypeOK
<1>1. CASE kind = "GuestFavored"
    BY <1>1
<1>2. CASE kind = "HostFavored"
    BY <1>2
<1>3. CASE kind = "MaliciousClaim"
    BY <1>3
<1>4. QED
    BY <1>1, <1>2, <1>3 DEF FaultOutcomes

LEMMA FaultType ==
    ASSUME NEW outcome \in Outcomes, outcome.kind # "NoFaultFound"
    PROVE  outcome.kind \in FaultOutcomes /\ outcome.severity \in Severities
BY DisputesAssumption DEF AllOutcomes

(* The parties of a verdict are users, and its rates are at most the whole. *)
LEMMA JudgementType ==
    ASSUME TypeOK, NEW b \in Bookings, NEW outcome \in Outcomes, outcome.kind # "NoFaultFound"
    PROVE  LET j == Judgement(b, outcome)
           IN  /\ j.guilty \in Users /\ j.victim \in Users
               /\ j.rates.escrow \in Nat /\ j.rates.escrow <= 10000
               /\ j.rates.treasury \in Nat /\ j.rates.treasury <= 10000
<1> DEFINE party == GuiltyParty(b, outcome.kind)
           rates == SlashRates(outcome.severity, party)
<1>1. Judgement(b, outcome) =
          [guilty |-> PartyProfile(b, party),
           victim |-> IF party = "Guest" THEN HostOf(b) ELSE Guest[b],
           rates  |-> rates]
    BY DEF Judgement
<1>2. party \in Parties /\ outcome.severity \in Severities
    BY FaultType, GuiltyPartyType DEF TypeOK
<1> HIDE DEF party
<1>3. /\ rates.escrow \in Nat /\ rates.escrow <= 10000
      /\ rates.treasury \in Nat /\ rates.treasury <= 10000
    BY <1>2, SlashRatesBounds
<1> HIDE DEF rates
<1>4. QED
    BY <1>1, <1>3, PartyIsUser DEF PartyProfile

LEMMA JudgementMoney ==
    ASSUME TypeOK, NEW b \in Bookings, NEW outcome \in Outcomes, outcome.kind # "NoFaultFound"
    PROVE  LET j     == Judgement(b, outcome)
               slash == BasisPoints(deposited[j.guilty], j.rates.treasury)
           IN  /\ DisputeSplit(total[b], j.rates.escrow)
                     \in [victim : Nat, guilty : Nat, stayke : Nat]
               /\ slash \in Nat /\ slash <= deposited[j.guilty]
<1> DEFINE j     == Judgement(b, outcome)
           split == DisputeSplit(total[b], j.rates.escrow)
           slash == BasisPoints(deposited[j.guilty], j.rates.treasury)
<1>1. /\ j.guilty \in Users /\ j.victim \in Users
      /\ j.rates.escrow \in Nat /\ j.rates.escrow <= 10000
      /\ j.rates.treasury \in Nat /\ j.rates.treasury <= 10000
    BY JudgementType
<1> HIDE DEF j
<1>2. split \in [victim : Nat, guilty : Nat, stayke : Nat]
    <2>1. total[b] \in Nat
        BY DEF TypeOK, EscrowTypeOK
    <2>2. PICK amount \in Nat, bps \in Nat :
              amount = total[b] /\ bps = j.rates.escrow /\ bps <= 10000
        BY <1>1, <2>1
    <2>3. amount \in Nat /\ bps \in Nat /\ bps <= 10000
        BY <2>2
    <2>4. DisputeSplit(amount, bps) \in [victim : Nat, guilty : Nat, stayke : Nat]
        BY <2>3, DisputeSplitType
    <2>5. QED
        BY <2>2, <2>4
<1>3. slash \in Nat /\ slash <= deposited[j.guilty]
    <2>1. deposited[j.guilty] \in Nat
        BY <1>1 DEF TypeOK, CoreTypeOK
    <2>2. PICK amount \in Nat, bps \in Nat :
              amount = deposited[j.guilty] /\ bps = j.rates.treasury /\ bps <= 10000
        BY <1>1, <2>1
    <2>3. amount \in Nat /\ bps \in Nat /\ bps <= 10000
        BY <2>2
    <2>4. BasisPoints(amount, bps) \in Nat /\ BasisPoints(amount, bps) <= amount
        BY <2>3, BasisPointsBounds
    <2>5. QED
        BY <2>2, <2>4
<1>4. QED
    BY <1>2, <1>3 DEF j

LEMMA ExecuteJudgementType ==
    ASSUME TypeOK, NEW b \in Bookings, NEW outcome \in Outcomes,
           outcome.kind # "NoFaultFound", ExecuteJudgement(b, outcome)
    PROVE  CoreTypeOK' /\ TreasuryTypeOK' /\ EscrowTypeOK'
<1> DEFINE j       == Judgement(b, outcome)
           split   == DisputeSplit(total[b], j.rates.escrow)
           slash   == BasisPoints(deposited[j.guilty], j.rates.treasury)
           payment == deposited[j.guilty] - slash
<1>1. /\ j.guilty \in Users /\ j.victim \in Users
      /\ j.rates.escrow \in Nat /\ j.rates.escrow <= 10000
      /\ j.rates.treasury \in Nat /\ j.rates.treasury <= 10000
    BY JudgementType
<1>2. /\ AddInfraction(j.guilty, outcome.severity)
      /\ UNCHANGED <<identityVars, activeBooking, stayVars, clientCancellations,
                     hostCancellations, scoreVars>>
    BY DEF ExecuteJudgement
<1>3. /\ wallet' = Credit(Credit(wallet, j.guilty, split.guilty), j.victim,
                          split.victim + payment)
      /\ platform' = platform + split.stayke
      /\ PenalizeTransfer(payment)
      /\ DecreaseDeposit(j.guilty, slash)
    BY DEF ExecuteJudgement
<1>4. /\ CloseEscrow(b, split.guilty + split.victim + split.stayke)
      /\ UpdateBookingStatus(b, "DisputeResolved")
      /\ UNCHANGED <<now, termVars, updatedAt, reviewVars, occupied>>
    BY DEF ExecuteJudgement
<1> HIDE DEF j
<1>5. split \in [victim : Nat, guilty : Nat, stayke : Nat]
    BY JudgementMoney DEF j
<1>6. slash \in Nat /\ slash <= deposited[j.guilty]
    BY JudgementMoney DEF j
<1> HIDE DEF split, slash
<1>7. payment \in Nat
    BY <1>1, <1>6 DEF TypeOK, CoreTypeOK
<1> HIDE DEF payment
<1>8. deposited' \in [Users -> Nat]
    BY <1>1, <1>3, <1>6, DecreaseDepositType DEF TypeOK, CoreTypeOK
<1>9. infractions' \in [Users -> [Severities -> Nat]]
    BY <1>1, <1>2, FaultType DEF TypeOK, CoreTypeOK, AddInfraction
<1>10. CoreTypeOK'
    BY <1>2, <1>8, <1>9 DEF TypeOK, CoreTypeOK, identityVars, stayVars, scoreVars
<1>11. TreasuryTypeOK'
    <2>1. vault' \in Nat
        BY <1>3, <1>7 DEF TypeOK, TreasuryTypeOK, PenalizeTransfer, CanPenalize
    <2>2. wallet' \in [Users -> Nat]
        BY <1>1, <1>3, <1>5, <1>7 DEF TypeOK, TreasuryTypeOK, Credit
    <2>3. QED
        BY <2>1, <2>2 DEF TreasuryTypeOK
<1>12. EscrowTypeOK'
    <2>1. status' \in [Bookings -> Statuses]
        BY <1>4, UpdateBookingStatusType DEF TypeOK, Statuses
    <2>2. platform' \in Nat /\ escrow' \in [Bookings -> Nat]
        BY <1>3, <1>4, <1>5 DEF TypeOK, EscrowTypeOK, CloseEscrow
    <2>3. QED
        BY <1>4, <2>1, <2>2 DEF TypeOK, EscrowTypeOK, AvailabilityTypeOK, termVars, reviewVars
<1>13. QED
    BY <1>10, <1>11, <1>12

LEMMA ResolveDisputeType ==
    ASSUME TypeOK, NEW a \in Admins, NEW b \in Bookings, NEW outcome \in Outcomes,
           ResolveDispute(a, b, outcome)
    PROVE  TypeOK'
<1>1. CoreTypeOK' /\ TreasuryTypeOK' /\ EscrowTypeOK'
    <2>1. CASE outcome.kind = "NoFaultFound"
        BY <2>1, CoreFrame, TreasuryFrame, EscrowFrame DEF TypeOK, ResolveDispute
    <2>2. CASE outcome.kind # "NoFaultFound"
        BY <2>2, ExecuteJudgementType DEF ResolveDispute
    <2>3. QED
        BY <2>1, <2>2
<1>2. DisputesTypeOK'
    BY DEF TypeOK, DisputesTypeOK, ResolveDispute, historyVars, DisputeStates
<1>3. QED
    BY <1>1, <1>2 DEF TypeOK

LEMMA CloseDisputeType ==
    ASSUME TypeOK, NEW d \in Bookings, CloseDispute(d)
    PROVE  TypeOK'
<1>1. TreasuryTypeOK'
    BY TreasuryFrame DEF TypeOK, CloseDispute
<1>2. DisputesTypeOK'
    BY DEF TypeOK, DisputesTypeOK, CloseDispute, CloseDisputeAccount, historyVars,
           DisputeStates, Parties, Disputable
<1>3. /\ UNCHANGED <<identityVars, deposited, reputationVars, scoreVars>>
      /\ UNCHANGED <<now, termVars, updatedAt, reviewVars, escrow, platform, occupied>>
    BY DEF CloseDispute
<1>4. CoreTypeOK' /\ status' \in [Bookings -> Statuses]
    <2>1. CASE disputeState[d] # "ResolvedByAdmin"
        BY <1>3, <2>1, CoreFrame
           DEF TypeOK, EscrowTypeOK, CloseDispute, SettleDisputedStay, coreVars
    <2>2. CASE disputeState[d] = "ResolvedByAdmin" /\ status[d] = "Disputed"
        <3>1. UpdateBookingStatus(d, originalStatus[d]) /\ UNCHANGED coreVars
            BY <1>3, <2>2 DEF CloseDispute, SettleDisputedStay, coreVars
        <3>2. QED
            BY <3>1, CoreFrame, UpdateBookingStatusType, OriginalStatusType DEF TypeOK
    <2>3. CASE disputeState[d] = "ResolvedByAdmin" /\ status[d] # "Disputed"
        <3>1. CountStay(d) /\ UNCHANGED status
            BY <2>3 DEF CloseDispute, SettleDisputedStay
        <3>2. QED
            BY <1>3, <3>1, CountStayType DEF TypeOK, EscrowTypeOK, CountStay
    <2>4. QED
        BY <2>1, <2>2, <2>3
<1>5. EscrowTypeOK'
    BY <1>3, <1>4 DEF TypeOK, EscrowTypeOK, AvailabilityTypeOK, termVars, reviewVars
<1>6. QED
    BY <1>1, <1>2, <1>4, <1>5 DEF TypeOK

LEMMA AdminsType ==
    ASSUME TypeOK, NEW a \in Admins, NEW other \in Admins,
           AddAdmin(a, other) \/ DeleteAdmin(a, other)
    PROVE  TypeOK'
<1>1. UNCHANGED <<coreVars, treasuryVars, escrowVars, accountVars, historyVars>>
    BY DEF AddAdmin, DeleteAdmin
<1>2. CoreTypeOK' /\ TreasuryTypeOK' /\ EscrowTypeOK'
    BY <1>1, CoreFrame, TreasuryFrame, EscrowFrame DEF TypeOK
<1>3. DisputesTypeOK'
    BY <1>1 DEF TypeOK, DisputesTypeOK, accountVars, historyVars, AddAdmin, DeleteAdmin
<1>4. QED
    BY <1>2, <1>3 DEF TypeOK

-----------------------------------------------------------------------------
(* The steps of Next, action by action. *)

LEMMA AvailabilityType ==
    ASSUME TypeOK, NEW b \in Bookings, NEW out \in Nat,
           \/ ReserveDaysSingleYear(PropertyOf[b], CheckIn[b], out)
           \/ ReserveDaysCrossYears(PropertyOf[b], CheckIn[b], out)
           \/ ReleaseDaysSingleYear(PropertyOf[b], CheckIn[b], out)
           \/ ReleaseDaysCrossYears(PropertyOf[b], CheckIn[b], out)
    PROVE  AvailabilityTypeOK'
<1> DEFINE days == StayDays(CheckIn[b], out)
<1>1. CheckIn[b] \in Nat /\ PropertyOf[b] \in Properties
    BY EscrowAssumption
<1>2. days \in SUBSET Nat
    BY <1>1, StayDaysNat
<1>3. Reserve(PropertyOf[b], days) \/ Release(PropertyOf[b], days)
    BY DEF ReserveDaysSingleYear, ReserveDaysCrossYears, ReleaseDaysSingleYear,
           ReleaseDaysCrossYears
<1> HIDE DEF days
<1>4. AvailabilityTypeOK
    BY DEF TypeOK, EscrowTypeOK
<1>5. QED
    BY <1>1, <1>2, <1>3, <1>4, ReserveType, ReleaseType

LEMMA ExpireType ==
    ASSUME TypeOK, NEW b \in Bookings, Expire(b)
    PROVE  TypeOK'
<1>1. checkOut[b] \in Nat
    BY DEF TypeOK, EscrowTypeOK
<1>2. AvailabilityTypeOK'
    BY <1>1, AvailabilityType DEF Expire, ExpireBooking, ExpireBookingCrossYear
<1>3. QED
    BY <1>2, RefundAndCloseType, DisputesFrame
       DEF TypeOK, Expire, ExpireBooking, ExpireBookingCrossYear

LEMMA CrankNextType ==
    ASSUME TypeOK, NEW b \in Bookings, CrankNext(b)
    PROVE  TypeOK'
<1>1. CASE Expire(b)
    BY <1>1, ExpireType
<1>2. CASE Complete(b)
    BY <1>2, BookingCompletesType, DisputesFrame DEF TypeOK, Complete
<1>3. CASE PayOut(b)
    BY <1>3, ReleaseFundsType, DisputesFrame DEF TypeOK, PayOut
<1>4. CASE EscalateDispute(b)
    BY <1>4, EscalateDisputeType
<1>5. CASE CloseDispute(b)
    BY <1>5, CloseDisputeType
<1>6. QED
    BY <1>1, <1>2, <1>3, <1>4, <1>5 DEF CrankNext

LEMMA BookingNextType ==
    ASSUME TypeOK, NEW b \in Bookings, BookingNext(b)
    PROVE  TypeOK'
<1>1. DisputesTypeOK'
    BY DisputesFrame DEF TypeOK, BookingNext
<1>2. checkOut[b] \in Nat
    BY DEF TypeOK, EscrowTypeOK
<1>3. CoreTypeOK' /\ TreasuryTypeOK' /\ EscrowTypeOK'
    <2>1. ASSUME NEW out \in CheckOuts, NEW price \in Prices,
                 CreateBooking(b, out, price) \/ CreateBookingCrossYear(b, out, price)
          PROVE  CoreTypeOK' /\ TreasuryTypeOK' /\ EscrowTypeOK'
        <3>1. out \in Nat
            BY EscrowAssumption
        <3>2. AvailabilityTypeOK'
            BY <2>1, <3>1, AvailabilityType DEF CreateBooking, CreateBookingCrossYear
        <3>3. FundBooking(b, out, price)
            BY <2>1 DEF CreateBooking, CreateBookingCrossYear
        <3>4. QED
            BY <3>2, <3>3, FundBookingType
    <2>2. CASE HostAcceptBooking(b)
        BY <2>2, HostAcceptBookingType
    <2>3. CASE HostRejectBooking(b) \/ HostRejectBookingCrossYear(b)
        <3>1. AvailabilityTypeOK'
            BY <1>2, <2>3, AvailabilityType DEF HostRejectBooking, HostRejectBookingCrossYear
        <3>2. QED
            BY <2>3, <3>1, RefundAndCloseType DEF HostRejectBooking, HostRejectBookingCrossYear
    <2>4. CASE GuestCancelBooking(b) \/ GuestCancelBookingCrossYear(b)
        <3>1. AvailabilityTypeOK'
            BY <1>2, <2>4, AvailabilityType DEF GuestCancelBooking, GuestCancelBookingCrossYear
        <3>2. QED
            BY <2>4, <3>1, GuestCancelType DEF GuestCancelBooking, GuestCancelBookingCrossYear
    <2>5. CASE HostCancelBooking(b) \/ HostCancelBookingCrossYear(b)
        <3>1. AvailabilityTypeOK'
            BY <1>2, <2>5, AvailabilityType DEF HostCancelBooking, HostCancelBookingCrossYear
        <3>2. QED
            BY <2>5, <3>1, HostCancelType DEF HostCancelBooking, HostCancelBookingCrossYear
    <2>6. ASSUME NEW hostProfile \in Users, BookingStarts(b, hostProfile)
          PROVE  CoreTypeOK' /\ TreasuryTypeOK' /\ EscrowTypeOK'
        BY <2>6, BookingStartsType
    <2>7. ASSUME NEW score \in ReviewScores, GuestReviews(b, score) \/ HostReviews(b, score)
          PROVE  CoreTypeOK' /\ TreasuryTypeOK' /\ EscrowTypeOK'
        BY <2>7, GuestReviewsType, HostReviewsType
    <2>8. QED
        BY <2>1, <2>2, <2>3, <2>4, <2>5, <2>6, <2>7 DEF BookingNext
<1>4. QED
    BY <1>1, <1>3 DEF TypeOK

LEMMA DisputeNextType ==
    ASSUME TypeOK, NEW b \in Bookings, DisputeNext(b)
    PROVE  TypeOK'
<1>1. ASSUME NEW initiator \in Disputants, OpenDispute(b, initiator)
      PROVE  TypeOK'
    BY <1>1, OpenDisputeType, DisputesAssumption
<1>2. ASSUME NEW c \in Bookings, NEW initiator \in Users,
             SolveDisputeBeforeAdmin(b, c, initiator)
      PROVE  TypeOK'
    BY <1>2, SolveDisputeBeforeAdminType
<1>3. ASSUME NEW a \in Admins, NEW outcome \in Outcomes, ResolveDispute(a, b, outcome)
      PROVE  TypeOK'
    BY <1>3, ResolveDisputeType
<1>4. QED
    BY <1>1, <1>2, <1>3 DEF DisputeNext

LEMMA PartyNextType ==
    ASSUME TypeOK, PartyNext
    PROVE  TypeOK'
<1>1. CASE CoreNext
    BY <1>1, LinkIdentityType, TreasuryFrame, EscrowFrame, DisputesFrame DEF TypeOK, CoreNext
<1>2. CASE GuaranteeNext
    BY <1>2, DepositGuaranteeType, WithdrawGuaranteeType, EscrowFrame, DisputesFrame
       DEF TypeOK, GuaranteeNext, TreasuryNext
<1>3. ASSUME NEW b \in Bookings, BookingNext(b) \/ DisputeNext(b)
      PROVE  TypeOK'
    BY <1>3, BookingNextType, DisputeNextType
<1>4. CASE AdminNext
    BY <1>4, AdminsType DEF AdminNext
<1>5. QED
    BY <1>1, <1>2, <1>3, <1>4 DEF PartyNext

LEMMA TickType ==
    ASSUME TypeOK, Tick
    PROVE  TypeOK'
<1>1. CoreTypeOK' /\ TreasuryTypeOK' /\ DisputesTypeOK'
    BY CoreFrame, TreasuryFrame, DisputesFrame DEF TypeOK, Tick
<1>2. EscrowTypeOK'
    BY DEF TypeOK, EscrowTypeOK, AvailabilityTypeOK, Tick, termVars, reviewVars
<1>3. QED
    BY <1>1, <1>2 DEF TypeOK

LEMMA NextTypeOK == TypeOK /\ [Next]_vars => TypeOK'
<1> SUFFICES ASSUME TypeOK, [Next]_vars PROVE TypeOK'
    OBVIOUS
<1>1. CASE Tick
    BY <1>1, TickType
<1>2. ASSUME NEW b \in Bookings, CrankNext(b)
      PROVE  TypeOK'
    BY <1>2, CrankNextType
<1>3. CASE PartyNext
    BY <1>3, PartyNextType
<1>4. CASE UNCHANGED vars
    BY <1>4, CoreFrame, TreasuryFrame, EscrowFrame, DisputesFrame DEF TypeOK, vars
<1>5. QED
    BY <1>1, <1>2, <1>3, <1>4 DEF Next

(* Every balance, counter and status stays in its type whatever the parties,
   the admins and the clock do: no payment, slash or split makes a balance
   negative. *)
THEOREM TypeCorrect == Spec => []TypeOK
BY InitTypeOK, NextTypeOK, PTL DEF Spec

-----------------------------------------------------------------------------
(* The escrow. *)

Custodial == TypeOK /\ DisputeCoupled /\ EscrowBacked

(* The status changes made without a dispute. *)
Moves(s, t) ==
    \/ s = "None" /\ t = "Pending"
    \/ s = "Pending" /\ t \in {"None", "HostAccepted", "Cancelled"}
    \/ s = "HostAccepted" /\ t \in {"Active", "Cancelled"}
    \/ s = "Active" /\ t = "Completed"
    \/ s = "Completed" /\ t = "Released"
    \/ s = t

(* The booking b takes the status t, and its escrow what that status asks.
   The price and the escrow of an undecided booking stay. *)
Takes(b, t) ==
    /\ status' = [status EXCEPT ![b] = t]
    /\ total' = [total EXCEPT ![b] = total'[b]]
    /\ status[b] \in Held /\ t \in Held => total'[b] = total[b]
    /\ escrow' = [escrow EXCEPT ![b] = IF t \notin Held THEN 0
                                      ELSE IF status[b] \in Held THEN escrow[b]
                                      ELSE total'[b]]
    /\ UNCHANGED historyVars

LEMMA TakesBacked ==
    ASSUME TypeOK, EscrowBacked, NEW b \in Bookings, NEW t, Takes(b, t)
    PROVE  EscrowBacked'
BY DEF TypeOK, EscrowTypeOK, EscrowBacked, InEscrow, Takes, historyVars

LEMMA MovesCoupled ==
    ASSUME TypeOK, DisputeCoupled, NEW b \in Bookings, NEW t, Takes(b, t),
           Moves(status[b], t), UNCHANGED disputeState
    PROVE  DisputeCoupled'
<1>1. UNCHANGED <<strayed, abandoned>>
    BY DEF Takes, historyVars
<1> SUFFICES ASSUME NEW c \in Bookings
             PROVE  Fits(c)'
    BY DEF DisputeCoupled
<1>2. Fits(c)
    BY DEF DisputeCoupled
<1>3. CASE c = b
    <2>1. status'[c] = t /\ disputeState'[c] = disputeState[c]
        BY <1>3 DEF TypeOK, EscrowTypeOK, Takes
    <2>2. QED
        BY <1>1, <1>2, <1>3, <2>1 DEF Fits, Coupled, Stranded, Restored, Started, Moves
<1>4. CASE c # b
    BY <1>1, <1>2, <1>4 DEF TypeOK, EscrowTypeOK, Takes, Fits
<1>5. QED
    BY <1>3, <1>4

-----------------------------------------------------------------------------
(* The moves of a booking, action by action. *)

LEMMA FundBookingMoves ==
    ASSUME Custodial, NEW b \in Bookings, NEW out, NEW price, FundBooking(b, out, price),
           UNCHANGED historyVars
    PROVE  Takes(b, "Pending") /\ Moves(status[b], "Pending")
BY DEF Custodial, TypeOK, EscrowTypeOK, FundBooking, CreateBookingAccounts, Takes, Moves, Held

LEMMA RefundMoves ==
    ASSUME Custodial, NEW b \in Bookings, status[b] = "Pending", RefundAndClose(b),
           UNCHANGED historyVars
    PROVE  Takes(b, "None") /\ Moves(status[b], "None")
BY DEF Custodial, TypeOK, EscrowTypeOK, RefundAndClose, CloseBooking, CloseEscrow, Takes, Moves,
       Held

LEMMA CancelMoves ==
    ASSUME Custodial, NEW b \in Bookings, GuestCancel(b) \/ HostCancel(b), UNCHANGED historyVars
    PROVE  Takes(b, "Cancelled") /\ Moves(status[b], "Cancelled")
<1>1. /\ CancelBookingAccounts(b)
      /\ status' = [status EXCEPT ![b] = "Cancelled"]
      /\ escrow' = [escrow EXCEPT ![b] = 0]
      /\ UNCHANGED total
    BY DEF GuestCancel, HostCancel, CloseEscrow, termVars
<1>2. QED
    BY <1>1 DEF Custodial, TypeOK, EscrowTypeOK, CancelBookingAccounts, Takes, Moves, Held

(* A step that keeps the booking undecided leaves its escrow alone. *)
LEMMA KeepsEscrow ==
    ASSUME Custodial, NEW b \in Bookings, NEW t \in Held, status[b] \in Held,
           status' = [status EXCEPT ![b] = t], UNCHANGED <<total, escrow, historyVars>>
    PROVE  Takes(b, t)
BY DEF Custodial, TypeOK, EscrowTypeOK, Takes

(* A booking left alone. *)
LEMMA Rests ==
    ASSUME Custodial, NEW b \in Bookings, UNCHANGED <<status, total, escrow, historyVars>>
    PROVE  Takes(b, status[b])
BY DEF Custodial, TypeOK, EscrowTypeOK, EscrowBacked, InEscrow, Takes

LEMMA HostAcceptMoves ==
    ASSUME Custodial, NEW b \in Bookings, HostAcceptBooking(b), UNCHANGED historyVars
    PROVE  Takes(b, "HostAccepted") /\ Moves(status[b], "HostAccepted")
BY KeepsEscrow DEF HostAcceptBooking, HostAcceptBookingAccounts, termVars, Moves, Held

LEMMA BookingStartsMoves ==
    ASSUME Custodial, NEW b \in Bookings, NEW hostProfile, BookingStarts(b, hostProfile),
           UNCHANGED historyVars
    PROVE  Takes(b, "Active") /\ Moves(status[b], "Active")
BY KeepsEscrow DEF BookingStarts, BookingStartsAccounts, termVars, Moves, Held

LEMMA BookingCompletesMoves ==
    ASSUME Custodial, NEW b \in Bookings, BookingCompletes(b), UNCHANGED historyVars
    PROVE  Takes(b, "Completed") /\ Moves(status[b], "Completed")
BY KeepsEscrow DEF BookingCompletes, BookingCompletesAccounts, termVars, Moves, Held

LEMMA ReleaseFundsMoves ==
    ASSUME Custodial, NEW b \in Bookings, ReleaseFunds(b), UNCHANGED historyVars
    PROVE  Takes(b, "Released") /\ Moves(status[b], "Released")
<1>1. /\ ReleaseFundsAccounts(b)
      /\ status' = [status EXCEPT ![b] = "Released"]
      /\ escrow' = [escrow EXCEPT ![b] = 0]
      /\ UNCHANGED total
    BY DEF ReleaseFunds, CloseEscrow, termVars
<1>2. QED
    BY <1>1 DEF Custodial, TypeOK, EscrowTypeOK, ReleaseFundsAccounts, Takes, Moves, Held

-----------------------------------------------------------------------------
(* The status changes that go with a change of the dispute. *)
Decides(s, d, t, e) ==
    \/ s \in Disputable /\ d = "None" /\ t = "Disputed" /\ e = "OpenP2P"
    \/ s = "Disputed" /\ d = "OpenP2P" /\ t \in Disputable /\ e = "ResolvedByP2P"
    \/ t = s /\ d = "OpenP2P" /\ e = "Escalated"
    \/ t = s /\ d = "Escalated" /\ e = "ResolvedByAdmin"
    \/ s = "Disputed" /\ d = "Escalated" /\ t = "DisputeResolved" /\ e = "ResolvedByAdmin"
    \/ s = "Disputed" /\ d = "ResolvedByAdmin" /\ t \in Disputable /\ e = "None"
    \/ s # "Disputed" /\ t = s /\ d = "ResolvedByAdmin" /\ e = "None"
    \/ t = s /\ d = "ResolvedByP2P" /\ e = "None"

(* The booking b takes the status t and its dispute the state e. *)
Settles(b, t, e) ==
    /\ Takes(b, t)
    /\ disputeState' = [disputeState EXCEPT ![b] = e]
    /\ Decides(status[b], disputeState[b], t, e)

(* The dispute of d is withdrawn with the booking b, which strays; or b has
   already, and is restored again.  No money moves. *)
Crosses(d, b) ==
    /\ b # d \/ b \in strayed
    /\ disputeState[d] = "OpenP2P"
    /\ status[b] # "None"
    /\ status' = [status EXCEPT ![b] = originalStatus[d]]
    /\ disputeState' = [disputeState EXCEPT ![d] = "ResolvedByP2P"]
    /\ strayed' = strayed \cup {b}
    /\ abandoned' = IF b = d THEN abandoned ELSE abandoned \cup {d}
    /\ UNCHANGED <<total, escrow>>

(* What a step does to the bookings, their money and their disputes. *)
Advance ==
    \/ UNCHANGED <<status, total, escrow, disputeState, historyVars>>
    \/ \E b \in Bookings, t \in Statuses :
          Takes(b, t) /\ Moves(status[b], t) /\ UNCHANGED disputeState
    \/ \E b \in Bookings, t \in Statuses, e \in DisputeStates : Settles(b, t, e)
    \/ \E d, b \in Bookings : Crosses(d, b)

LEMMA BookingNextAdvances ==
    ASSUME Custodial, NEW b \in Bookings, BookingNext(b)
    PROVE  Advance
<1>1. UNCHANGED <<disputeState, historyVars>>
    BY DEF BookingNext, disputeVars, accountVars
<1>2. ASSUME NEW out \in CheckOuts, NEW price \in Prices,
             CreateBooking(b, out, price) \/ CreateBookingCrossYear(b, out, price)
      PROVE  Advance
    BY <1>1, <1>2, FundBookingMoves DEF CreateBooking, CreateBookingCrossYear, Advance, Statuses
<1>3. CASE HostAcceptBooking(b)
    BY <1>1, <1>3, HostAcceptMoves DEF Advance, Statuses
<1>4. CASE HostRejectBooking(b) \/ HostRejectBookingCrossYear(b)
    BY <1>1, <1>4, RefundMoves
       DEF HostRejectBooking, HostRejectBookingCrossYear, HostRejectBookingAccounts, Advance,
           Statuses
<1>5. CASE \/ GuestCancelBooking(b) \/ GuestCancelBookingCrossYear(b)
           \/ HostCancelBooking(b) \/ HostCancelBookingCrossYear(b)
    BY <1>1, <1>5, CancelMoves
       DEF GuestCancelBooking, GuestCancelBookingCrossYear, HostCancelBooking,
           HostCancelBookingCrossYear, Advance, Statuses
<1>6. ASSUME NEW hostProfile \in Users, BookingStarts(b, hostProfile)
      PROVE  Advance
    BY <1>1, <1>6, BookingStartsMoves DEF Advance, Statuses
<1>7. ASSUME NEW score \in ReviewScores, GuestReviews(b, score) \/ HostReviews(b, score)
      PROVE  Advance
    BY <1>1, <1>7 DEF GuestReviews, HostReviews, termVars, Advance
<1>8. QED
    BY <1>2, <1>3, <1>4, <1>5, <1>6, <1>7 DEF BookingNext

LEMMA OpenDisputeSettles ==
    ASSUME Custodial, NEW b \in Bookings, NEW initiator, OpenDispute(b, initiator)
    PROVE  Settles(b, "Disputed", "OpenP2P")
<1>1. /\ status[b] \in Disputable
      /\ status' = [status EXCEPT ![b] = "Disputed"]
      /\ UNCHANGED <<total, escrow, historyVars>>
      /\ disputeState[b] = "None"
      /\ disputeState' = [disputeState EXCEPT ![b] = "OpenP2P"]
    BY DEF OpenDispute, OpenDisputeAccounts, UpdateBookingStatus, termVars
<1>2. Takes(b, "Disputed")
    BY <1>1, KeepsEscrow DEF Disputable, Held
<1>3. QED
    BY <1>1, <1>2 DEF Settles, Decides

LEMMA SolveDisputeSettles ==
    ASSUME Custodial, NEW d \in Bookings, NEW b \in Bookings, NEW initiator,
           SolveDisputeBeforeAdmin(d, b, initiator)
    PROVE  Crosses(d, b) \/ Settles(d, originalStatus[d], "ResolvedByP2P")
<1>1. /\ disputeState[d] = "OpenP2P"
      /\ status[b] # "None"
      /\ status' = [status EXCEPT ![b] = originalStatus[d]]
      /\ UNCHANGED <<total, escrow>>
      /\ disputeState' = [disputeState EXCEPT ![d] = "ResolvedByP2P"]
      /\ strayed' = IF b = d THEN strayed ELSE strayed \cup {b}
      /\ abandoned' = IF b = d THEN abandoned ELSE abandoned \cup {d}
    BY DEF SolveDisputeBeforeAdmin, SolveDisputeBeforeAdminAccounts, UpdateBookingStatus, termVars
<1>2. CASE b # d \/ b \in strayed
    BY <1>1, <1>2 DEF Crosses
<1>3. CASE b = d /\ b \notin strayed
    <2>1. UNCHANGED historyVars
        BY <1>1, <1>3 DEF historyVars
    <2>2. status[d] = "Disputed"
        BY <1>1, <1>3 DEF Custodial, DisputeCoupled, Fits, Coupled, Stranded
    <2>3. originalStatus[d] \in Disputable
        BY DEF Custodial, TypeOK, DisputesTypeOK
    <2>4. Takes(d, originalStatus[d])
        BY <1>1, <1>3, <2>1, <2>2, <2>3, KeepsEscrow DEF Disputable, Held
    <2>5. QED
        BY <1>1, <1>3, <2>2, <2>3, <2>4 DEF Settles, Decides
<1>4. QED
    BY <1>2, <1>3

LEMMA EscalateDisputeSettles ==
    ASSUME Custodial, NEW d \in Bookings, EscalateDispute(d)
    PROVE  Settles(d, status[d], "Escalated")
<1>1. /\ disputeState[d] = "OpenP2P"
      /\ UNCHANGED <<status, total, escrow, historyVars>>
      /\ disputeState' = [disputeState EXCEPT ![d] = "Escalated"]
    BY DEF EscalateDispute, escrowVars, termVars
<1>2. Takes(d, status[d])
    BY <1>1, Rests
<1>3. QED
    BY <1>1, <1>2 DEF Settles, Decides

LEMMA ResolveDisputeSettles ==
    ASSUME Custodial, NEW a \in Admins, NEW b \in Bookings, NEW outcome \in Outcomes,
           ResolveDispute(a, b, outcome)
    PROVE  \E t \in {status[b], "DisputeResolved"} : Settles(b, t, "ResolvedByAdmin")
<1>1. /\ disputeState[b] = "Escalated"
      /\ disputeState' = [disputeState EXCEPT ![b] = "ResolvedByAdmin"]
      /\ UNCHANGED historyVars
    BY DEF ResolveDispute, ResolveDisputeAccounts
<1>2. CASE outcome.kind = "NoFaultFound"
    <2>1. UNCHANGED <<status, total, escrow>>
        BY <1>2 DEF ResolveDispute, escrowVars, termVars
    <2>2. Takes(b, status[b])
        BY <1>1, <2>1, Rests
    <2>3. QED
        BY <1>1, <2>2 DEF Settles, Decides
<1>3. CASE outcome.kind # "NoFaultFound"
    <2>1. ExecuteJudgement(b, outcome)
        BY <1>3 DEF ResolveDispute
    <2>2. /\ status[b] = "Disputed"
          /\ status' = [status EXCEPT ![b] = "DisputeResolved"]
          /\ escrow' = [escrow EXCEPT ![b] = 0]
          /\ UNCHANGED total
        BY <2>1 DEF ExecuteJudgement, ResolveDisputeTransferAccounts, UpdateBookingStatus,
                    CloseEscrow, termVars
    <2>3. Takes(b, "DisputeResolved")
        BY <1>1, <2>2 DEF Custodial, TypeOK, EscrowTypeOK, Takes, Held
    <2>4. QED
        BY <1>1, <2>2, <2>3 DEF Settles, Decides
<1>4. QED
    BY <1>2, <1>3

LEMMA CloseDisputeSettles ==
    ASSUME Custodial, NEW d \in Bookings, CloseDispute(d)
    PROVE  \E t \in {status[d], originalStatus[d]} : Settles(d, t, "None")
<1>1. /\ disputeState[d] \in {"ResolvedByAdmin", "ResolvedByP2P"}
      /\ SettleDisputedStay(d)
      /\ disputeState' = [disputeState EXCEPT ![d] = "None"]
      /\ UNCHANGED <<total, escrow, historyVars>>
    BY DEF CloseDispute, CloseDisputeAccounts, CloseDisputeAccount, termVars
<1>2. CASE status[d] = "Disputed" /\ disputeState[d] = "ResolvedByAdmin"
    <2>1. status' = [status EXCEPT ![d] = originalStatus[d]]
        BY <1>1, <1>2 DEF SettleDisputedStay, UpdateBookingStatus
    <2>2. originalStatus[d] \in Disputable
        BY DEF Custodial, TypeOK, DisputesTypeOK
    <2>3. Takes(d, originalStatus[d])
        BY <1>1, <1>2, <2>1, <2>2, KeepsEscrow DEF Disputable, Held
    <2>4. QED
        BY <1>1, <1>2, <2>2, <2>3 DEF Settles, Decides
<1>3. CASE status[d] # "Disputed" \/ disputeState[d] # "ResolvedByAdmin"
    <2>1. UNCHANGED status
        BY <1>1, <1>3 DEF SettleDisputedStay
    <2>2. Takes(d, status[d])
        BY <1>1, <2>1, Rests
    <2>3. QED
        BY <1>1, <1>3, <2>2 DEF Settles, Decides
<1>4. QED
    BY <1>2, <1>3

LEMMA CrankNextAdvances ==
    ASSUME Custodial, NEW b \in Bookings, CrankNext(b)
    PROVE  Advance
<1>1. CASE Expire(b)
    BY <1>1, RefundMoves
       DEF Expire, ExpireBooking, ExpireBookingCrossYear, ExpireBookingAccounts, disputeVars,
           accountVars, Advance, Statuses
<1>2. CASE Complete(b)
    BY <1>2, BookingCompletesMoves DEF Complete, disputeVars, accountVars, Advance, Statuses
<1>3. CASE PayOut(b)
    BY <1>3, ReleaseFundsMoves DEF PayOut, disputeVars, accountVars, Advance, Statuses
<1>4. status[b] \in Statuses /\ originalStatus[b] \in Statuses
    BY OriginalStatusType DEF Custodial, TypeOK, EscrowTypeOK
<1>5. CASE EscalateDispute(b)
    BY <1>4, <1>5, EscalateDisputeSettles DEF Advance, DisputeStates
<1>6. CASE CloseDispute(b)
    BY <1>4, <1>6, CloseDisputeSettles DEF Advance, DisputeStates
<1>7. QED
    BY <1>1, <1>2, <1>3, <1>5, <1>6 DEF CrankNext

LEMMA DisputeNextAdvances ==
    ASSUME Custodial, NEW b \in Bookings, DisputeNext(b)
    PROVE  Advance
<1>1. ASSUME NEW initiator \in Disputants, OpenDispute(b, initiator)
      PROVE  Advance
    BY <1>1, OpenDisputeSettles DEF Advance, Statuses, DisputeStates
<1>2. ASSUME NEW c \in Bookings, NEW initiator \in Users,
             SolveDisputeBeforeAdmin(b, c, initiator)
      PROVE  Advance
    <2>1. originalStatus[b] \in Statuses
        BY OriginalStatusType DEF Custodial, TypeOK
    <2>2. QED
        BY <1>2, <2>1, SolveDisputeSettles DEF Advance, DisputeStates
<1>3. ASSUME NEW a \in Admins, NEW outcome \in Outcomes, ResolveDispute(a, b, outcome)
      PROVE  Advance
    <2>1. status[b] \in Statuses
        BY DEF Custodial, TypeOK, EscrowTypeOK
    <2>2. QED
        BY <1>3, <2>1, ResolveDisputeSettles DEF Advance, Statuses, DisputeStates
<1>4. QED
    BY <1>1, <1>2, <1>3 DEF DisputeNext

LEMMA NextAdvances ==
    ASSUME Custodial, [Next]_vars
    PROVE  Advance
<1>1. CASE Tick
    BY <1>1 DEF Tick, termVars, disputeVars, accountVars, Advance
<1>2. ASSUME NEW b \in Bookings, CrankNext(b)
      PROVE  Advance
    BY <1>2, CrankNextAdvances
<1>3. CASE PartyNext
    <2>1. CASE CoreNext \/ GuaranteeNext \/ AdminNext
        BY <2>1 DEF CoreNext, GuaranteeNext, AdminNext, AddAdmin, DeleteAdmin, escrowVars,
                    termVars, disputeVars, accountVars, Advance
    <2>2. ASSUME NEW b \in Bookings, BookingNext(b) \/ DisputeNext(b)
          PROVE  Advance
        BY <2>2, BookingNextAdvances, DisputeNextAdvances
    <2>3. QED
        BY <1>3, <2>1, <2>2 DEF PartyNext
<1>4. CASE UNCHANGED vars
    BY <1>4 DEF vars, escrowVars, termVars, disputeVars, accountVars, Advance
<1>5. QED
    BY <1>1, <1>2, <1>3, <1>4 DEF Next

-----------------------------------------------------------------------------
(* Custodial is inductive. *)

LEMMA InitCustodial == Init => Custodial
<1> SUFFICES ASSUME Init PROVE Custodial
    OBVIOUS
<1>1. TypeOK
    BY InitTypeOK
<1>2. DisputeCoupled
    BY DEF Init, EscrowInit, DisputesInit, DisputeCoupled, Fits, Coupled
<1>3. EscrowBacked
    BY DEF Init, EscrowInit, EscrowBacked, InEscrow, Held
<1>4. QED
    BY <1>1, <1>2, <1>3 DEF Custodial

LEMMA SettlesCoupled ==
    ASSUME TypeOK, DisputeCoupled, NEW b \in Bookings, NEW t, NEW e, Settles(b, t, e)
    PROVE  DisputeCoupled'
<1>1. UNCHANGED <<strayed, abandoned>>
    BY DEF Settles, Takes, historyVars
<1> SUFFICES ASSUME NEW c \in Bookings
             PROVE  Fits(c)'
    BY DEF DisputeCoupled
<1>2. Fits(c)
    BY DEF DisputeCoupled
<1>3. CASE c = b
    <2>1. /\ status'[c] = t /\ disputeState'[c] = e
          /\ Decides(status[c], disputeState[c], t, e)
        BY <1>3 DEF TypeOK, EscrowTypeOK, DisputesTypeOK, Settles, Takes
    <2>2. CASE c \in strayed
        BY <1>1, <1>2, <2>1, <2>2 DEF Fits, Restored, Started, Decides, Disputable
    <2>3. CASE c \in abandoned \ strayed
        BY <1>1, <1>2, <2>1, <2>3 DEF Fits, Stranded, Decides, Disputable
    <2>4. CASE c \notin strayed \cup abandoned
        BY <1>1, <1>2, <2>1, <2>4 DEF Fits, Coupled, Decides, Disputable
    <2>5. QED
        BY <2>2, <2>3, <2>4
<1>4. CASE c # b
    BY <1>1, <1>2, <1>4 DEF TypeOK, EscrowTypeOK, DisputesTypeOK, Settles, Takes, Fits
<1>5. QED
    BY <1>3, <1>4

(* A crossed withdrawal: the dispute's booking stays frozen, the one named
   with it strays, and all others keep what they had. *)
LEMMA CrossesCoupled ==
    ASSUME TypeOK, DisputeCoupled, NEW d \in Bookings, NEW b \in Bookings, Crosses(d, b)
    PROVE  DisputeCoupled'
<1> SUFFICES ASSUME NEW c \in Bookings
             PROVE  Fits(c)'
    BY DEF DisputeCoupled
<1>1. Fits(c) /\ Fits(d)
    BY DEF DisputeCoupled
<1>2. originalStatus[d] \in Disputable
    BY DEF TypeOK, DisputesTypeOK
<1>3. /\ status'[c] = IF c = b THEN originalStatus[d] ELSE status[c]
      /\ disputeState'[c] = IF c = d THEN "ResolvedByP2P" ELSE disputeState[c]
    BY DEF TypeOK, EscrowTypeOK, DisputesTypeOK, Crosses
<1>4. CASE c = b
    <2>1. c \in strayed' /\ status'[c] \in Disputable
        BY <1>2, <1>3, <1>4 DEF Crosses
    <2>2. QED
        BY <2>1 DEF Fits, Restored, Started, Disputable
<1>5. CASE c # b /\ c = d
    <2>1. /\ c \in strayed' <=> c \in strayed
          /\ c \in abandoned'
          /\ disputeState[c] = "OpenP2P"
        BY <1>5 DEF Crosses
    <2>2. QED
        BY <1>1, <1>3, <1>5, <2>1 DEF Fits, Restored, Stranded, Coupled
<1>6. CASE c # b /\ c # d
    <2>1. /\ c \in strayed' <=> c \in strayed
          /\ c \in abandoned' <=> c \in abandoned
        BY <1>6 DEF Crosses
    <2>2. QED
        BY <1>1, <1>3, <1>6, <2>1 DEF Fits
<1>7. QED
    BY <1>4, <1>5, <1>6

LEMMA CrossesBacked ==
    ASSUME TypeOK, EscrowBacked, NEW d \in Bookings, NEW b \in Bookings, Crosses(d, b)
    PROVE  EscrowBacked'
<1> SUFFICES ASSUME NEW c \in Bookings
             PROVE  escrow'[c] = InEscrow(c)' \/ (c \in strayed' /\ escrow'[c] = 0)
    BY DEF EscrowBacked
<1>1. escrow[c] = InEscrow(c) \/ (c \in strayed /\ escrow[c] = 0)
    BY DEF EscrowBacked
<1>2. /\ UNCHANGED <<total, escrow>>
      /\ strayed' = strayed \cup {b}
      /\ status'[c] = IF c = b THEN originalStatus[d] ELSE status[c]
      /\ originalStatus[d] \in Disputable
    BY DEF TypeOK, EscrowTypeOK, DisputesTypeOK, Crosses
<1>3. CASE c # b
    BY <1>1, <1>2, <1>3 DEF InEscrow
<1>4. CASE c = b
    BY <1>1, <1>2, <1>4 DEF InEscrow, Disputable, Held
<1>5. QED
    BY <1>3, <1>4

LEMMA NextCustodial == Custodial /\ [Next]_vars => Custodial'
<1> SUFFICES ASSUME Custodial, [Next]_vars PROVE Custodial'
    OBVIOUS
<1>1. TypeOK'
    BY NextTypeOK DEF Custodial
<1>2. CASE UNCHANGED <<status, total, escrow, disputeState, historyVars>>
    BY <1>1, <1>2 DEF Custodial, DisputeCoupled, Fits, EscrowBacked, InEscrow, historyVars
<1>3. ASSUME NEW b \in Bookings, NEW t \in Statuses,
             Takes(b, t), Moves(status[b], t), UNCHANGED disputeState
      PROVE  Custodial'
    BY <1>1, <1>3, TakesBacked, MovesCoupled DEF Custodial
<1>4. ASSUME NEW b \in Bookings, NEW t \in Statuses, NEW e \in DisputeStates, Settles(b, t, e)
      PROVE  Custodial'
    BY <1>1, <1>4, TakesBacked, SettlesCoupled DEF Custodial, Settles
<1>5. ASSUME NEW d \in Bookings, NEW b \in Bookings, Crosses(d, b)
      PROVE  Custodial'
    BY <1>1, <1>5, CrossesBacked, CrossesCoupled DEF Custodial
<1>6. QED
    BY <1>2, <1>3, <1>4, <1>5, NextAdvances DEF Advance

LEMMA AlwaysCustodial == Spec => []Custodial
<1>1. Custodial /\ [Next]_vars => Custodial'
    BY NextCustodial
<1>2. QED
    BY InitCustodial, <1>1, PTL DEF Spec

-----------------------------------------------------------------------------
(* The two programs always agree on a dispute (DisputeCoupled): an undecided
   dispute has a frozen booking, and a frozen booking a dispute that can thaw
   or settle it; but for the two bookings of a withdrawal that confused them,
   of which the one is restored and the other stranded. *)
THEOREM DisputesAlwaysCoupled == Spec => []DisputeCoupled
<1>1. Spec => []Custodial
    BY AlwaysCustodial
<1>2. Custodial => DisputeCoupled
    BY DEF Custodial
<1>3. QED
    BY <1>1, <1>2, PTL

(* The escrow of every booking holds the price of the stay as long as the
   booking is undecided, and nothing once it is settled; one restored with
   another one's dispute holds the whole price or nothing (EscrowBacked). *)
THEOREM EscrowAlwaysBacked == Spec => []EscrowBacked
<1>1. Spec => []Custodial
    BY AlwaysCustodial
<1>2. Custodial => EscrowBacked
    BY DEF Custodial
<1>3. QED
    BY <1>1, <1>2, PTL

LEMMA CustodialExact == Custodial => PayoutsExact
<1> SUFFICES ASSUME Custodial, NEW b \in Regular
             PROVE  /\ status[b] \in {"Pending", "HostAccepted"} =>
                          LET split == GuestCancellationSplit(b)
                          IN  split.guest + split.host + split.stayke = escrow[b]
                    /\ status[b] = "Completed" =>
                          LET split == ReleaseSplit(total[b])
                          IN  split.host + split.stayke = escrow[b]
                    /\ status[b] = "Disputed" =>
                          \A severity \in Severities, guilty \in Parties :
                              LET split == DisputeSplit(total[b], SlashRates(severity, guilty).escrow)
                              IN  split.victim + split.guilty + split.stayke = escrow[b]
    BY DEF PayoutsExact
<1>1. TypeOK /\ b \in Bookings /\ total[b] \in Nat
    BY DEF Custodial, TypeOK, EscrowTypeOK, Regular
<1>2. status[b] \in Held => escrow[b] = total[b]
    BY DEF Custodial, EscrowBacked, InEscrow, Regular
<1>3. ASSUME status[b] \in {"Pending", "HostAccepted"}
      PROVE  LET split == GuestCancellationSplit(b)
             IN  split.guest + split.host + split.stayke = escrow[b]
    BY <1>1, <1>2, <1>3, GuestCancellationSplitExact DEF Held
<1>4. ASSUME status[b] = "Completed"
      PROVE  LET split == ReleaseSplit(total[b])
             IN  split.host + split.stayke = escrow[b]
    <2>1. PICK amount \in Nat : amount = total[b]
        BY <1>1
    <2>2. ReleaseSplit(amount).host + ReleaseSplit(amount).stayke = amount
        BY ReleaseSplitExact
    <2>3. QED
        BY <1>2, <1>4, <2>1, <2>2 DEF Held
<1>5. ASSUME status[b] = "Disputed", NEW severity \in Severities, NEW guilty \in Parties
      PROVE  LET split == DisputeSplit(total[b], SlashRates(severity, guilty).escrow)
             IN  split.victim + split.guilty + split.stayke = escrow[b]
    <2>1. PICK amount \in Nat, bps \in Nat :
              amount = total[b] /\ bps = SlashRates(severity, guilty).escrow /\ bps <= 10000
        BY <1>1, SlashRatesBounds
    <2>2. amount \in Nat /\ bps \in Nat /\ bps <= 10000
        BY <2>1
    <2>3. DisputeSplit(amount, bps).victim + DisputeSplit(amount, bps).guilty
              + DisputeSplit(amount, bps).stayke = amount
        BY <2>2, DisputeSplitExact
    <2>4. QED
        BY <1>2, <1>5, <2>1, <2>3 DEF Held
<1>6. QED
    BY <1>3, <1>4, <1>5

(* No payout can be refused by the token program (PayoutsExact): whatever the
   price, the fee and the verdict, the parts of every split add up to what
   the escrow holds, unless the booking was restored with another one's
   dispute. *)
THEOREM PayoutsAlwaysExact == Spec => []PayoutsExact
<1>1. Spec => []Custodial
    BY AlwaysCustodial
<1>2. QED
    BY <1>1, CustodialExact, PTL

-----------------------------------------------------------------------------
(* What a move does to the money of its booking. *)
LEMMA EscrowMoves ==
    ASSUME Custodial, NEW b \in Bookings, NEW t, Takes(b, t)
    PROVE  /\ status[b] \in Held /\ t \in Held => UNCHANGED escrow
           /\ t \notin Held => escrow' = [escrow EXCEPT ![b] = 0]
           /\ escrow' = [escrow EXCEPT ![b] = escrow'[b]]
           /\ \A c \in Bookings \ {b} : status'[c] = status[c] /\ escrow'[c] = escrow[c]
           /\ status'[b] = t
<1>1. /\ status \in [Bookings -> Statuses]
      /\ escrow \in [Bookings -> Nat]
    BY DEF Custodial, TypeOK, EscrowTypeOK
<1>2. QED
    BY <1>1 DEF Takes

-----------------------------------------------------------------------------
(* Every step of the system is a step of BookingCustody, or a stutter. *)

Phase == [c \in Bookings |-> IF c \in strayed THEN "astray" ELSE PhaseOf(status[c])]

Kept == [c \in Bookings |-> IF c \in strayed THEN 0 ELSE escrow[c]]

CustodyStep == [Custody!Next]_<<Phase, Kept>>

(* A booking that has strayed counts no more. *)
LEMMA StrayedStays ==
    ASSUME Custodial, NEW b \in strayed, NEW t, Takes(b, t)
    PROVE  CustodyStep
<1>1. \A c \in Bookings \ {b} : status'[c] = status[c] /\ escrow'[c] = escrow[c]
    BY DEF Takes, Custodial, TypeOK, EscrowTypeOK
<1>2. strayed' = strayed
    BY DEF Takes, historyVars
<1>3. Phase' = Phase /\ Kept' = Kept
    BY <1>1, <1>2 DEF Phase, Kept
<1>4. QED
    BY <1>3 DEF CustodyStep

LEMMA PhaseMoves ==
    ASSUME Custodial, NEW b \in Regular, NEW t, Takes(b, t)
    PROVE  /\ b \in Bookings
           /\ Phase' = [Phase EXCEPT ![b] = PhaseOf(t)]
           /\ Phase[b] = PhaseOf(status[b])
           /\ Kept[b] = escrow[b]
           /\ escrow' = escrow => Kept' = Kept
           /\ t \notin Held => Kept' = [Kept EXCEPT ![b] = 0]
           /\ Kept' = [Kept EXCEPT ![b] = escrow'[b]]
<1>1. b \in Bookings /\ b \notin strayed
    BY DEF Regular
<1>2. /\ \A c \in Bookings \ {b} : status'[c] = status[c] /\ escrow'[c] = escrow[c]
      /\ status'[b] = t
      /\ t \notin Held => escrow'[b] = 0
    BY <1>1, EscrowMoves DEF Takes, Custodial, TypeOK, EscrowTypeOK
<1>3. strayed' = strayed
    BY DEF Takes, historyVars
<1>4. \A c \in Bookings :
          /\ Phase'[c] = IF c = b THEN PhaseOf(t) ELSE Phase[c]
          /\ Kept'[c] = IF c = b THEN escrow'[b] ELSE Kept[c]
    BY <1>1, <1>2, <1>3 DEF Phase, Kept
<1>5. Phase' = [Phase EXCEPT ![b] = PhaseOf(t)] /\ Phase[b] = PhaseOf(status[b])
    BY <1>1, <1>4 DEF Phase
<1>6. Kept' = [Kept EXCEPT ![b] = escrow'[b]] /\ Kept[b] = escrow[b]
    BY <1>1, <1>4 DEF Kept
<1>7. escrow' = escrow => Kept' = Kept
    BY <1>3 DEF Kept
<1>8. QED
    BY <1>1, <1>2, <1>5, <1>6, <1>7

(* The phases of a booking that pays nothing, and their moves. *)
LEMMA Stays ==
    ASSUME Custodial, NEW b \in Regular, NEW t, Takes(b, t),
           PhaseOf(status[b]) = PhaseOf(t), escrow' = escrow
    PROVE  CustodyStep
<1>1. Phase' = [Phase EXCEPT ![b] = PhaseOf(t)] /\ Phase[b] = PhaseOf(t) /\ Kept' = Kept
    BY PhaseMoves
<1>2. Phase' = Phase
    BY <1>1 DEF Phase
<1>3. QED
    BY <1>1, <1>2 DEF CustodyStep

LEMMA MovesCustody ==
    ASSUME Custodial, TypeOK', NEW b \in Regular, NEW t, Takes(b, t), Moves(status[b], t)
    PROVE  CustodyStep
<1>1. /\ b \in Bookings /\ b \notin strayed
      /\ Phase' = [Phase EXCEPT ![b] = PhaseOf(t)]
      /\ Phase[b] = PhaseOf(status[b])
      /\ escrow' = escrow => Kept' = Kept
      /\ t \notin Held => Kept' = [Kept EXCEPT ![b] = 0]
      /\ Kept' = [Kept EXCEPT ![b] = escrow'[b]]
    BY PhaseMoves DEF Regular
<1>2. CASE status[b] = "None" /\ t = "Pending"
    <2>1. escrow'[b] \in Nat
        BY <1>1 DEF TypeOK, EscrowTypeOK
    <2>2. Kept'[b] = escrow'[b]
        BY <1>1 DEF Kept
    <2>3. Custody!Fund(b)
        BY <1>1, <1>2, <2>1, <2>2 DEF Custody!Fund, Custody!Move, PhaseOf, Phase, Kept
    <2>4. QED
        BY <1>1, <2>3 DEF CustodyStep, Custody!Next, Phase, Kept
<1>3. CASE t \notin Held /\ t # status[b]
    <2>1. Custody!Return(b) \/ Custody!Cancel(b) \/ Custody!Release(b)
        BY <1>1, <1>3
           DEF Moves, Held, PhaseOf, Phase, Kept, Custody!Return, Custody!Cancel, Custody!Release,
               Custody!Move, Custody!PayAll
    <2>2. QED
        BY <1>1, <2>1 DEF CustodyStep, Custody!Next, Phase, Kept
<1>4. CASE status[b] \in Held /\ t \in Held
    <2>1. escrow' = escrow
        BY <1>1, <1>4, EscrowMoves
    <2>2. CASE status[b] = "HostAccepted" /\ t = "Active"
        <3>1. Custody!Begin(b)
            BY <1>1, <2>1, <2>2 DEF PhaseOf, Phase, Kept, Custody!Begin, Custody!Move
        <3>2. QED
            BY <1>1, <3>1 DEF CustodyStep, Custody!Next, Phase, Kept
    <2>3. CASE ~(status[b] = "HostAccepted" /\ t = "Active")
        <3>1. PhaseOf(status[b]) = PhaseOf(t)
            BY <1>4, <2>3 DEF Moves, Held, PhaseOf
        <3>2. QED
            BY <2>1, <3>1, Stays
    <2>4. QED
        BY <2>2, <2>3
<1>5. CASE t \notin Held /\ t = status[b]
    <2>1. escrow'[b] = escrow[b]
        BY <1>1, <1>5, EscrowMoves DEF Custodial, TypeOK, EscrowTypeOK, EscrowBacked, InEscrow
    <2>2. escrow' = escrow
        BY <1>1, <2>1, EscrowMoves DEF Custodial, TypeOK, EscrowTypeOK
    <2>3. QED
        BY <1>5, <2>2, Stays
<1>6. QED
    BY <1>2, <1>3, <1>4, <1>5 DEF Moves, Held

LEMMA SettlesCustody ==
    ASSUME Custodial, NEW b \in Regular, NEW t, NEW e, Settles(b, t, e)
    PROVE  CustodyStep
<1>1. /\ Takes(b, t) /\ Decides(status[b], disputeState[b], t, e)
      /\ b \in Bookings /\ b \notin strayed
    BY DEF Settles, Regular
<1>2. /\ Phase' = [Phase EXCEPT ![b] = PhaseOf(t)]
      /\ Phase[b] = PhaseOf(status[b])
      /\ escrow' = escrow => Kept' = Kept
      /\ t \notin Held => Kept' = [Kept EXCEPT ![b] = 0]
    BY <1>1, PhaseMoves
<1>3. CASE status[b] \in Disputable /\ t = "Disputed"
    <2>1. escrow' = escrow
        BY <1>1, <1>3, EscrowMoves DEF Disputable, Held
    <2>2. Custody!Freeze(b)
        BY <1>1, <1>2, <1>3, <2>1 DEF Disputable, PhaseOf, Phase, Kept, Custody!Freeze, Custody!Move
    <2>3. QED
        BY <1>1, <2>2 DEF CustodyStep, Custody!Next, Phase, Kept
<1>4. CASE status[b] = "Disputed" /\ t \in Disputable
    <2>1. escrow' = escrow
        BY <1>1, <1>4, EscrowMoves DEF Disputable, Held
    <2>2. Custody!Thaw(b)
        BY <1>1, <1>2, <1>4, <2>1 DEF Disputable, PhaseOf, Phase, Kept, Custody!Thaw, Custody!Move
    <2>3. QED
        BY <1>1, <2>2 DEF CustodyStep, Custody!Next, Phase, Kept
<1>5. CASE status[b] = "Disputed" /\ t = "DisputeResolved"
    <2>1. Custody!Decide(b)
        BY <1>1, <1>2, <1>5
           DEF Held, PhaseOf, Phase, Kept, Custody!Decide, Custody!Move, Custody!PayAll
    <2>2. QED
        BY <1>1, <2>1 DEF CustodyStep, Custody!Next, Phase, Kept
<1>6. CASE t = status[b]
    <2>1. escrow'[b] = escrow[b]
        BY <1>1, <1>6, EscrowMoves DEF Custodial, TypeOK, EscrowTypeOK, EscrowBacked, InEscrow
    <2>2. escrow' = escrow
        BY <1>1, <2>1, EscrowMoves DEF Custodial, TypeOK, EscrowTypeOK
    <2>3. QED
        BY <1>1, <1>6, <2>2, Stays
<1>7. QED
    BY <1>1, <1>3, <1>4, <1>5, <1>6 DEF Decides

(* The booking named by a crossed withdrawal goes astray; the dispute's own
   booking is frozen at that time, unless it has gone astray before. *)
LEMMA CrossesCustody ==
    ASSUME Custodial, NEW d \in Bookings, NEW b \in Bookings, Crosses(d, b)
    PROVE  CustodyStep
<1>1. /\ strayed' = strayed \cup {b}
      /\ escrow' = escrow
      /\ \A c \in Bookings \ {b} : status'[c] = status[c]
      /\ disputeState[d] = "OpenP2P"
      /\ b # d \/ b \in strayed
      /\ status[b] # "None"
    BY DEF Crosses, Custodial, TypeOK, EscrowTypeOK
<1>2. CASE b \in strayed
    <2>1. Phase' = Phase /\ Kept' = Kept
        BY <1>1, <1>2 DEF Phase, Kept
    <2>2. QED
        BY <2>1 DEF CustodyStep
<1>3. CASE b \notin strayed
    <2>1. Phase' = [Phase EXCEPT ![b] = "astray"] /\ Kept' = [Kept EXCEPT ![b] = 0]
        BY <1>1 DEF Phase, Kept
    <2>2. d \in strayed \/ status[d] = "Disputed"
        BY <1>1 DEF Custodial, DisputeCoupled, Fits, Coupled, Stranded
    <2>3. Phase[d] \in {"frozen", "astray"}
        BY <2>2 DEF Phase, PhaseOf
    <2>4. Phase[b] \notin {"none", "astray"}
        BY <1>1, <1>3 DEF Phase, PhaseOf
    <2>5. Custody!Stray(b, d)
        BY <1>1, <1>3, <2>1, <2>3, <2>4 DEF Phase, Kept, Custody!Stray, Custody!PayAll
    <2>6. QED
        BY <2>5 DEF CustodyStep, Custody!Next, Phase, Kept
<1>4. QED
    BY <1>2, <1>3

LEMMA NextCustody == Custodial /\ [Next]_vars => CustodyStep
<1> SUFFICES ASSUME Custodial, [Next]_vars PROVE CustodyStep
    OBVIOUS
<1>1. TypeOK'
    BY NextTypeOK DEF Custodial
<1>2. CASE UNCHANGED <<status, total, escrow, disputeState, historyVars>>
    BY <1>2 DEF CustodyStep, Phase, Kept, historyVars
<1>3. ASSUME NEW b \in Bookings, NEW t \in Statuses,
             Takes(b, t), Moves(status[b], t), UNCHANGED disputeState
      PROVE  CustodyStep
    BY <1>1, <1>3, StrayedStays, MovesCustody DEF Regular
<1>4. ASSUME NEW b \in Bookings, NEW t \in Statuses, NEW e \in DisputeStates, Settles(b, t, e)
      PROVE  CustodyStep
    BY <1>4, StrayedStays, SettlesCustody DEF Regular, Settles
<1>5. ASSUME NEW d \in Bookings, NEW b \in Bookings, Crosses(d, b)
      PROVE  CustodyStep
    BY <1>5, CrossesCustody
<1>6. QED
    BY <1>2, <1>3, <1>4, <1>5, NextAdvances DEF Advance

(* For the money in escrow, every behaviour of the five programs is one of
   BookingCustody: each booking is paid for once, held whole, returned,
   settled or decided once, and no transaction touches another booking's
   money.  A booking goes astray only when a frozen one's dispute is
   withdrawn with it (CustodySpec). *)
THEOREM ImplementsCustody == Spec => CustodySpec
<1>1. Init => Custody!Init
    BY DEF Init, EscrowInit, DisputesInit, Custody!Init, PhaseOf
<1>2. Custodial /\ [Next]_vars
          => [Custody!Next]_<<[b \in Bookings |->
                                  IF b \in strayed THEN "astray" ELSE PhaseOf(status[b])],
                              [b \in Bookings |-> IF b \in strayed THEN 0 ELSE escrow[b]]>>
    BY NextCustody DEF CustodyStep, Phase, Kept
<1>3. Spec => []Custodial
    BY AlwaysCustodial
<1>4. QED
    BY <1>1, <1>2, <1>3, PTL DEF Spec, CustodySpec, Custody!Spec

-----------------------------------------------------------------------------
(* The money of a frozen booking. *)

LEMMA NextFrozen ==
    ASSUME Custodial, [Next]_vars, NEW b \in Bookings,
           disputeState[b] # "None", status[b] = "Disputed", escrow'[b] # escrow[b]
    PROVE  disputeState[b] = "Escalated" /\ disputeState'[b] = "ResolvedByAdmin"
<1>1. ASSUME NEW c \in Bookings, NEW t \in Statuses,
             Takes(c, t), Moves(status[c], t), UNCHANGED disputeState
      PROVE  FALSE
    BY <1>1, EscrowMoves DEF Moves, Held
<1>2. ASSUME NEW c \in Bookings, NEW t \in Statuses, NEW e \in DisputeStates, Settles(c, t, e)
      PROVE  disputeState[b] = "Escalated" /\ disputeState'[b] = "ResolvedByAdmin"
    <2>1. Takes(c, t) /\ Decides(status[c], disputeState[c], t, e)
        BY <1>2 DEF Settles
    <2>2. c = b /\ t \notin Held
        BY <2>1, EscrowMoves DEF Held
    <2>3. disputeState'[b] = e
        BY <1>2, <2>2 DEF Settles, Custodial, TypeOK, DisputesTypeOK
    <2>4. QED
        BY <2>1, <2>2, <2>3 DEF Decides, Disputable, Held
<1>3. ASSUME NEW d \in Bookings, NEW c \in Bookings, Crosses(d, c)
      PROVE  FALSE
    BY <1>3 DEF Crosses
<1>4. QED
    BY <1>1, <1>2, <1>3, NextAdvances DEF Advance

(* While a dispute is undecided nobody moves the money of its booking; what
   moves it is an admin's verdict on an escalated dispute, also when
   disputes are withdrawn with other bookings (FrozenWhileDisputed). *)
THEOREM FrozenMoneyRests == Spec => FrozenWhileDisputed
<1>1. Custodial /\ [Next]_vars =>
          [\A b \in Bookings :
              disputeState[b] # "None" /\ status[b] = "Disputed" /\ escrow'[b] # escrow[b]
                  => disputeState[b] = "Escalated" /\ disputeState'[b] = "ResolvedByAdmin"]_vars
    BY NextFrozen
<1>2. Spec => []Custodial
    BY AlwaysCustodial
<1>3. QED
    BY <1>1, <1>2, PTL DEF Spec, FrozenWhileDisputed

-----------------------------------------------------------------------------
(* A settled booking. *)

LEMMA CheckOutKept ==
    ASSUME TypeOK, [Next]_vars, NEW b \in Bookings, status[b] \notin {"None", "Pending"}
    PROVE  checkOut'[b] = checkOut[b]
<1>1. ASSUME NEW c \in Bookings, NEW out, NEW price, FundBooking(c, out, price)
      PROVE  checkOut'[b] = checkOut[b]
    BY <1>1 DEF FundBooking, CreateBookingAccounts, TypeOK, EscrowTypeOK
<1>2. ASSUME NEW c \in Bookings, status[c] = "Pending", RefundAndClose(c)
      PROVE  checkOut'[b] = checkOut[b]
    BY <1>2 DEF RefundAndClose, CloseBooking, TypeOK, EscrowTypeOK
<1>3. ASSUME NEW c \in Bookings, BookingNext(c)
      PROVE  checkOut'[b] = checkOut[b]
    BY <1>1, <1>2, <1>3
       DEF BookingNext, CreateBooking, CreateBookingCrossYear, HostAcceptBooking,
           HostRejectBooking, HostRejectBookingCrossYear, HostRejectBookingAccounts,
           GuestCancelBooking, GuestCancelBookingCrossYear, HostCancelBooking,
           HostCancelBookingCrossYear, GuestCancel, HostCancel, BookingStarts, GuestReviews,
           HostReviews, termVars
<1>4. ASSUME NEW c \in Bookings, CrankNext(c)
      PROVE  checkOut'[b] = checkOut[b]
    BY <1>2, <1>4
       DEF CrankNext, Expire, ExpireBooking, ExpireBookingCrossYear, ExpireBookingAccounts,
           Complete, BookingCompletes, PayOut, ReleaseFunds, EscalateDispute, CloseDispute,
           escrowVars, termVars
<1>5. ASSUME NEW c \in Bookings, DisputeNext(c)
      PROVE  checkOut'[b] = checkOut[b]
    BY <1>5
       DEF DisputeNext, OpenDispute, SolveDisputeBeforeAdmin, ResolveDispute, ExecuteJudgement,
           escrowVars, termVars
<1>6. CASE Tick \/ CoreNext \/ GuaranteeNext \/ AdminNext \/ UNCHANGED vars
    BY <1>6
       DEF Tick, CoreNext, GuaranteeNext, AdminNext, AddAdmin, DeleteAdmin, vars, escrowVars,
           termVars
<1>7. QED
    BY <1>3, <1>4, <1>5, <1>6 DEF Next, PartyNext

LEMMA NextSettled ==
    ASSUME Custodial, [Next]_vars, NEW b \in Regular,
           status[b] \in {"Released", "Cancelled", "DisputeResolved"}
    PROVE  /\ status'[b] = status[b] \/ b \in strayed'
           /\ escrow'[b] = 0
           /\ checkOut'[b] = checkOut[b]
<1>1. b \in Bookings /\ escrow[b] = 0
    BY DEF Custodial, EscrowBacked, InEscrow, Held, Regular
<1>2. checkOut'[b] = checkOut[b]
    BY <1>1, CheckOutKept DEF Custodial
<1>3. ASSUME NEW c \in Bookings, NEW t \in Statuses,
             Takes(c, t), Moves(status[c], t), UNCHANGED disputeState
      PROVE  status'[b] = status[b] /\ escrow'[b] = 0
    BY <1>1, <1>3, EscrowMoves DEF Moves, Held, Custodial, TypeOK, EscrowTypeOK
<1>4. ASSUME NEW c \in Bookings, NEW t \in Statuses, NEW e \in DisputeStates, Settles(c, t, e)
      PROVE  status'[b] = status[b] /\ escrow'[b] = 0
    BY <1>1, <1>4, EscrowMoves
       DEF Settles, Decides, Disputable, Held, Custodial, TypeOK, EscrowTypeOK
<1>5. ASSUME NEW d \in Bookings, NEW c \in Bookings, Crosses(d, c)
      PROVE  (status'[b] = status[b] \/ b \in strayed') /\ escrow'[b] = 0
    BY <1>1, <1>5 DEF Crosses, Custodial, TypeOK, EscrowTypeOK
<1>6. QED
    BY <1>1, <1>2, <1>3, <1>4, <1>5, NextAdvances DEF Advance

(* A released, cancelled or decided booking keeps its status and its dates
   and never holds money again.  Only one transaction can revive it, the
   withdrawal of another booking's dispute, and it comes back without money
   (SettledForever). *)
THEOREM SettledStaysSettled == Spec => SettledForever
<1>1. Custodial /\ [Next]_vars =>
          [\A b \in Regular :
              status[b] \in {"Released", "Cancelled", "DisputeResolved"} =>
                  /\ status'[b] = status[b] \/ b \in strayed'
                  /\ escrow'[b] = 0
                  /\ checkOut'[b] = checkOut[b]]_vars
    BY NextSettled
<1>2. Spec => []Custodial
    BY AlwaysCustodial
<1>3. QED
    BY <1>1, <1>2, PTL DEF Spec, SettledForever
=============================================================================
