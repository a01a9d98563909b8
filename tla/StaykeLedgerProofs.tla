------------------------- MODULE StaykeLedgerProofs -------------------------
(***************************************************************************)
(* Who stays where and when: identities, the days of a listing, when a     *)
(* stay may be called off and paid out, which stay the slot of a guest     *)
(* names meanwhile, and that a stay is counted once.  Then the sums: the   *)
(* vault is what the profiles record, and what profiles and listings total *)
(* is what the bookings record.                                            *)
(*                                                                         *)
(* A booking that strays, restored with another one's dispute, is set      *)
(* aside where the properties do so, and nothing else is.                  *)
(***************************************************************************)
EXTENDS StaykeEscrowProofs, FiniteSums

-----------------------------------------------------------------------------
(* Identities: only the verification authority changes them. *)

LEMMA InitIdentity == Init => IdentityExclusive
BY CoreAssumption DEF Init, CoreInit, IdentityExclusive

LEMMA LinkIdentityExclusive ==
    ASSUME CoreTypeOK, IdentityExclusive, NEW u \in Users, NEW i \in Identities, LinkIdentity(u, i)
    PROVE  IdentityExclusive'
<1>1. /\ identity[u] = NoIdentity
      /\ i \notin linked
      /\ identity' = [identity EXCEPT ![u] = i]
      /\ linked' = linked \cup {i}
      /\ i # NoIdentity
    BY CoreAssumption DEF LinkIdentity, LinkIdentityAccounts
<1>2. \A v \in Users : identity'[v] = IF v = u THEN i ELSE identity[v]
    BY <1>1 DEF CoreTypeOK
<1>3. {identity'[v] : v \in Users} \ {NoIdentity}
          = ({identity[v] : v \in Users} \ {NoIdentity}) \cup {i}
    BY <1>1, <1>2
<1>4. ASSUME NEW v \in Users, NEW w \in Users, identity'[v] = identity'[w]
      PROVE  v = w \/ identity'[v] = NoIdentity
    BY <1>1, <1>2, <1>4 DEF IdentityExclusive
<1>5. QED
    BY <1>1, <1>3, <1>4 DEF IdentityExclusive

LEMMA IdentityKept ==
    ASSUME [Next]_vars, ~CoreNext
    PROVE  UNCHANGED identityVars
<1>1. ASSUME NEW b \in Bookings, BookingNext(b)
      PROVE  UNCHANGED identityVars
    BY <1>1
       DEF BookingNext, CreateBooking, CreateBookingCrossYear, FundBooking, HostAcceptBooking,
           HostRejectBooking, HostRejectBookingCrossYear, RefundAndClose,
           GuestCancelBooking, GuestCancelBookingCrossYear, HostCancelBooking,
           HostCancelBookingCrossYear, GuestCancel, HostCancel, BookingStarts, GuestReviews,
           HostReviews, coreVars
<1>2. ASSUME NEW b \in Bookings, CrankNext(b)
      PROVE  UNCHANGED identityVars
    BY <1>2
       DEF CrankNext, Expire, ExpireBooking, ExpireBookingCrossYear, RefundAndClose, Complete,
           BookingCompletes, PayOut, ReleaseFunds, EscalateDispute, CloseDispute, coreVars
<1>3. ASSUME NEW b \in Bookings, DisputeNext(b)
      PROVE  UNCHANGED identityVars
    BY <1>3
       DEF DisputeNext, OpenDispute, SolveDisputeBeforeAdmin, ResolveDispute, ExecuteJudgement,
           coreVars
<1>4. CASE Tick \/ GuaranteeNext \/ AdminNext \/ UNCHANGED vars
    BY <1>4
       DEF Tick, GuaranteeNext, TreasuryNext, DepositGuarantee, WithdrawGuarantee, AdminNext,
           AddAdmin, DeleteAdmin, vars, coreVars
<1>5. QED
    BY <1>1, <1>2, <1>3, <1>4 DEF Next, PartyNext

(* One person, one profile: an identity is linked to at most one profile, and
   its flag tells (IdentityExclusive). *)
THEOREM IdentityAlwaysExclusive == Spec => []IdentityExclusive
<1>1. TypeOK /\ IdentityExclusive /\ [Next]_vars => IdentityExclusive'
    <2> SUFFICES ASSUME TypeOK, IdentityExclusive, [Next]_vars
                 PROVE  IdentityExclusive'
        OBVIOUS
    <2>1. CASE CoreNext
        BY <2>1, LinkIdentityExclusive DEF CoreNext, TypeOK
    <2>2. CASE ~CoreNext
        BY <2>2, IdentityKept DEF identityVars, IdentityExclusive
    <2>3. QED
        BY <2>1, <2>2
<1>2. QED
    BY InitIdentity, TypeCorrect, <1>1, PTL DEF Spec

-----------------------------------------------------------------------------
(* The days of a listing.  A step takes the days of a new booking, frees
   those of one that is called off, lets a booking stray, or leaves them all
   alone. *)

Occupying(b) == status[b] \in Occupies

KeepsStay(c) ==
    /\ Occupying(c)' <=> Occupying(c)
    /\ Occupying(c) => checkOut'[c] = checkOut[c]
    /\ c \in strayed' <=> c \in strayed

TakesDays(b) ==
    /\ ~Occupying(b) /\ Occupying(b)'
    /\ Reserve(PropertyOf[b], Days(b)')
    /\ \A c \in Bookings \ {b} : KeepsStay(c)

FreesDays(b) ==
    /\ b \notin strayed
    /\ Occupying(b) /\ ~Occupying(b)'
    /\ Release(PropertyOf[b], Days(b))
    /\ \A c \in Bookings \ {b} : KeepsStay(c)

StraysWithDays(b) ==
    /\ UNCHANGED occupied
    /\ Occupying(b)' /\ checkOut'[b] = checkOut[b]
    /\ b \in strayed'
    /\ \A c \in Bookings \ {b} : KeepsStay(c)

LeavesDays ==
    /\ UNCHANGED occupied
    /\ \A c \in Bookings : KeepsStay(c)

Booked(p) == {b \in Bookings : PropertyOf[b] = p /\ Occupying(b)}

(* Those that have not strayed, whose days are surely taken. *)
Sure(p) == {b \in Booked(p) : b \notin strayed}

(* CalendarExact day by day. *)
LEMMA CalendarSpread ==
    CalendarExact <=>
        \A p \in Properties :
            /\ \A b \in Sure(p) : \A d \in Days(b) : d \in occupied[p]
            /\ \A d \in occupied[p] : \E b \in Booked(p) : d \in Days(b)
            /\ \A b, c \in Sure(p) : b # c => \A d : ~(d \in Days(b) /\ d \in Days(c))
<1>1. \A p \in Properties :
          {b \in Bookings : PropertyOf[b] = p /\ status[b] \in Occupies} = Booked(p)
    BY DEF Booked, Occupying
<1>2. \A p \in Properties : Booked(p) \cap Regular = Sure(p)
    BY DEF Sure, Regular, Booked
<1>3. CalendarExact <=>
          \A p \in Properties :
              /\ UNION {Days(b) : b \in Sure(p)} \subseteq occupied[p]
              /\ occupied[p] \subseteq UNION {Days(b) : b \in Booked(p)}
              /\ \A b, c \in Sure(p) : b # c => Days(b) \cap Days(c) = {}
    BY <1>1, <1>2 DEF CalendarExact
<1>4. QED
    BY <1>3

(* What a step leaves of the other stays. *)
LEMMA KeptDays ==
    ASSUME NEW c \in Bookings, KeepsStay(c)
    PROVE  /\ Occupying(c)' <=> Occupying(c)
           /\ Occupying(c) => Days(c)' = Days(c)
           /\ c \in strayed' <=> c \in strayed
BY DEF KeepsStay, Days

(* CalendarExact of the next state, from its three parts. *)
LEMMA CalendarAgain ==
    ASSUME \A p \in Properties :
               /\ \A b \in Sure(p)' : \A d \in Days(b)' : d \in occupied'[p]
               /\ \A d \in occupied'[p] : \E b \in Booked(p)' : d \in Days(b)'
               /\ \A b, c \in Sure(p)' : b # c => \A d : ~(d \in Days(b)' /\ d \in Days(c)')
    PROVE  CalendarExact'
<1>1. \A p \in Properties :
          {b \in Bookings : PropertyOf[b] = p /\ status'[b] \in Occupies} = Booked(p)'
    BY DEF Booked, Occupying
<1>2. \A p \in Properties : Booked(p)' \cap Regular' = Sure(p)'
    BY DEF Sure, Regular, Booked
<1>3. QED
    BY <1>1, <1>2 DEF CalendarExact

LEMMA CalendarTaken ==
    ASSUME TypeOK, CalendarExact, NEW b \in Bookings, TakesDays(b)
    PROVE  CalendarExact'
<1> DEFINE q == PropertyOf[b]
<1>1. q \in Properties /\ occupied \in [Properties -> SUBSET Nat]
    BY PartyIsUser DEF TypeOK, EscrowTypeOK, AvailabilityTypeOK
<1>2. /\ Days(b)' \cap occupied[q] = {}
      /\ occupied' = [occupied EXCEPT ![q] = @ \cup Days(b)']
      /\ ~Occupying(b) /\ Occupying(b)'
    BY DEF TakesDays, Reserve
<1>3. \A c \in Bookings : c # b =>
          /\ Occupying(c)' <=> Occupying(c)
          /\ Occupying(c) => Days(c)' = Days(c)
          /\ c \in strayed' <=> c \in strayed
    BY KeptDays DEF TakesDays
<1>4. ASSUME NEW p \in Properties, NEW c \in Sure(p)', c # b
      PROVE  c \in Sure(p) /\ Days(c)' = Days(c)
    BY <1>3, <1>4 DEF Sure, Booked
<1>5. ASSUME NEW p \in Properties, NEW c \in Sure(p)', NEW d \in Days(c)'
      PROVE  d \in occupied'[p]
    <2>1. CASE c = b
        BY <1>1, <1>2, <1>5, <2>1 DEF Sure, Booked
    <2>2. CASE c # b
        BY <1>1, <1>2, <1>4, <1>5, <2>2, CalendarSpread
    <2>3. QED
        BY <2>1, <2>2
<1>6. ASSUME NEW p \in Properties, NEW d \in occupied'[p]
      PROVE  \E c \in Booked(p)' : d \in Days(c)'
    <2>1. CASE d \in occupied[p]
        <3>1. PICK c \in Booked(p) : d \in Days(c)
            BY <2>1, CalendarSpread
        <3>2. QED
            BY <1>2, <1>3, <3>1 DEF Booked
    <2>2. CASE d \notin occupied[p]
        BY <1>1, <1>2, <1>6, <2>2 DEF Booked
    <2>3. QED
        BY <2>1, <2>2
<1>7. ASSUME NEW p \in Properties, NEW e \in Sure(p)', NEW c \in Sure(p)', e # c, NEW d,
             d \in Days(e)', d \in Days(c)'
      PROVE  FALSE
    <2>1. ASSUME NEW x \in Sure(p)', x # b, d \in Days(x)', p = q
          PROVE  d \in occupied[q]
        BY <1>4, <2>1, CalendarSpread
    <2>2. CASE e # b /\ c # b
        BY <1>4, <1>7, <2>2, CalendarSpread
    <2>3. CASE e = b
        BY <1>2, <1>7, <2>1, <2>3 DEF Sure, Booked
    <2>4. CASE c = b
        BY <1>2, <1>7, <2>1, <2>4 DEF Sure, Booked
    <2>5. QED
        BY <2>2, <2>3, <2>4
<1>8. QED
    BY <1>5, <1>6, <1>7, CalendarAgain

LEMMA CalendarFreed ==
    ASSUME TypeOK, CalendarExact, NEW b \in Bookings, FreesDays(b)
    PROVE  CalendarExact'
<1> DEFINE q == PropertyOf[b]
<1>1. q \in Properties /\ occupied \in [Properties -> SUBSET Nat]
    BY PartyIsUser DEF TypeOK, EscrowTypeOK, AvailabilityTypeOK
<1>2. /\ occupied' = [occupied EXCEPT ![q] = @ \ Days(b)]
      /\ Occupying(b) /\ ~Occupying(b)'
      /\ b \in Sure(q)
    BY DEF FreesDays, Release, Sure, Booked
<1>3. \A c \in Bookings : c # b =>
          /\ Occupying(c)' <=> Occupying(c)
          /\ Occupying(c) => Days(c)' = Days(c)
          /\ c \in strayed' <=> c \in strayed
    BY KeptDays DEF FreesDays
<1>4. ASSUME NEW p \in Properties, NEW c \in Sure(p)'
      PROVE  c # b /\ c \in Sure(p) /\ Days(c)' = Days(c)
    BY <1>2, <1>3 DEF Sure, Booked
<1>5. ASSUME NEW p \in Properties, NEW c \in Sure(p)', NEW d \in Days(c)'
      PROVE  d \in occupied'[p]
    <2>1. c # b /\ c \in Sure(p) /\ d \in Days(c)
        BY <1>4, <1>5
    <2>2. d \in occupied[p]
        BY <2>1, CalendarSpread
    <2>3. p = q => d \notin Days(b)
        BY <1>2, <2>1, CalendarSpread
    <2>4. QED
        BY <1>1, <1>2, <2>2, <2>3
<1>6. ASSUME NEW p \in Properties, NEW d \in occupied'[p]
      PROVE  \E c \in Booked(p)' : d \in Days(c)'
    <2>1. d \in occupied[p] /\ (p = q => d \notin Days(b))
        BY <1>1, <1>2, <1>6
    <2>2. PICK c \in Booked(p) : d \in Days(c)
        BY <2>1, CalendarSpread
    <2>3. c # b
        BY <2>1, <2>2 DEF Booked
    <2>4. QED
        BY <1>3, <2>2, <2>3 DEF Booked
<1>7. ASSUME NEW p \in Properties, NEW e \in Sure(p)', NEW c \in Sure(p)', e # c, NEW d,
             d \in Days(e)', d \in Days(c)'
      PROVE  FALSE
    BY <1>4, <1>7, CalendarSpread
<1>8. QED
    BY <1>5, <1>6, <1>7, CalendarAgain

(* A booking that strays may come back without its days; the taken ones are
   still those of bookings, and the others keep theirs. *)
LEMMA CalendarStrayed ==
    ASSUME CalendarExact, NEW b \in Bookings, StraysWithDays(b)
    PROVE  CalendarExact'
<1>1. \A c \in Bookings : c # b =>
          /\ Occupying(c)' <=> Occupying(c)
          /\ Occupying(c) => Days(c)' = Days(c)
          /\ c \in strayed' <=> c \in strayed
    BY KeptDays DEF StraysWithDays
<1>2. Days(b)' = Days(b) /\ Occupying(b)' /\ b \in strayed' /\ occupied' = occupied
    BY DEF StraysWithDays, Days
<1>3. ASSUME NEW p \in Properties, NEW c \in Sure(p)'
      PROVE  c \in Sure(p) /\ Days(c)' = Days(c)
    BY <1>1, <1>2 DEF Sure, Booked
<1>4. ASSUME NEW p \in Properties, NEW c \in Booked(p)
      PROVE  c \in Booked(p)' /\ Days(c)' = Days(c)
    BY <1>1, <1>2 DEF Booked
<1>5. ASSUME NEW p \in Properties
      PROVE  /\ \A c \in Sure(p)' : \A d \in Days(c)' : d \in occupied'[p]
             /\ \A d \in occupied'[p] : \E c \in Booked(p)' : d \in Days(c)'
    BY <1>2, <1>3, <1>4, CalendarSpread
<1>6. ASSUME NEW p \in Properties, NEW e \in Sure(p)', NEW c \in Sure(p)', e # c, NEW d,
             d \in Days(e)', d \in Days(c)'
      PROVE  FALSE
    BY <1>3, <1>6, CalendarSpread
<1>7. QED
    BY <1>5, <1>6, CalendarAgain

LEMMA CalendarLeft ==
    ASSUME CalendarExact, LeavesDays
    PROVE  CalendarExact'
<1>1. \A p \in Properties : \A c :
          (c \in Booked(p)' <=> c \in Booked(p)) /\ (c \in Sure(p)' <=> c \in Sure(p))
    BY DEF LeavesDays, KeepsStay, Sure, Booked
<1>2. \A p \in Properties : \A c \in Booked(p) : Days(c)' = Days(c)
    BY KeptDays DEF LeavesDays, Booked
<1>3. \A p \in Properties : \A c \in Sure(p) : Days(c)' = Days(c)
    BY <1>2 DEF Sure
<1>4. occupied' = occupied
    BY DEF LeavesDays
<1>5. ASSUME NEW p \in Properties
      PROVE  /\ \A c \in Sure(p)' : \A d \in Days(c)' : d \in occupied'[p]
             /\ \A d \in occupied'[p] : \E c \in Booked(p)' : d \in Days(c)'
    BY <1>1, <1>2, <1>3, <1>4, CalendarSpread
<1>6. ASSUME NEW p \in Properties, NEW e \in Sure(p)', NEW c \in Sure(p)', e # c, NEW d,
             d \in Days(e)', d \in Days(c)'
      PROVE  FALSE
    BY <1>1, <1>3, <1>6, CalendarSpread
<1>7. QED
    BY <1>5, <1>6, CalendarAgain

(* Which of the four a step is. *)

LEMMA FundTakesDays ==
    ASSUME TypeOK, NEW b \in Bookings, NEW out, NEW price, FundBooking(b, out, price),
           UNCHANGED strayed, Reserve(PropertyOf[b], StayDays(CheckIn[b], out))
    PROVE  TakesDays(b)
<1>1. /\ status[b] = "None"
      /\ status' = [status EXCEPT ![b] = "Pending"]
      /\ checkOut' = [checkOut EXCEPT ![b] = out]
    BY DEF FundBooking, CreateBookingAccounts
<1>2. status \in [Bookings -> Statuses] /\ checkOut \in [Bookings -> Nat]
    BY DEF TypeOK, EscrowTypeOK
<1>3. Days(b)' = StayDays(CheckIn[b], out)
    BY <1>1, <1>2 DEF Days
<1>4. ~Occupying(b) /\ Occupying(b)'
    BY <1>1, <1>2 DEF Occupying, Occupies, Statuses
<1>5. \A c \in Bookings \ {b} : KeepsStay(c)
    BY <1>1, <1>2 DEF KeepsStay, Occupying
<1>6. QED
    BY <1>3, <1>4, <1>5 DEF TakesDays

LEMMA CallOffFreesDays ==
    ASSUME Custodial, NEW b \in Bookings, status[b] \in {"Pending", "HostAccepted"},
           UNCHANGED strayed, NEW t \in {"None", "Cancelled"}, status' = [status EXCEPT ![b] = t],
           \A c \in Bookings \ {b} : checkOut'[c] = checkOut[c],
           Release(PropertyOf[b], Days(b))
    PROVE  FreesDays(b)
<1>1. status \in [Bookings -> Statuses] /\ checkOut \in [Bookings -> Nat]
    BY DEF Custodial, TypeOK, EscrowTypeOK
<1>2. Occupying(b) /\ ~Occupying(b)'
    BY <1>1 DEF Occupying, Occupies, Statuses
<1>3. \A c \in Bookings \ {b} : KeepsStay(c)
    BY <1>1 DEF KeepsStay, Occupying
<1>4. b \notin strayed
    BY DEF Custodial, DisputeCoupled, Fits, Restored, Started
<1>5. QED
    BY <1>2, <1>3, <1>4 DEF FreesDays

LEMMA RefundFreesDays ==
    ASSUME Custodial, NEW b \in Bookings, status[b] = "Pending", RefundAndClose(b),
           UNCHANGED strayed, Release(PropertyOf[b], Days(b))
    PROVE  FreesDays(b)
<1>1. /\ status' = [status EXCEPT ![b] = "None"]
      /\ checkOut' = [checkOut EXCEPT ![b] = 0]
    BY DEF RefundAndClose, CloseBooking
<1>2. \A c \in Bookings \ {b} : checkOut'[c] = checkOut[c]
    BY <1>1 DEF Custodial, TypeOK, EscrowTypeOK
<1>3. QED
    BY <1>1, <1>2, CallOffFreesDays

LEMMA CancelFreesDays ==
    ASSUME Custodial, NEW b \in Bookings, GuestCancel(b) \/ HostCancel(b),
           UNCHANGED strayed, Release(PropertyOf[b], Days(b))
    PROVE  FreesDays(b)
<1>1. /\ status[b] \in {"Pending", "HostAccepted"}
      /\ status' = [status EXCEPT ![b] = "Cancelled"]
      /\ UNCHANGED checkOut
    BY DEF GuestCancel, HostCancel, CancelBookingAccounts, termVars
<1>2. QED
    BY <1>1, CallOffFreesDays

LEMMA GoesOnLeavesDays ==
    ASSUME TypeOK, NEW b \in Bookings, NEW t, t \in Occupies <=> status[b] \in Occupies,
           status' = [status EXCEPT ![b] = t], UNCHANGED <<occupied, checkOut, strayed>>
    PROVE  LeavesDays
BY DEF TypeOK, EscrowTypeOK, LeavesDays, KeepsStay, Occupying

CalendarStep ==
    \/ LeavesDays
    \/ \E b \in Bookings : TakesDays(b) \/ FreesDays(b) \/ StraysWithDays(b)

LEMMA BookingNextCalendar ==
    ASSUME Custodial, NEW b \in Bookings, BookingNext(b)
    PROVE  CalendarStep
<1>1. TypeOK /\ UNCHANGED strayed
    BY DEF Custodial, BookingNext, disputeVars, historyVars
<1>2. ASSUME NEW out \in CheckOuts, NEW price \in Prices,
             CreateBooking(b, out, price) \/ CreateBookingCrossYear(b, out, price)
      PROVE  CalendarStep
    BY <1>1, <1>2, FundTakesDays
       DEF CreateBooking, CreateBookingCrossYear, ReserveDaysSingleYear, ReserveDaysCrossYears,
           CalendarStep
<1>3. CASE HostRejectBooking(b) \/ HostRejectBookingCrossYear(b)
    BY <1>1, <1>3, RefundFreesDays
       DEF HostRejectBooking, HostRejectBookingCrossYear, HostRejectBookingAccounts,
           ReleaseDaysSingleYear, ReleaseDaysCrossYears, Days, CalendarStep
<1>4. CASE \/ GuestCancelBooking(b) \/ GuestCancelBookingCrossYear(b)
           \/ HostCancelBooking(b) \/ HostCancelBookingCrossYear(b)
    BY <1>1, <1>4, CancelFreesDays
       DEF GuestCancelBooking, GuestCancelBookingCrossYear, HostCancelBooking,
           HostCancelBookingCrossYear, ReleaseDaysSingleYear, ReleaseDaysCrossYears, Days,
           CalendarStep
<1>5. CASE HostAcceptBooking(b)
    BY <1>1, <1>5, GoesOnLeavesDays
       DEF HostAcceptBooking, HostAcceptBookingAccounts, termVars, Occupies, Statuses,
           CalendarStep
<1>6. ASSUME NEW hostProfile \in Users, BookingStarts(b, hostProfile)
      PROVE  CalendarStep
    BY <1>1, <1>6, GoesOnLeavesDays
       DEF BookingStarts, BookingStartsAccounts, termVars, Occupies, Statuses, CalendarStep
<1>7. ASSUME NEW score \in ReviewScores, GuestReviews(b, score) \/ HostReviews(b, score)
      PROVE  CalendarStep
    BY <1>1, <1>7
       DEF GuestReviews, HostReviews, termVars, LeavesDays, KeepsStay, Occupying, CalendarStep
<1>8. QED
    BY <1>2, <1>3, <1>4, <1>5, <1>6, <1>7 DEF BookingNext

LEMMA SettlesLeavesDays ==
    ASSUME Custodial, NEW b \in Bookings, NEW t, NEW e, Settles(b, t, e),
           UNCHANGED <<occupied, checkOut>>
    PROVE  CalendarStep
<1>1. t \in Occupies <=> status[b] \in Occupies
    BY DEF Settles, Decides, Disputable, Occupies, Statuses
<1>2. UNCHANGED strayed
    BY DEF Settles, Takes, historyVars
<1>3. QED
    BY <1>1, <1>2, GoesOnLeavesDays DEF Custodial, Settles, Takes, CalendarStep

LEMMA CrossesDays ==
    ASSUME TypeOK, NEW d \in Bookings, NEW b \in Bookings, Crosses(d, b),
           UNCHANGED <<occupied, checkOut>>
    PROVE  CalendarStep
<1>1. /\ status \in [Bookings -> Statuses]
      /\ originalStatus[d] \in Disputable
    BY DEF TypeOK, EscrowTypeOK, DisputesTypeOK
<1>2. Occupying(b)' /\ b \in strayed'
    BY <1>1 DEF Crosses, Occupying, Occupies, Statuses, Disputable
<1>3. \A c \in Bookings \ {b} : KeepsStay(c)
    BY <1>1 DEF Crosses, KeepsStay, Occupying
<1>4. QED
    BY <1>2, <1>3 DEF StraysWithDays, CalendarStep

LEMMA CrankNextCalendar ==
    ASSUME Custodial, NEW b \in Bookings, CrankNext(b)
    PROVE  CalendarStep
<1>1. TypeOK
    BY DEF Custodial
<1>2. CASE Expire(b)
    BY <1>2, RefundFreesDays
       DEF Expire, ExpireBooking, ExpireBookingCrossYear, ExpireBookingAccounts,
           ReleaseDaysSingleYear, ReleaseDaysCrossYears, Days, CalendarStep, disputeVars,
           historyVars
<1>3. CASE Complete(b)
    BY <1>1, <1>3, GoesOnLeavesDays
       DEF Complete, BookingCompletes, BookingCompletesAccounts, termVars, Occupies,
           Statuses, CalendarStep, disputeVars, historyVars
<1>4. CASE PayOut(b)
    BY <1>1, <1>4, GoesOnLeavesDays
       DEF PayOut, ReleaseFunds, ReleaseFundsAccounts, termVars, Occupies, Statuses,
           CalendarStep, disputeVars, historyVars
<1>5. CASE EscalateDispute(b)
    <2>1. UNCHANGED <<occupied, checkOut>>
        BY <1>5 DEF EscalateDispute, escrowVars, termVars
    <2>2. QED
        BY <1>5, <2>1, EscalateDisputeSettles, SettlesLeavesDays
<1>6. CASE CloseDispute(b)
    <2>1. UNCHANGED <<occupied, checkOut>>
        BY <1>6 DEF CloseDispute, termVars
    <2>2. QED
        BY <1>6, <2>1, CloseDisputeSettles, SettlesLeavesDays
<1>7. QED
    BY <1>2, <1>3, <1>4, <1>5, <1>6 DEF CrankNext

LEMMA DisputeNextCalendar ==
    ASSUME Custodial, NEW b \in Bookings, DisputeNext(b)
    PROVE  CalendarStep
<1>1. UNCHANGED <<occupied, checkOut>>
    BY DEF DisputeNext, OpenDispute, SolveDisputeBeforeAdmin, ResolveDispute, ExecuteJudgement,
           escrowVars, termVars
<1>2. \/ \E c \in Bookings : \E t, e : Settles(c, t, e)
      \/ \E c, d \in Bookings : Crosses(c, d)
    BY OpenDisputeSettles, SolveDisputeSettles, ResolveDisputeSettles DEF DisputeNext
<1>3. QED
    BY <1>1, <1>2, SettlesLeavesDays, CrossesDays DEF Custodial

LEMMA NextCalendar ==
    ASSUME Custodial, [Next]_vars
    PROVE  CalendarStep
<1>1. CASE Tick \/ CoreNext \/ GuaranteeNext \/ AdminNext \/ UNCHANGED vars
    BY <1>1
       DEF Tick, CoreNext, GuaranteeNext, AdminNext, AddAdmin, DeleteAdmin, vars, escrowVars,
           termVars, disputeVars, historyVars, LeavesDays, KeepsStay, Occupying, CalendarStep
<1>2. ASSUME NEW b \in Bookings, CrankNext(b) \/ BookingNext(b) \/ DisputeNext(b)
      PROVE  CalendarStep
    BY <1>2, CrankNextCalendar, BookingNextCalendar, DisputeNextCalendar
<1>3. QED
    BY <1>1, <1>2 DEF Next, PartyNext

(* No double booking: the taken days of a listing are those of the bookings
   that were not called off, and no two of these share a day, however
   requests, refusals, cancellations and disputes follow each other; only a
   cancelled booking restored with another one's dispute is without its
   days (CalendarExact). *)
THEOREM CalendarAlwaysExact == Spec => []CalendarExact
<1>1. Init => CalendarExact
    BY DEF Init, EscrowInit, AvailabilityInit, CalendarExact, Occupies
<1>2. Custodial /\ CalendarExact /\ [Next]_vars => CalendarExact'
    BY NextCalendar, CalendarTaken, CalendarFreed, CalendarStrayed, CalendarLeft
       DEF CalendarStep, Custodial
<1>3. Spec => []Custodial
    BY AlwaysCustodial
<1>4. QED
    BY <1>1, <1>2, <1>3, PTL DEF Spec

-----------------------------------------------------------------------------
(* Calling an accepted booking off. *)

LEMMA GuestCancelCounted ==
    ASSUME TypeOK, NEW b \in Bookings, GuestCancel(b)
    PROVE  clientCancellations'[Guest[b]] = clientCancellations[Guest[b]] + 1
BY PartyIsUser DEF TypeOK, CoreTypeOK, GuestCancel, IncrementClientCancellations

(* Only cancellations make a booking cancelled, and only their own. *)
LEMMA CancelledBy ==
    ASSUME TypeOK, [Next]_vars, NEW b \in Bookings,
           status[b] = "HostAccepted", status'[b] = "Cancelled"
    PROVE  \/ GuestCancelBooking(b)
           \/ GuestCancelBookingCrossYear(b)
           \/ HostCancelBooking(b)
           \/ HostCancelBookingCrossYear(b)
<1>1. status \in [Bookings -> Statuses]
    BY DEF TypeOK, EscrowTypeOK
<1>2. ASSUME NEW c \in Bookings, BookingNext(c)
      PROVE  \/ GuestCancelBooking(b)
             \/ GuestCancelBookingCrossYear(b)
             \/ HostCancelBooking(b)
             \/ HostCancelBookingCrossYear(b)
    BY <1>1, <1>2
       DEF BookingNext, CreateBooking, CreateBookingCrossYear, FundBooking,
           CreateBookingAccounts, HostAcceptBooking, HostRejectBooking,
           HostRejectBookingCrossYear, RefundAndClose, CloseBooking,
           GuestCancelBooking, GuestCancelBookingCrossYear, HostCancelBooking,
           HostCancelBookingCrossYear, GuestCancel, HostCancel, BookingStarts,
           GuestReviews, HostReviews
<1>3. ASSUME NEW c \in Bookings, CrankNext(c)
      PROVE  FALSE
    BY <1>1, <1>3
       DEF CrankNext, Expire, ExpireBooking, ExpireBookingCrossYear, RefundAndClose,
           CloseBooking, Complete, BookingCompletes, PayOut, ReleaseFunds, EscalateDispute,
           escrowVars, CloseDispute, SettleDisputedStay, UpdateBookingStatus
<1>4. ASSUME NEW c \in Bookings, DisputeNext(c)
      PROVE  FALSE
    <2>1. originalStatus[c] # "Cancelled"
        BY OriginalStatusType DEF TypeOK, Disputable
    <2>2. QED
        BY <1>1, <1>4, <2>1
           DEF DisputeNext, OpenDispute, SolveDisputeBeforeAdmin, ResolveDispute,
               ExecuteJudgement, UpdateBookingStatus, escrowVars
<1>5. CASE Tick \/ CoreNext \/ GuaranteeNext \/ AdminNext \/ UNCHANGED vars
    BY <1>5
       DEF Tick, CoreNext, GuaranteeNext, AdminNext, AddAdmin, DeleteAdmin, vars, escrowVars
<1>6. QED
    BY <1>2, <1>3, <1>4, <1>5 DEF Next, PartyNext

(* Nobody calls an accepted booking off once its check-in has passed, and at
   the very moment of check-in only the guest of a stay within a year
   (CancelledByCheckIn). *)
THEOREM CancelledOnTime == Spec => CancelledByCheckIn
<1>1. TypeOK /\ [Next]_vars =>
          [\A b \in Bookings :
              status[b] = "HostAccepted" /\ status'[b] = "Cancelled" =>
                  \/ now < CheckIn[b]
                  \/ /\ now = CheckIn[b]
                     /\ SameYear(CheckIn[b], checkOut[b])
                     /\ clientCancellations'[Guest[b]] = clientCancellations[Guest[b]] + 1]_vars
    <2> SUFFICES ASSUME TypeOK, [Next]_vars, NEW b \in Bookings,
                        status[b] = "HostAccepted", status'[b] = "Cancelled"
                 PROVE  \/ now < CheckIn[b]
                        \/ /\ now = CheckIn[b]
                           /\ SameYear(CheckIn[b], checkOut[b])
                           /\ clientCancellations'[Guest[b]] = clientCancellations[Guest[b]] + 1
        OBVIOUS
    <2>1. now \in Nat /\ CheckIn[b] \in Nat
        BY EscrowAssumption DEF TypeOK, EscrowTypeOK
    <2>2. CASE GuestCancelBooking(b)
        BY <2>1, <2>2, GuestCancelCounted DEF GuestCancelBooking, ReleaseDaysSingleYear
    <2>3. CASE \/ GuestCancelBookingCrossYear(b)
               \/ HostCancelBooking(b)
               \/ HostCancelBookingCrossYear(b)
        BY <2>3 DEF GuestCancelBookingCrossYear, HostCancelBooking, HostCancelBookingCrossYear,
                    HostCancel
    <2>4. QED
        BY <2>2, <2>3, CancelledBy
<1>2. QED
    BY TypeCorrect, <1>1, PTL DEF Spec, CancelledByCheckIn

-----------------------------------------------------------------------------
(* The payout.  A completed stay was completed after its check-out, and a
   dispute that froze it keeps that, so a restored one may be paid out a day
   after its last change. *)

CompletedLate(b) == updatedAt[b] >= checkOut[b]

Timely ==
    \A b \in Regular :
        /\ status[b] = "Completed" => CompletedLate(b)
        /\ status[b] = "Disputed" /\ originalStatus[b] = "Completed" => CompletedLate(b)
        /\ status[b] = "Released" => now >= checkOut[b] + DAY

KeepsDates(b) == updatedAt'[b] = updatedAt[b] /\ checkOut'[b] = checkOut[b]

(* What a step does to the dates of a booking that has not strayed. *)
DatedStep(b) ==
    \/ status'[b] \notin {"Completed", "Disputed", "Released"}
    \/ /\ status'[b] = status[b]
       /\ status[b] = "Disputed" => originalStatus'[b] = originalStatus[b]
       /\ KeepsDates(b)
       /\ now' >= now
    \/ status'[b] = "Completed" /\ CompletedLate(b)'
    \/ status'[b] = "Released" /\ status[b] = "Completed" /\ PayoutDue(b)
           /\ checkOut'[b] = checkOut[b] /\ now' = now
    \/ status'[b] = "Disputed" /\ originalStatus'[b] = status[b] /\ KeepsDates(b)
    \/ status'[b] = "Disputed" /\ originalStatus'[b] = "Active"
    \/ status[b] = "Disputed" /\ status'[b] = originalStatus[b] /\ KeepsDates(b)

(* A booking that has strayed never comes back. *)
LEMMA NextStrayed ==
    ASSUME Custodial, [Next]_vars
    PROVE  strayed \subseteq strayed'
BY NextAdvances DEF Advance, Takes, Settles, Crosses, historyVars

LEMMA DatedTimely ==
    ASSUME TypeOK, TypeOK', Timely, strayed \subseteq strayed', \A b \in Regular' : DatedStep(b)
    PROVE  Timely'
<1> SUFFICES ASSUME NEW b \in Regular'
             PROVE  /\ status'[b] = "Completed" => CompletedLate(b)'
                    /\ status'[b] = "Disputed" /\ originalStatus'[b] = "Completed"
                          => CompletedLate(b)'
                    /\ status'[b] = "Released" => now' >= checkOut'[b] + DAY
    BY DEF Timely
<1> b \in Regular /\ b \in Bookings
    BY DEF Regular
<1>1. /\ now \in Nat /\ now' \in Nat /\ updatedAt[b] \in Nat /\ DAY \in Nat
      /\ checkOut[b] \in Nat /\ checkOut'[b] \in Nat
      /\ originalStatus[b] \in Disputable
    BY AvailabilityAssumption DEF TypeOK, EscrowTypeOK, DisputesTypeOK
<1>2. /\ status[b] = "Completed" => updatedAt[b] >= checkOut[b]
      /\ status[b] = "Disputed" /\ originalStatus[b] = "Completed" => updatedAt[b] >= checkOut[b]
      /\ status[b] = "Released" => now >= checkOut[b] + DAY
    BY DEF Timely, CompletedLate
<1>3. DatedStep(b)
    OBVIOUS
<1>4. QED
    BY <1>1, <1>2, <1>3 DEF DatedStep, KeepsDates, CompletedLate, PayoutDue, Disputable

LEMMA BookingNextDated ==
    ASSUME TypeOK, NEW c \in Bookings, BookingNext(c), NEW b \in Bookings
    PROVE  DatedStep(b)
<1>1. /\ status \in [Bookings -> Statuses] /\ checkOut \in [Bookings -> Nat]
      /\ updatedAt \in [Bookings -> Nat] /\ now \in Nat
    BY DEF TypeOK, EscrowTypeOK
<1>2. UNCHANGED originalStatus
    BY DEF BookingNext, disputeVars, accountVars
<1>3. ASSUME NEW out, NEW price, FundBooking(c, out, price)
      PROVE  DatedStep(b)
    BY <1>1, <1>2, <1>3 DEF FundBooking, DatedStep, KeepsDates
<1>4. ASSUME RefundAndClose(c)
      PROVE  DatedStep(b)
    BY <1>1, <1>2, <1>4 DEF RefundAndClose, CloseBooking, DatedStep, KeepsDates
<1>5. CASE GuestCancel(c) \/ HostCancel(c)
    BY <1>1, <1>2, <1>5 DEF GuestCancel, HostCancel, termVars, DatedStep, KeepsDates
<1>6. CASE HostAcceptBooking(c) \/ \E hostProfile \in Users : BookingStarts(c, hostProfile)
    BY <1>1, <1>2, <1>6 DEF HostAcceptBooking, BookingStarts, termVars, DatedStep, KeepsDates
<1>7. CASE \E score \in ReviewScores : GuestReviews(c, score) \/ HostReviews(c, score)
    BY <1>1, <1>2, <1>7 DEF GuestReviews, HostReviews, termVars, DatedStep, KeepsDates
<1>8. QED
    BY <1>3, <1>4, <1>5, <1>6, <1>7
       DEF BookingNext, CreateBooking, CreateBookingCrossYear, HostRejectBooking,
           HostRejectBookingCrossYear, GuestCancelBooking, GuestCancelBookingCrossYear,
           HostCancelBooking, HostCancelBookingCrossYear

LEMMA CrankNextDated ==
    ASSUME Custodial, NEW c \in Bookings, CrankNext(c), NEW b \in Bookings
    PROVE  DatedStep(b)
<1>1. /\ status \in [Bookings -> Statuses] /\ checkOut \in [Bookings -> Nat]
      /\ updatedAt \in [Bookings -> Nat] /\ now \in Nat
      /\ originalStatus \in [Bookings -> Disputable]
    BY DEF Custodial, TypeOK, EscrowTypeOK, DisputesTypeOK
<1>2. CASE Expire(c)
    BY <1>1, <1>2
       DEF Expire, ExpireBooking, ExpireBookingCrossYear, RefundAndClose, CloseBooking,
           disputeVars, accountVars, DatedStep, KeepsDates
<1>3. CASE Complete(c)
    BY <1>1, <1>3
       DEF Complete, BookingCompletes, CompletionDue, termVars, disputeVars, accountVars,
           DatedStep, KeepsDates, CompletedLate
<1>4. CASE PayOut(c)
    BY <1>1, <1>4
       DEF PayOut, ReleaseFunds, ReleaseFundsAccounts, termVars, disputeVars, accountVars,
           DatedStep, KeepsDates
<1>5. CASE EscalateDispute(c)
    BY <1>1, <1>5 DEF EscalateDispute, escrowVars, termVars, DatedStep, KeepsDates
<1>6. CASE CloseDispute(c)
    <2>1. /\ UNCHANGED <<updatedAt, checkOut, now>>
          /\ originalStatus' = [originalStatus EXCEPT ![c] = "Active"]
        BY <1>6 DEF CloseDispute, CloseDisputeAccount, termVars
    <2>2. PICK t \in {status[c], originalStatus[c]} : Settles(c, t, "None")
        BY <1>6, CloseDisputeSettles
    <2>3. status' = [status EXCEPT ![c] = t] /\ (t # status[c] => status[c] = "Disputed")
        BY <2>2 DEF Settles, Takes, Decides
    <2>4. QED
        BY <1>1, <2>1, <2>2, <2>3 DEF DatedStep, KeepsDates
<1>7. QED
    BY <1>2, <1>3, <1>4, <1>5, <1>6 DEF CrankNext

LEMMA DisputeNextDated ==
    ASSUME Custodial, NEW c \in Bookings, DisputeNext(c), NEW b \in Regular'
    PROVE  DatedStep(b)
<1>1. /\ status \in [Bookings -> Statuses] /\ checkOut \in [Bookings -> Nat]
      /\ updatedAt \in [Bookings -> Nat] /\ now \in Nat
      /\ originalStatus \in [Bookings -> Disputable]
      /\ b \in Bookings /\ b \notin strayed'
    BY DEF Custodial, TypeOK, EscrowTypeOK, DisputesTypeOK, Regular
<1>2. UNCHANGED <<updatedAt, checkOut, now>>
    BY DEF DisputeNext, OpenDispute, SolveDisputeBeforeAdmin, ResolveDispute, ExecuteJudgement,
           escrowVars, termVars
<1>3. ASSUME NEW initiator, OpenDispute(c, initiator)
      PROVE  DatedStep(b)
    BY <1>1, <1>2, <1>3 DEF OpenDispute, UpdateBookingStatus, DatedStep, KeepsDates
<1>4. ASSUME NEW d \in Bookings, NEW initiator, SolveDisputeBeforeAdmin(c, d, initiator)
      PROVE  DatedStep(b)
    <2>1. UNCHANGED originalStatus
        BY <1>4 DEF SolveDisputeBeforeAdmin
    <2>2. CASE Settles(c, originalStatus[c], "ResolvedByP2P")
        <3>1. status' = [status EXCEPT ![c] = originalStatus[c]]
            BY <2>2 DEF Settles, Takes
        <3>2. status[c] = "Disputed" \/ status[c] = originalStatus[c]
            BY <2>2 DEF Settles, Decides
        <3>3. QED
            BY <1>1, <1>2, <2>1, <3>1, <3>2 DEF DatedStep, KeepsDates
    <2>3. CASE Crosses(c, d)
        <3>1. status'[b] = status[b]
            BY <1>1, <2>3 DEF Crosses
        <3>2. QED
            BY <1>1, <1>2, <2>1, <3>1 DEF DatedStep, KeepsDates
    <2>4. QED
        BY <1>4, <2>2, <2>3, SolveDisputeSettles
<1>5. ASSUME NEW a \in Admins, NEW outcome \in Outcomes, ResolveDispute(a, c, outcome)
      PROVE  DatedStep(b)
    <2>1. UNCHANGED originalStatus
        BY <1>5 DEF ResolveDispute
    <2>2. PICK t \in {status[c], "DisputeResolved"} : status' = [status EXCEPT ![c] = t]
        BY <1>5, ResolveDisputeSettles DEF Settles, Takes
    <2>3. QED
        BY <1>1, <1>2, <2>1, <2>2 DEF DatedStep, KeepsDates
<1>6. QED
    BY <1>3, <1>4, <1>5 DEF DisputeNext

LEMMA NextDated ==
    ASSUME Custodial, [Next]_vars, NEW b \in Regular'
    PROVE  DatedStep(b)
<1> b \in Bookings
    BY DEF Regular
<1>1. CASE Tick
    BY <1>1
       DEF Custodial, TypeOK, EscrowTypeOK, Tick, termVars, disputeVars, accountVars, DatedStep,
           KeepsDates
<1>2. CASE CoreNext \/ GuaranteeNext \/ AdminNext \/ UNCHANGED vars
    BY <1>2
       DEF Custodial, TypeOK, EscrowTypeOK, CoreNext, GuaranteeNext, AdminNext, AddAdmin,
           DeleteAdmin, vars, escrowVars, termVars, disputeVars, accountVars, DatedStep,
           KeepsDates
<1>3. ASSUME NEW c \in Bookings, CrankNext(c) \/ BookingNext(c) \/ DisputeNext(c)
      PROVE  DatedStep(b)
    BY <1>3, CrankNextDated, BookingNextDated, DisputeNextDated DEF Custodial
<1>4. QED
    BY <1>1, <1>2, <1>3 DEF Next, PartyNext

(* A host is paid for a stay only 24 h after check-out, even when a dispute
   interrupted the stay and the booking was restored with that dispute
   (ReleasedLate). *)
THEOREM PaidOutLate == Spec => []ReleasedLate
<1>1. Init => Timely
    BY DEF Init, EscrowInit, Timely, Regular
<1>2. Custodial /\ Timely /\ [Next]_vars => Timely'
    BY NextTypeOK, NextStrayed, NextDated, DatedTimely DEF Custodial
<1>3. Spec => []Custodial
    BY AlwaysCustodial
<1>4. Timely => ReleasedLate
    BY DEF Timely, ReleasedLate
<1>5. QED
    BY <1>1, <1>2, <1>3, <1>4, PTL DEF Spec

-----------------------------------------------------------------------------
(* The slot.  A stay that a slot may name stays so, unless the step clears
   the slot of its guest. *)

Nameable(b) ==
    /\ status[b] \in {"Active", "Completed", "Disputed", "DisputeResolved"}
    /\ ~StayCounted(b)

SlotsClear == \A u \in Users : activeBooking'[u] \in {activeBooking[u], NoBooking}

SlotStep ==
    \/ /\ SlotsClear
       /\ \A b \in Bookings : Nameable(b) => Nameable(b)' \/ activeBooking'[Guest[b]] = NoBooking
    \/ \E c \in Bookings :
          /\ activeBooking' = [activeBooking EXCEPT ![Guest[c]] = c]
          /\ Nameable(c)'
          /\ \A b \in Bookings : Nameable(b) => Nameable(b)'

LEMMA SlotStepSound ==
    ASSUME TypeOK, ActiveSlotSound, SlotStep
    PROVE  ActiveSlotSound'
<1>1. activeBooking \in [Users -> Bookings \cup {NoBooking}] /\ NoBooking \notin Bookings
    BY CoreAssumption DEF TypeOK, CoreTypeOK
<1>2. ASSUME NEW u \in Users, NEW b, activeBooking[u] = b, b # NoBooking
      PROVE  b \in Bookings /\ Guest[b] = u /\ Nameable(b)
    BY <1>1, <1>2 DEF ActiveSlotSound, Nameable
<1>3. ASSUME NEW u \in Users, NEW b, activeBooking'[u] = b, b # NoBooking
      PROVE  Guest[b] = u /\ Nameable(b)'
    <2>1. CASE SlotsClear /\ \A c \in Bookings :
                   Nameable(c) => Nameable(c)' \/ activeBooking'[Guest[c]] = NoBooking
        BY <1>2, <1>3, <2>1 DEF SlotsClear
    <2>2. ASSUME NEW c \in Bookings,
                 activeBooking' = [activeBooking EXCEPT ![Guest[c]] = c], Nameable(c)',
                 \A d \in Bookings : Nameable(d) => Nameable(d)'
          PROVE  Guest[b] = u /\ Nameable(b)'
        <3>1. CASE u = Guest[c]
            BY <1>1, <1>3, <2>2, <3>1
        <3>2. CASE u # Guest[c]
            BY <1>1, <1>2, <1>3, <2>2, <3>2
        <3>3. QED
            BY <3>1, <3>2
    <2>3. QED
        BY <2>1, <2>2 DEF SlotStep
<1>4. QED
    BY <1>3 DEF ActiveSlotSound, Nameable

(* A step that leaves the bookings, or moves one of them on without settling
   it, keeps what a slot may name. *)
LEMMA NameableKept ==
    ASSUME TypeOK, NEW c \in Bookings, NEW t, status' = [status EXCEPT ![c] = t],
           UNCHANGED disputeState,
           Nameable(c) => t \in {"Active", "Completed", "Disputed"},
           NEW b \in Bookings, Nameable(b)
    PROVE  Nameable(b)'
BY DEF TypeOK, EscrowTypeOK, Nameable, StayCounted

LEMMA SlotsLeft ==
    ASSUME UNCHANGED activeBooking
    PROVE  SlotsClear
BY DEF SlotsClear

LEMMA BookingNextSlot ==
    ASSUME TypeOK, NEW c \in Bookings, BookingNext(c)
    PROVE  SlotStep
<1>1. /\ status \in [Bookings -> Statuses]
      /\ UNCHANGED disputeState
    BY DEF TypeOK, EscrowTypeOK, BookingNext, disputeVars, accountVars
<1>2. ASSUME UNCHANGED activeBooking, NEW t, status' = [status EXCEPT ![c] = t],
             status[c] \in {"None", "Pending", "HostAccepted"}
      PROVE  SlotStep
    BY <1>1, <1>2, NameableKept, SlotsLeft DEF Nameable, SlotStep
<1>3. ASSUME NEW out, NEW price, FundBooking(c, out, price)
      PROVE  SlotStep
    BY <1>2, <1>3 DEF FundBooking, CreateBookingAccounts, coreVars
<1>4. CASE HostRejectBooking(c) \/ HostRejectBookingCrossYear(c)
    BY <1>2, <1>4
       DEF HostRejectBooking, HostRejectBookingCrossYear, HostRejectBookingAccounts,
           RefundAndClose, CloseBooking, coreVars
<1>5. CASE GuestCancel(c) \/ HostCancel(c)
    BY <1>2, <1>5 DEF GuestCancel, HostCancel, CancelBookingAccounts
<1>6. CASE HostAcceptBooking(c)
    BY <1>2, <1>6 DEF HostAcceptBooking, HostAcceptBookingAccounts, coreVars
<1>7. ASSUME NEW hostProfile \in Users, BookingStarts(c, hostProfile)
      PROVE  SlotStep
    <2>1. /\ status' = [status EXCEPT ![c] = "Active"]
          /\ activeBooking' = [activeBooking EXCEPT ![Guest[c]] = c]
        BY <1>7 DEF BookingStarts, SetActiveBooking
    <2>2. Nameable(c)'
        BY <1>1, <2>1 DEF Nameable, StayCounted
    <2>3. \A b \in Bookings : Nameable(b) => Nameable(b)'
        BY <1>1, <2>1, NameableKept
    <2>4. QED
        BY <2>1, <2>2, <2>3 DEF SlotStep
<1>8. ASSUME NEW score \in ReviewScores, GuestReviews(c, score) \/ HostReviews(c, score)
      PROVE  SlotStep
    <2>1. UNCHANGED <<status, activeBooking>>
        BY <1>8 DEF GuestReviews, HostReviews
    <2>2. QED
        BY <1>1, <2>1, SlotsLeft DEF SlotStep, Nameable, StayCounted
<1>9. QED
    BY <1>3, <1>4, <1>5, <1>6, <1>7, <1>8
       DEF BookingNext, CreateBooking, CreateBookingCrossYear, GuestCancelBooking,
           GuestCancelBookingCrossYear, HostCancelBooking, HostCancelBookingCrossYear

(* The dispute of a stay settled by a verdict was resolved by that verdict. *)
LEMMA ResolvedCloses ==
    ASSUME Custodial, NEW d \in Bookings, CloseDispute(d), status[d] = "DisputeResolved"
    PROVE  disputeState[d] = "ResolvedByAdmin"
<1>1. Fits(d) /\ disputeState[d] # "None"
    BY DEF Custodial, DisputeCoupled, CloseDispute, CloseDisputeAccounts
<1>2. QED
    BY <1>1 DEF Fits, Coupled, Restored, Stranded

(* A dispute that is not closed keeps its stay uncounted. *)
LEMMA SettlesSlot ==
    ASSUME Custodial, NEW c \in Bookings, NEW t, NEW e, Settles(c, t, e),
           UNCHANGED activeBooking, status[c] = "DisputeResolved" => e # "None"
    PROVE  SlotStep
<1>1. /\ status \in [Bookings -> Statuses] /\ disputeState \in [Bookings -> DisputeStates]
      /\ status' = [status EXCEPT ![c] = t]
      /\ disputeState' = [disputeState EXCEPT ![c] = e]
      /\ Decides(status[c], disputeState[c], t, e)
    BY DEF Custodial, TypeOK, EscrowTypeOK, DisputesTypeOK, Settles, Takes
<1>2. \A b \in Bookings : Nameable(b) => Nameable(b)'
    BY <1>1 DEF Nameable, StayCounted, Decides, Disputable
<1>3. QED
    BY <1>2, SlotsLeft DEF SlotStep

LEMMA CrossesSlot ==
    ASSUME Custodial, NEW d \in Bookings, NEW b \in Bookings, Crosses(d, b),
           UNCHANGED activeBooking
    PROVE  SlotStep
<1>1. /\ status \in [Bookings -> Statuses] /\ disputeState \in [Bookings -> DisputeStates]
      /\ originalStatus[d] \in Disputable
      /\ status' = [status EXCEPT ![b] = originalStatus[d]]
      /\ disputeState' = [disputeState EXCEPT ![d] = "ResolvedByP2P"]
    BY DEF Custodial, TypeOK, EscrowTypeOK, DisputesTypeOK, Crosses
<1>2. \A c \in Bookings : Nameable(c) => Nameable(c)'
    BY <1>1 DEF Nameable, StayCounted, Disputable
<1>3. QED
    BY <1>2, SlotsLeft DEF SlotStep

LEMMA CrankNextSlot ==
    ASSUME Custodial, NEW c \in Bookings, CrankNext(c)
    PROVE  SlotStep
<1>1. /\ TypeOK
      /\ status \in [Bookings -> Statuses]
      /\ activeBooking \in [Users -> Bookings \cup {NoBooking}]
      /\ Guest[c] \in Users
    BY PartyIsUser DEF Custodial, TypeOK, EscrowTypeOK, CoreTypeOK
<1>2. CASE Expire(c)
    <2>1. /\ UNCHANGED <<activeBooking, disputeState>>
          /\ status[c] = "Pending"
          /\ status' = [status EXCEPT ![c] = "None"]
        BY <1>2
           DEF Expire, ExpireBooking, ExpireBookingCrossYear, ExpireBookingAccounts,
               RefundAndClose, CloseBooking, coreVars, disputeVars, accountVars
    <2>2. QED
        BY <1>1, <2>1, NameableKept, SlotsLeft DEF Nameable, SlotStep
<1>3. CASE Complete(c)
    <2>1. /\ UNCHANGED <<activeBooking, disputeState>>
          /\ status' = [status EXCEPT ![c] = "Completed"]
        BY <1>3 DEF Complete, BookingCompletes, coreVars, disputeVars, accountVars
    <2>2. QED
        BY <1>1, <2>1, NameableKept, SlotsLeft DEF SlotStep
<1>4. CASE PayOut(c)
    <2>1. /\ UNCHANGED disputeState
          /\ status' = [status EXCEPT ![c] = "Released"]
          /\ activeBooking' = [activeBooking EXCEPT ![Guest[c]] = NoBooking]
        BY <1>4 DEF PayOut, ReleaseFunds, ClearActiveBooking, disputeVars, accountVars
    <2>2. SlotsClear /\ activeBooking'[Guest[c]] = NoBooking
        BY <1>1, <2>1 DEF SlotsClear
    <2>3. \A b \in Bookings \ {c} : Nameable(b) => Nameable(b)'
        BY <1>1, <2>1 DEF Nameable, StayCounted
    <2>4. QED
        BY <2>2, <2>3 DEF SlotStep
<1>5. CASE EscalateDispute(c)
    <2>1. UNCHANGED activeBooking
        BY <1>5 DEF EscalateDispute, coreVars
    <2>2. QED
        BY <1>5, <2>1, EscalateDisputeSettles, SettlesSlot
<1>6. CASE CloseDispute(c)
    <2>1. CASE status[c] # "Disputed" /\ disputeState[c] = "ResolvedByAdmin"
        <3>1. /\ UNCHANGED status
              /\ activeBooking' = [activeBooking EXCEPT ![Guest[c]] = NoBooking]
              /\ disputeState' = [disputeState EXCEPT ![c] = "None"]
            BY <1>6, <2>1
               DEF CloseDispute, CloseDisputeAccount, SettleDisputedStay, CountStay,
                   ClearActiveBooking
        <3>2. SlotsClear /\ activeBooking'[Guest[c]] = NoBooking
            BY <1>1, <3>1 DEF SlotsClear
        <3>3. \A b \in Bookings \ {c} : Nameable(b) => Nameable(b)'
            BY <1>1, <3>1 DEF TypeOK, DisputesTypeOK, Nameable, StayCounted
        <3>4. QED
            BY <3>2, <3>3 DEF SlotStep
    <2>2. CASE status[c] = "Disputed" \/ disputeState[c] # "ResolvedByAdmin"
        <3>1. UNCHANGED activeBooking
            BY <1>6, <2>2 DEF CloseDispute, SettleDisputedStay
        <3>2. status[c] # "DisputeResolved"
            BY <1>6, <2>2, ResolvedCloses
        <3>3. QED
            BY <1>6, <3>1, <3>2, CloseDisputeSettles, SettlesSlot
    <2>3. QED
        BY <2>1, <2>2
<1>7. QED
    BY <1>2, <1>3, <1>4, <1>5, <1>6 DEF CrankNext

LEMMA DisputeNextSlot ==
    ASSUME Custodial, NEW c \in Bookings, DisputeNext(c)
    PROVE  SlotStep
<1>1. ASSUME NEW initiator, OpenDispute(c, initiator)
      PROVE  SlotStep
    <2>1. UNCHANGED activeBooking
        BY <1>1 DEF OpenDispute, coreVars
    <2>2. QED
        BY <1>1, <2>1, OpenDisputeSettles, SettlesSlot
<1>2. ASSUME NEW d \in Bookings, NEW initiator, SolveDisputeBeforeAdmin(c, d, initiator)
      PROVE  SlotStep
    <2>1. UNCHANGED activeBooking
        BY <1>2 DEF SolveDisputeBeforeAdmin, coreVars
    <2>2. QED
        BY <1>2, <2>1, SolveDisputeSettles, SettlesSlot, CrossesSlot
<1>3. ASSUME NEW a \in Admins, NEW outcome \in Outcomes, ResolveDispute(a, c, outcome)
      PROVE  SlotStep
    <2>1. UNCHANGED activeBooking
        BY <1>3 DEF ResolveDispute, ExecuteJudgement, coreVars
    <2>2. QED
        BY <1>3, <2>1, ResolveDisputeSettles, SettlesSlot
<1>4. QED
    BY <1>1, <1>2, <1>3 DEF DisputeNext

LEMMA NextSlot ==
    ASSUME Custodial, [Next]_vars
    PROVE  SlotStep
<1>1. CASE Tick \/ CoreNext \/ GuaranteeNext \/ AdminNext \/ UNCHANGED vars
    <2>1. UNCHANGED <<activeBooking, status, disputeState>>
        BY <1>1
           DEF Tick, CoreNext, GuaranteeNext, TreasuryNext, DepositGuarantee, WithdrawGuarantee,
               AdminNext, AddAdmin, DeleteAdmin, vars, coreVars, escrowVars, disputeVars,
               accountVars
    <2>2. QED
        BY <2>1, SlotsLeft DEF SlotStep, Nameable, StayCounted
<1>2. ASSUME NEW c \in Bookings, CrankNext(c) \/ BookingNext(c) \/ DisputeNext(c)
      PROVE  SlotStep
    BY <1>2, CrankNextSlot, BookingNextSlot, DisputeNextSlot DEF Custodial
<1>3. QED
    BY <1>1, <1>2 DEF Next, PartyNext

(* The active-booking slot never names a booking of someone else, a request
   that did not start, or a stay that is over and counted (ActiveSlotSound). *)
THEOREM SlotAlwaysSound == Spec => []ActiveSlotSound
<1>1. Init => ActiveSlotSound
    BY DEF Init, CoreInit, ActiveSlotSound
<1>2. Custodial /\ ActiveSlotSound /\ [Next]_vars => ActiveSlotSound'
    BY NextSlot, SlotStepSound DEF Custodial
<1>3. Spec => []Custodial
    BY AlwaysCustodial
<1>4. QED
    BY <1>1, <1>2, <1>3, PTL DEF Spec

-----------------------------------------------------------------------------
(* The counters.  A step counts one stay, or none, of those that have not
   strayed when it is done. *)

CountsNone ==
    /\ UNCHANGED stayVars
    /\ \A b \in Regular' : StayCounted(b)' <=> StayCounted(b)

CountsOne(c) ==
    /\ IncrementCompletedStays(Guest[c])
    /\ IncrementHostedStays(HostOf(c))
    /\ c \in Regular' => ~StayCounted(c) /\ StayCounted(c)'
    /\ \A b \in Regular' \ {c} : StayCounted(b)' <=> StayCounted(b)

CountStep == CountsNone \/ \E c \in Bookings : CountsOne(c)

LEMMA OneMore ==
    ASSUME IsFiniteSet(Bookings), NEW old \in SUBSET Bookings, NEW c \in Bookings, c \notin old
    PROVE  Cardinality(old) \in Nat /\ Cardinality(old \cup {c}) = Cardinality(old) + 1
BY FS_Subset, FS_CardinalityType, FS_AddElement

(* The stays of a user as a guest and as a host, and those counted. *)
BookedBy(u) == {b \in Bookings : Guest[b] = u}
HostedBy(u) == {b \in Bookings : HostOf(b) = u}

Counted(S) == {b \in S : StayCounted(b)}

LEMMA CountedSpread ==
    StaysCountedOnce <=>
        \A u \in Users :
            /\ BookedBy(u) \subseteq Regular =>
                  completedStays[u] = Cardinality(Counted(BookedBy(u)))
            /\ HostedBy(u) \subseteq Regular =>
                  hostedStays[u] = Cardinality(Counted(HostedBy(u)))
BY DEF StaysCountedOnce, BookedBy, HostedBy, Counted

(* A set of bookings none of which strays: the one counted adds to it. *)
LEMMA CountedAdds ==
    ASSUME IsFiniteSet(Bookings), NEW S \in SUBSET Bookings, S \subseteq Regular',
           NEW c \in Bookings, CountsOne(c)
    PROVE  /\ Cardinality(Counted(S)) \in Nat
           /\ Cardinality(Counted(S)') = Cardinality(Counted(S)) + (IF c \in S THEN 1 ELSE 0)
<1>1. /\ c \in Regular' => ~StayCounted(c) /\ StayCounted(c)'
      /\ \A b \in Regular' \ {c} : StayCounted(b)' <=> StayCounted(b)
    BY DEF CountsOne
<1>2. Counted(S) \in SUBSET Bookings /\ Cardinality(Counted(S)) \in Nat
    BY FS_Subset, FS_CardinalityType DEF Counted
<1>3. CASE c \in S
    <2>1. c \notin Counted(S) /\ Counted(S)' = Counted(S) \cup {c}
        BY <1>1, <1>3 DEF Counted
    <2>2. QED
        BY <1>2, <1>3, <2>1, OneMore
<1>4. CASE c \notin S
    <2>1. Counted(S)' = Counted(S)
        BY <1>1, <1>4 DEF Counted
    <2>2. QED
        BY <1>2, <1>4, <2>1
<1>5. QED
    BY <1>3, <1>4

LEMMA CountStepCounts ==
    ASSUME IsFiniteSet(Bookings), TypeOK, StaysCountedOnce, strayed \subseteq strayed', CountStep
    PROVE  StaysCountedOnce'
<1>1. /\ completedStays \in [Users -> Nat]
      /\ hostedStays \in [Users -> Nat]
    BY DEF TypeOK, CoreTypeOK
<1>2. Regular' \subseteq Regular
    BY DEF Regular
<1>3. ASSUME NEW u \in Users, BookedBy(u) \subseteq Regular'
      PROVE  completedStays'[u] = Cardinality(Counted(BookedBy(u))')
    <2>1. completedStays[u] = Cardinality(Counted(BookedBy(u))) /\ BookedBy(u) \in SUBSET Bookings
        BY <1>2, <1>3, CountedSpread DEF BookedBy
    <2>2. CASE CountsNone
        <3>1. Counted(BookedBy(u))' = Counted(BookedBy(u))
            BY <1>3, <2>2 DEF CountsNone, Counted, BookedBy
        <3>2. QED
            BY <2>1, <2>2, <3>1 DEF CountsNone, stayVars
    <2>3. ASSUME NEW c \in Bookings, CountsOne(c)
          PROVE  completedStays'[u] = Cardinality(Counted(BookedBy(u))')
        <3>1. completedStays' = [completedStays EXCEPT ![Guest[c]] = @ + 1]
            BY <2>3 DEF CountsOne, IncrementCompletedStays
        <3>2. c \in BookedBy(u) <=> Guest[c] = u
            BY DEF BookedBy
        <3>3. /\ Cardinality(Counted(BookedBy(u))) \in Nat
              /\ Cardinality(Counted(BookedBy(u))')
                     = Cardinality(Counted(BookedBy(u))) + (IF Guest[c] = u THEN 1 ELSE 0)
            BY <1>3, <2>1, <2>3, <3>2, CountedAdds DEF BookedBy, Counted
        <3>4. QED
            BY <1>1, <2>1, <3>1, <3>3
    <2>4. QED
        BY <2>2, <2>3 DEF CountStep
<1>4. ASSUME NEW u \in Users, HostedBy(u) \subseteq Regular'
      PROVE  hostedStays'[u] = Cardinality(Counted(HostedBy(u))')
    <2>1. hostedStays[u] = Cardinality(Counted(HostedBy(u))) /\ HostedBy(u) \in SUBSET Bookings
        BY <1>2, <1>4, CountedSpread DEF HostedBy
    <2>2. CASE CountsNone
        <3>1. Counted(HostedBy(u))' = Counted(HostedBy(u))
            BY <1>4, <2>2 DEF CountsNone, Counted, HostedBy, HostOf
        <3>2. QED
            BY <2>1, <2>2, <3>1 DEF CountsNone, stayVars
    <2>3. ASSUME NEW c \in Bookings, CountsOne(c)
          PROVE  hostedStays'[u] = Cardinality(Counted(HostedBy(u))')
        <3>1. hostedStays' = [hostedStays EXCEPT ![HostOf(c)] = @ + 1]
            BY <2>3 DEF CountsOne, IncrementHostedStays
        <3>2. c \in HostedBy(u) <=> HostOf(c) = u
            BY DEF HostedBy
        <3>3. /\ Cardinality(Counted(HostedBy(u))) \in Nat
              /\ Cardinality(Counted(HostedBy(u))')
                     = Cardinality(Counted(HostedBy(u))) + (IF HostOf(c) = u THEN 1 ELSE 0)
            BY <1>4, <2>1, <2>3, <3>2, CountedAdds DEF HostedBy, Counted, HostOf
        <3>4. QED
            BY <1>1, <2>1, <3>1, <3>3
    <2>4. QED
        BY <2>2, <2>3 DEF CountStep
<1>5. QED
    BY <1>3, <1>4 DEF StaysCountedOnce, BookedBy, HostedBy, Counted, HostOf

(* A booking that is not over is not counted by moving on. *)
LEMMA MovesOnUncounted ==
    ASSUME TypeOK, UNCHANGED <<stayVars, disputeState>>, NEW c \in Bookings,
           NEW t \in Statuses \ {"Released", "DisputeResolved"},
           status[c] \notin {"Released", "DisputeResolved"},
           status' = [status EXCEPT ![c] = t]
    PROVE  CountStep
BY DEF TypeOK, EscrowTypeOK, Regular, CountStep, CountsNone, StayCounted

LEMMA BookingNextCounts ==
    ASSUME TypeOK, NEW c \in Bookings, BookingNext(c)
    PROVE  CountStep
<1>1. UNCHANGED disputeState
    BY DEF BookingNext, disputeVars, accountVars
<1>2. UNCHANGED stayVars
    BY DEF BookingNext, CreateBooking, CreateBookingCrossYear, FundBooking, HostAcceptBooking,
           HostRejectBooking, HostRejectBookingCrossYear, RefundAndClose, GuestCancelBooking,
           GuestCancelBookingCrossYear, HostCancelBooking, HostCancelBookingCrossYear,
           GuestCancel, HostCancel, BookingStarts, GuestReviews, HostReviews, coreVars
<1>3. CASE \E score \in ReviewScores : GuestReviews(c, score) \/ HostReviews(c, score)
    BY <1>1, <1>2, <1>3
       DEF GuestReviews, HostReviews, Regular, CountStep, CountsNone, StayCounted
<1>4. CASE ~\E score \in ReviewScores : GuestReviews(c, score) \/ HostReviews(c, score)
    <2>1. /\ status[c] \in {"None", "Pending", "HostAccepted"}
          /\ \E t \in {"None", "Pending", "HostAccepted", "Active", "Cancelled"} :
                status' = [status EXCEPT ![c] = t]
        BY <1>4
           DEF BookingNext, CreateBooking, CreateBookingCrossYear, FundBooking,
               CreateBookingAccounts, HostAcceptBooking, HostAcceptBookingAccounts,
               HostRejectBooking, HostRejectBookingCrossYear, HostRejectBookingAccounts,
               RefundAndClose, CloseBooking, GuestCancelBooking, GuestCancelBookingCrossYear,
               HostCancelBooking, HostCancelBookingCrossYear, GuestCancel, HostCancel,
               CancelBookingAccounts, BookingStarts, BookingStartsAccounts
    <2>2. QED
        BY <1>1, <1>2, <2>1, MovesOnUncounted DEF Statuses
<1>5. QED
    BY <1>3, <1>4

LEMMA SettlesUncounted ==
    ASSUME Custodial, NEW c \in Bookings, NEW t, NEW e, Settles(c, t, e),
           UNCHANGED stayVars, status[c] = "DisputeResolved" => e # "None"
    PROVE  CountStep
<1>1. /\ status \in [Bookings -> Statuses] /\ disputeState \in [Bookings -> DisputeStates]
      /\ status' = [status EXCEPT ![c] = t]
      /\ disputeState' = [disputeState EXCEPT ![c] = e]
      /\ Decides(status[c], disputeState[c], t, e)
    BY DEF Custodial, TypeOK, EscrowTypeOK, DisputesTypeOK, Settles, Takes
<1>2. \A b \in Bookings : StayCounted(b)' <=> StayCounted(b)
    BY <1>1 DEF StayCounted, Decides, Disputable
<1>3. QED
    BY <1>2 DEF Regular, CountStep, CountsNone

LEMMA CrossesUncounted ==
    ASSUME Custodial, NEW d \in Bookings, NEW b \in Bookings, Crosses(d, b), UNCHANGED stayVars
    PROVE  CountStep
<1>1. /\ status \in [Bookings -> Statuses] /\ disputeState \in [Bookings -> DisputeStates]
      /\ status' = [status EXCEPT ![b] = originalStatus[d]]
      /\ disputeState[d] = "OpenP2P"
      /\ disputeState' = [disputeState EXCEPT ![d] = "ResolvedByP2P"]
      /\ b \in strayed'
    BY DEF Custodial, TypeOK, EscrowTypeOK, DisputesTypeOK, Crosses
<1>2. \A c \in Regular' : StayCounted(c)' <=> StayCounted(c)
    BY <1>1 DEF Regular, StayCounted
<1>3. QED
    BY <1>2 DEF CountStep, CountsNone

LEMMA CrankNextCounts ==
    ASSUME Custodial, NEW c \in Bookings, CrankNext(c)
    PROVE  CountStep
<1>1. /\ TypeOK
      /\ status \in [Bookings -> Statuses]
      /\ disputeState \in [Bookings -> DisputeStates]
    BY DEF Custodial, TypeOK, EscrowTypeOK, DisputesTypeOK
<1>2. CASE Expire(c)
    <2>1. /\ UNCHANGED <<stayVars, disputeState>>
          /\ status[c] = "Pending"
          /\ status' = [status EXCEPT ![c] = "None"]
        BY <1>2
           DEF Expire, ExpireBooking, ExpireBookingCrossYear, ExpireBookingAccounts,
               RefundAndClose, CloseBooking, coreVars, disputeVars, accountVars
    <2>2. QED
        BY <1>1, <2>1, MovesOnUncounted DEF Statuses
<1>3. CASE Complete(c)
    <2>1. /\ UNCHANGED <<stayVars, disputeState>>
          /\ status[c] = "Active"
          /\ status' = [status EXCEPT ![c] = "Completed"]
        BY <1>3
           DEF Complete, BookingCompletes, BookingCompletesAccounts, coreVars, disputeVars,
               accountVars
    <2>2. QED
        BY <1>1, <2>1, MovesOnUncounted DEF Statuses
<1>4. CASE PayOut(c)
    <2>1. /\ UNCHANGED disputeState
          /\ status[c] = "Completed"
          /\ status' = [status EXCEPT ![c] = "Released"]
          /\ IncrementCompletedStays(Guest[c])
          /\ IncrementHostedStays(HostOf(c))
        BY <1>4 DEF PayOut, ReleaseFunds, ReleaseFundsAccounts, disputeVars, accountVars
    <2>2. CountsOne(c)
        BY <1>1, <2>1 DEF CountsOne, Regular, StayCounted
    <2>3. QED
        BY <2>2 DEF CountStep
<1>5. CASE EscalateDispute(c)
    <2>1. UNCHANGED stayVars
        BY <1>5 DEF EscalateDispute, coreVars
    <2>2. QED
        BY <1>5, <2>1, EscalateDisputeSettles, SettlesUncounted
<1>6. CASE CloseDispute(c)
    <2>1. CASE status[c] # "Disputed" /\ disputeState[c] = "ResolvedByAdmin"
        <3>1. /\ UNCHANGED <<status, strayed>>
              /\ IncrementCompletedStays(Guest[c])
              /\ IncrementHostedStays(HostOf(c))
              /\ disputeState' = [disputeState EXCEPT ![c] = "None"]
            BY <1>6, <2>1
               DEF CloseDispute, CloseDisputeAccount, SettleDisputedStay, CountStay, historyVars
        <3>2. c \in Regular' => status[c] = "DisputeResolved"
            BY <2>1, <3>1
               DEF Custodial, DisputeCoupled, Fits, Coupled, Stranded, Regular
        <3>3. CountsOne(c)
            BY <1>1, <2>1, <3>1, <3>2 DEF CountsOne, Regular, StayCounted
        <3>4. QED
            BY <3>3 DEF CountStep
    <2>2. CASE status[c] = "Disputed" \/ disputeState[c] # "ResolvedByAdmin"
        <3>1. UNCHANGED stayVars
            BY <1>6, <2>2 DEF CloseDispute, SettleDisputedStay
        <3>2. status[c] # "DisputeResolved"
            BY <1>6, <2>2, ResolvedCloses
        <3>3. QED
            BY <1>6, <3>1, <3>2, CloseDisputeSettles, SettlesUncounted
    <2>3. QED
        BY <2>1, <2>2
<1>7. QED
    BY <1>2, <1>3, <1>4, <1>5, <1>6 DEF CrankNext

LEMMA DisputeNextCounts ==
    ASSUME Custodial, NEW c \in Bookings, DisputeNext(c)
    PROVE  CountStep
<1>1. UNCHANGED stayVars
    BY DEF DisputeNext, OpenDispute, SolveDisputeBeforeAdmin, ResolveDispute, ExecuteJudgement,
           coreVars
<1>2. \/ \E d \in Bookings : \E t : \E e \in {"OpenP2P", "ResolvedByP2P", "ResolvedByAdmin"} :
             Settles(d, t, e)
      \/ \E d, b \in Bookings : Crosses(d, b)
    BY OpenDisputeSettles, SolveDisputeSettles, ResolveDisputeSettles DEF DisputeNext
<1>3. QED
    BY <1>1, <1>2, SettlesUncounted, CrossesUncounted

LEMMA NextCounts ==
    ASSUME Custodial, [Next]_vars
    PROVE  CountStep
<1>1. CASE Tick \/ CoreNext \/ GuaranteeNext \/ AdminNext \/ UNCHANGED vars
    <2>1. UNCHANGED <<stayVars, status, disputeState>>
        BY <1>1
           DEF Tick, CoreNext, GuaranteeNext, TreasuryNext, DepositGuarantee, WithdrawGuarantee,
               AdminNext, AddAdmin, DeleteAdmin, vars, coreVars, escrowVars, disputeVars,
               accountVars
    <2>2. QED
        BY <2>1 DEF Regular, CountStep, CountsNone, StayCounted
<1>2. ASSUME NEW c \in Bookings, CrankNext(c) \/ BookingNext(c) \/ DisputeNext(c)
      PROVE  CountStep
    BY <1>2, CrankNextCounts, BookingNextCounts, DisputeNextCounts DEF Custodial
<1>3. QED
    BY <1>1, <1>2 DEF Next, PartyNext

(* Every stay is counted once for its guest and once for its host, by
   release_funds or by close_dispute but never by both, for any finite set of
   bookings; for a user none of whose stays was restored with another one's
   dispute (StaysCountedOnce). *)
THEOREM StaysAlwaysCountedOnce ==
    ASSUME IsFiniteSet(Bookings)
    PROVE  Spec => []StaysCountedOnce
<1>1. Init => StaysCountedOnce
    <2> SUFFICES ASSUME Init, NEW u \in Users
                 PROVE  /\ completedStays[u] = Cardinality(Counted(BookedBy(u)))
                        /\ hostedStays[u] = Cardinality(Counted(HostedBy(u)))
        BY CountedSpread
    <2>1. Counted(BookedBy(u)) = {} /\ Counted(HostedBy(u)) = {}
        BY DEF Init, EscrowInit, Counted, BookedBy, HostedBy, StayCounted
    <2>2. completedStays[u] = 0 /\ hostedStays[u] = 0
        BY DEF Init, CoreInit
    <2>3. QED
        BY <2>1, <2>2, FS_EmptySet
<1>2. Custodial /\ StaysCountedOnce /\ [Next]_vars => StaysCountedOnce'
    BY NextStrayed, NextCounts, CountStepCounts DEF Custodial
<1>3. Spec => []Custodial
    BY AlwaysCustodial
<1>4. QED
    BY <1>1, <1>2, <1>3, PTL DEF Spec

-----------------------------------------------------------------------------
(* The vault and the record.  Every change of a record moves the vault by as
   much, but for a verdict, and a verdict leaves an infraction for ever. *)
Faultless == \A u \in Users, s \in Severities : infractions[u][s] = 0

RecordKept == SumFunction(deposited') - vault' = SumFunction(deposited) - vault

LEMMA EntrySum ==
    ASSUME NEW S, IsFiniteSet(S), NEW e \in [S -> Nat], NEW b \in S, NEW z \in Int
    PROVE  SumFunction([e EXCEPT ![b] = z]) = SumFunction(e) + (z - e[b])
<1> DEFINE d == [e EXCEPT ![b] = z]
<1>1. /\ DOMAIN d = S /\ DOMAIN e = S
      /\ d[b] = z
      /\ \A c \in S \ {b} : d[c] = e[c]
      /\ \A c \in S : d[c] \in Int /\ e[c] \in Int
    OBVIOUS
<1> HIDE DEF d
<1>2. SumFunctionOnSet(d, S) = SumFunctionOnSet(e, S) + (d[b] - e[b])
    BY <1>1, SumChanged
<1>3. SumFunction(d) = SumFunction(e) + (z - e[b])
    BY <1>1, <1>2 DEF SumFunction
<1>4. QED
    BY <1>3 DEF d

LEMMA DepositSum ==
    ASSUME TypeOK, IsFiniteSet(Users), NEW u \in Users, NEW x \in Int,
           deposited' = [deposited EXCEPT ![u] = x]
    PROVE  SumFunction(deposited') = SumFunction(deposited) + (x - deposited[u])
<1>1. deposited \in [Users -> Nat]
    BY DEF TypeOK, CoreTypeOK
<1>2. QED
    BY <1>1, EntrySum

LEMMA RecordType ==
    ASSUME TypeOK, IsFiniteSet(Users)
    PROVE  SumFunction(deposited) \in Int
<1>1. DOMAIN deposited = Users /\ \A u \in Users : deposited[u] \in Int
    BY DEF TypeOK, CoreTypeOK
<1>2. QED
    BY <1>1, SumType DEF SumFunction

LEMMA RecordLeft ==
    ASSUME UNCHANGED <<deposited, vault>>
    PROVE  RecordKept
BY DEF RecordKept

(* A record goes down by what the vault pays, as long as it holds so much. *)
LEMMA DecreaseSum ==
    ASSUME TypeOK, IsFiniteSet(Users), NEW u \in Users,
           NEW amount \in Nat, amount <= deposited[u], DecreaseDeposit(u, amount),
           vault' = vault - amount
    PROVE  RecordKept
<1>1. deposited[u] \in Nat /\ vault \in Nat /\ SumFunction(deposited) \in Int
    BY RecordType DEF TypeOK, CoreTypeOK, TreasuryTypeOK
<1>2. deposited' = [deposited EXCEPT ![u] = deposited[u] - amount]
    BY <1>1 DEF DecreaseDeposit, SaturatingSub
<1>3. PICK x \in Int : x = deposited[u] - amount
    BY <1>1
<1>4. SumFunction(deposited') = SumFunction(deposited) + (x - deposited[u])
    BY <1>2, <1>3, DepositSum
<1>5. QED
    BY <1>1, <1>3, <1>4 DEF RecordKept

LEMMA DepositRecord ==
    ASSUME TypeOK, IsFiniteSet(Users), NEW u \in Users,
           NEW amount \in Amounts, DepositGuarantee(u, amount) \/ WithdrawGuarantee(u, amount)
    PROVE  RecordKept
<1>1. /\ amount \in Nat /\ deposited[u] \in Nat /\ vault \in Nat
      /\ SumFunction(deposited) \in Int
    BY RecordType, TreasuryAssumption DEF TypeOK, CoreTypeOK, TreasuryTypeOK
<1>2. CASE DepositGuarantee(u, amount)
    <2>1. PICK x \in Int : x = deposited[u] + amount
        BY <1>1
    <2>2. deposited' = [deposited EXCEPT ![u] = x] /\ vault' = vault + amount
        BY <1>2, <2>1 DEF DepositGuarantee, IncreaseDeposit
    <2>3. SumFunction(deposited') = SumFunction(deposited) + (x - deposited[u])
        BY <2>2, DepositSum
    <2>4. QED
        BY <1>1, <2>1, <2>2, <2>3 DEF RecordKept
<1>3. CASE WithdrawGuarantee(u, amount)
    BY <1>1, <1>3, DecreaseSum DEF WithdrawGuarantee
<1>4. QED
    BY <1>2, <1>3

(* A late cancellation strikes a tenth of the host's deposit, so no more than
   the record holds: the subtraction never saturates. *)
LEMMA HostCancelRecord ==
    ASSUME TypeOK, IsFiniteSet(Users), NEW b \in Bookings, HostCancel(b)
    PROVE  RecordKept
<1>1. HostOf(b) \in Users /\ deposited[HostOf(b)] \in Nat
    BY PartyIsUser DEF TypeOK, CoreTypeOK
<1>2. PICK slash \in Nat : slash = HostSlash(b) /\ slash <= deposited[HostOf(b)]
    BY <1>1, HostSlashNat, PercentBounds DEF HostSlash, HOST_CANCELLATION_PENALTY_PERCENTAGE
<1>3. SlashHost(b, slash)
    BY <1>2 DEF HostCancel
<1>4. CASE slash > 0
    BY <1>1, <1>2, <1>3, <1>4, DecreaseSum DEF SlashHost, PenalizeTransfer
<1>5. CASE ~(slash > 0)
    BY <1>3, <1>5, RecordLeft DEF SlashHost
<1>6. QED
    BY <1>4, <1>5

(* A verdict that finds a fault leaves an infraction. *)
LEMMA JudgementLeavesFault ==
    ASSUME TypeOK, NEW b \in Bookings, NEW outcome \in Outcomes,
           outcome.kind # "NoFaultFound", ExecuteJudgement(b, outcome)
    PROVE  ~Faultless'
<1> DEFINE u == Judgement(b, outcome).guilty
           s == outcome.severity
<1>1. u \in Users /\ s \in Severities
    BY JudgementType, FaultType
<1>2. infractions' = [infractions EXCEPT ![u][s] = @ + 1]
    BY DEF ExecuteJudgement, AddInfraction
<1> HIDE DEF u, s
<1>3. infractions \in [Users -> [Severities -> Nat]]
    BY DEF TypeOK, CoreTypeOK
<1>4. infractions'[u][s] = infractions[u][s] + 1
    BY <1>1, <1>2, <1>3
<1>5. infractions'[u][s] # 0
    BY <1>1, <1>3, <1>4
<1>6. QED
    BY <1>1, <1>5 DEF Faultless

LEMMA NextKeepsRecord ==
    ASSUME TypeOK, IsFiniteSet(Users), [Next]_vars
    PROVE  ~Faultless' \/ (RecordKept /\ infractions' = infractions)
<1>1. ASSUME NEW b \in Bookings, BookingNext(b)
      PROVE  RecordKept /\ infractions' = infractions
    <2>1. CASE \/ HostCancelBooking(b) \/ HostCancelBookingCrossYear(b)
        BY <2>1, HostCancelRecord
           DEF HostCancelBooking, HostCancelBookingCrossYear, HostCancel
    <2>2. CASE \/ \E out \in CheckOuts, price \in Prices :
                      CreateBooking(b, out, price) \/ CreateBookingCrossYear(b, out, price)
               \/ HostAcceptBooking(b)
               \/ HostRejectBooking(b)
               \/ HostRejectBookingCrossYear(b)
        BY <2>2, RecordLeft
           DEF CreateBooking, CreateBookingCrossYear, FundBooking, HostAcceptBooking,
               HostRejectBooking, HostRejectBookingCrossYear, RefundAndClose, coreVars,
               reputationVars, treasuryVars
    <2>3. CASE \/ GuestCancelBooking(b)
               \/ GuestCancelBookingCrossYear(b)
               \/ \E hostProfile \in Users : BookingStarts(b, hostProfile)
               \/ \E score \in ReviewScores : GuestReviews(b, score) \/ HostReviews(b, score)
        BY <2>3, RecordLeft
           DEF GuestCancelBooking, GuestCancelBookingCrossYear, GuestCancel, BookingStarts,
               GuestReviews, HostReviews, reputationVars, treasuryVars
    <2>4. QED
        BY <1>1, <2>1, <2>2, <2>3 DEF BookingNext
<1>2. ASSUME NEW b \in Bookings, CrankNext(b)
      PROVE  RecordKept /\ infractions' = infractions
    BY <1>2, RecordLeft
       DEF CrankNext, Expire, ExpireBooking, ExpireBookingCrossYear, RefundAndClose, Complete,
           BookingCompletes, PayOut, ReleaseFunds, EscalateDispute, CloseDispute, coreVars,
           reputationVars, treasuryVars
<1>3. ASSUME NEW b \in Bookings, DisputeNext(b)
      PROVE  ~Faultless' \/ (RecordKept /\ infractions' = infractions)
    BY <1>3, JudgementLeavesFault, RecordLeft
       DEF DisputeNext, OpenDispute, SolveDisputeBeforeAdmin, ResolveDispute, coreVars,
           reputationVars, treasuryVars
<1>4. CASE GuaranteeNext
    BY <1>4, DepositRecord
       DEF GuaranteeNext, TreasuryNext, DepositGuarantee, WithdrawGuarantee, reputationVars
<1>5. CASE Tick \/ CoreNext \/ AdminNext \/ UNCHANGED vars
    BY <1>5, RecordLeft
       DEF Tick, CoreNext, AdminNext, AddAdmin, DeleteAdmin, vars, coreVars, reputationVars,
           treasuryVars
<1>6. QED
    BY <1>1, <1>2, <1>3, <1>4, <1>5 DEF Next, PartyNext

(* The vault holds exactly what the profiles record until a verdict finds a
   fault, for every deposit, withdrawal and rounded penalty of a host who
   cancels late: it is resolve_dispute alone, paying the deposit less the
   slash while the record loses the slash, that parts the two. *)
THEOREM VaultAlwaysMatches ==
    ASSUME IsFiniteSet(Users)
    PROVE  Spec => []VaultMatchesDeposits
<1>1. Init => VaultMatchesDeposits
    <2>1. SUFFICES ASSUME Init PROVE vault = SumFunction(deposited)
        BY DEF VaultMatchesDeposits
    <2>2. vault = 0 /\ DOMAIN deposited = Users /\ \A u \in Users : deposited[u] = 0
        BY <2>1 DEF Init, CoreInit, TreasuryInit
    <2>3. QED
        BY <2>2, SumZero DEF SumFunction
<1>2. TypeOK /\ VaultMatchesDeposits /\ [Next]_vars => VaultMatchesDeposits'
    <2>1. SUFFICES ASSUME TypeOK, VaultMatchesDeposits, [Next]_vars, Faultless'
                   PROVE  vault' = SumFunction(deposited')
        BY DEF VaultMatchesDeposits, Faultless
    <2>2. RecordKept /\ infractions' = infractions
        BY <2>1, NextKeepsRecord
    <2>3. vault = SumFunction(deposited)
        BY <2>1, <2>2 DEF Faultless, VaultMatchesDeposits
    <2>4. vault \in Int /\ vault' \in Int /\ SumFunction(deposited') \in Int
        <3>1. TypeOK'
            BY <2>1, NextTypeOK
        <3>2. /\ DOMAIN deposited' = Users /\ \A u \in Users : deposited'[u] \in Int
              /\ vault \in Int /\ vault' \in Int
            BY <2>1, <3>1 DEF TypeOK, CoreTypeOK, TreasuryTypeOK
        <3>3. QED
            BY <3>2, SumType DEF SumFunction
    <2>5. QED
        BY <2>2, <2>3, <2>4 DEF RecordKept
<1>3. QED
    BY <1>1, <1>2, TypeCorrect, PTL DEF Spec

-----------------------------------------------------------------------------
(* What the reviews of some bookings count and total. *)
Tally(f, S) == [count |-> Cardinality({b \in S : f[b] # 0}), total |-> SumFunctionOnSet(f, S)]

LEMMA TallyZero ==
    ASSUME NEW S, IsFiniteSet(S), NEW f, \A b \in S : f[b] = 0
    PROVE  Tally(f, S) = [count |-> 0, total |-> 0]
<1>1. {b \in S : f[b] # 0} = {}
    OBVIOUS
<1>2. Cardinality({b \in S : f[b] # 0}) = 0
    BY <1>1, FS_EmptySet
<1>3. SumFunctionOnSet(f, S) = 0
    BY SumZero
<1>4. QED
    BY <1>2, <1>3 DEF Tally

LEMMA TallySame ==
    ASSUME NEW S, IsFiniteSet(S), NEW f, NEW g, \A b \in S : g[b] = f[b]
    PROVE  Tally(g, S) = Tally(f, S)
<1>1. {b \in S : g[b] # 0} = {b \in S : f[b] # 0}
    OBVIOUS
<1>2. SumFunctionOnSet(g, S) = SumFunctionOnSet(f, S)
    BY SumSame
<1>3. QED
    BY <1>1, <1>2 DEF Tally

LEMMA TallyAdds ==
    ASSUME NEW S, IsFiniteSet(S), NEW f, NEW g, NEW b \in S, NEW score \in Scores,
           \A c \in S : f[c] \in Int /\ g[c] \in Int,
           f[b] = 0, g[b] = score, \A c \in S \ {b} : g[c] = f[c]
    PROVE  Tally(g, S) = AddScore(Tally(f, S), score)
<1>1. score \in Int /\ score # 0
    BY DEF Scores
<1>2. SumFunctionOnSet(g, S) = SumFunctionOnSet(f, S) + (g[b] - f[b])
    BY Z3, SumChanged
<1>3. SumFunctionOnSet(g, S) = SumFunctionOnSet(f, S) + score
    <2>1. SumFunctionOnSet(f, S) \in Int
        BY SumType
    <2>2. QED
        BY <1>1, <1>2, <2>1
<1> DEFINE before == {c \in S : f[c] # 0}
           after  == {c \in S : g[c] # 0}
<1>4. after = before \cup {b} /\ b \notin before /\ IsFiniteSet(before)
    BY <1>1, FS_Subset
<1>5. Cardinality(after) = Cardinality(before) + 1
    BY <1>4, FS_AddElement
<1> HIDE DEF before, after
<1>6. /\ Tally(f, S) = [count |-> Cardinality(before), total |-> SumFunctionOnSet(f, S)]
      /\ Tally(g, S) = [count |-> Cardinality(after), total |-> SumFunctionOnSet(g, S)]
    BY DEF Tally, before, after
<1>7. QED
    BY <1>5, <1>3, <1>6 DEF AddScore

LEMMA TallyReviewed ==
    ASSUME NEW S, IsFiniteSet(S), NEW f, NEW g, NEW score \in Scores, NEW b,
           \A c \in S : f[c] \in Int /\ g[c] \in Int,
           f[b] = 0, g[b] = score, \A c \in S \ {b} : g[c] = f[c]
    PROVE  Tally(g, S) = IF b \in S THEN AddScore(Tally(f, S), score) ELSE Tally(f, S)
<1>1. CASE b \in S
    BY <1>1, TallyAdds
<1>2. CASE b \notin S
    <2>1. \A c \in S : g[c] = f[c]
        BY <1>2
    <2>2. QED
        BY <1>2, <2>1, TallySame
<1>3. QED
    BY <1>1, <1>2

LEMMA ReviewTallied ==
    ASSUME NEW S \in SUBSET Bookings, IsFiniteSet(S), NEW f \in [Bookings -> {0} \cup Scores],
           NEW score \in Scores, NEW b \in Bookings, f[b] = 0
    PROVE  Tally([f EXCEPT ![b] = score], S)
               = IF b \in S THEN AddScore(Tally(f, S), score) ELSE Tally(f, S)
<1> DEFINE g == [f EXCEPT ![b] = score]
<1>1. /\ g[b] = score
      /\ \A c \in S : f[c] \in Int /\ g[c] \in Int
      /\ \A c \in S \ {b} : g[c] = f[c]
    BY DEF Scores
<1> HIDE DEF g
<1>2. QED
    BY <1>1, TallyReviewed DEF g

(* The bookings whose reviews are counted for a host, a guest and a listing. *)
StaysAt(p)  == {b \in Bookings : PropertyOf[b] = p}

Tallied ==
    /\ \A u \in Users : /\ hostScore[u] = Tally(guestReview, HostedBy(u))
                        /\ clientScore[u] = Tally(hostReview, BookedBy(u))
    /\ \A p \in Properties : listingScore[p] = Tally(guestReview, StaysAt(p))

LEMMA TalliedIs == ReviewsTally <=> Tallied
BY DEF ReviewsTally, Tallied, Tally, HostedBy, BookedBy, StaysAt

LEMMA PartsFinite ==
    ASSUME IsFiniteSet(Bookings)
    PROVE  /\ \A u : /\ HostedBy(u) \in SUBSET Bookings /\ IsFiniteSet(HostedBy(u))
                     /\ BookedBy(u) \in SUBSET Bookings /\ IsFiniteSet(BookedBy(u))
           /\ \A p : StaysAt(p) \in SUBSET Bookings /\ IsFiniteSet(StaysAt(p))
BY FS_Subset DEF HostedBy, BookedBy, StaysAt

LEMMA GuestReviewTallied ==
    ASSUME TypeOK, IsFiniteSet(Bookings), Tallied, NEW b \in Bookings,
           NEW score \in ReviewScores, GuestReviews(b, score)
    PROVE  Tallied'
<1>1. /\ guestReview \in [Bookings -> {0} \cup Scores] /\ score \in Scores
      /\ guestReview[b] = 0
      /\ guestReview' = [guestReview EXCEPT ![b] = score]
    BY EscrowAssumption DEF TypeOK, EscrowTypeOK, GuestReviews, GuestReviewAccounts
<1>2. ASSUME NEW S \in SUBSET Bookings, IsFiniteSet(S)
      PROVE  Tally(guestReview', S)
                 = IF b \in S THEN AddScore(Tally(guestReview, S), score) ELSE Tally(guestReview, S)
    BY <1>1, <1>2, ReviewTallied
<1>3. ASSUME NEW u \in Users
      PROVE  hostScore'[u] = Tally(guestReview', HostedBy(u))
    <2>1. hostScore'[u] = IF b \in HostedBy(u) THEN AddScore(hostScore[u], score) ELSE hostScore[u]
        BY PartyIsUser DEF GuestReviews, UpdateHostReview, HostedBy, TypeOK, CoreTypeOK
    <2>2. QED
        BY <1>2, <2>1, PartsFinite DEF Tallied
<1>4. ASSUME NEW p \in Properties
      PROVE  listingScore'[p] = Tally(guestReview', StaysAt(p))
    <2>1. listingScore'[p]
              = IF b \in StaysAt(p) THEN AddScore(listingScore[p], score) ELSE listingScore[p]
        BY EscrowAssumption DEF GuestReviews, StaysAt, TypeOK, EscrowTypeOK
    <2>2. QED
        BY <1>2, <2>1, PartsFinite DEF Tallied
<1>5. hostReview' = hostReview /\ clientScore' = clientScore
    BY DEF GuestReviews
<1>6. QED
    BY <1>3, <1>4, <1>5 DEF Tallied, HostedBy, BookedBy, StaysAt

LEMMA HostReviewTallied ==
    ASSUME TypeOK, IsFiniteSet(Bookings), Tallied, NEW b \in Bookings,
           NEW score \in ReviewScores, HostReviews(b, score)
    PROVE  Tallied'
<1>1. /\ hostReview \in [Bookings -> {0} \cup Scores] /\ score \in Scores
      /\ hostReview[b] = 0
      /\ hostReview' = [hostReview EXCEPT ![b] = score]
    BY EscrowAssumption DEF TypeOK, EscrowTypeOK, HostReviews, HostReviewAccounts
<1>2. ASSUME NEW S \in SUBSET Bookings, IsFiniteSet(S)
      PROVE  Tally(hostReview', S)
                 = IF b \in S THEN AddScore(Tally(hostReview, S), score) ELSE Tally(hostReview, S)
    BY <1>1, <1>2, ReviewTallied
<1>3. ASSUME NEW u \in Users
      PROVE  clientScore'[u] = Tally(hostReview', BookedBy(u))
    <2>1. clientScore'[u]
              = IF b \in BookedBy(u) THEN AddScore(clientScore[u], score) ELSE clientScore[u]
        BY PartyIsUser DEF HostReviews, UpdateClientReview, BookedBy, TypeOK, CoreTypeOK
    <2>2. QED
        BY <1>2, <2>1, PartsFinite DEF Tallied
<1>4. guestReview' = guestReview /\ hostScore' = hostScore /\ listingScore' = listingScore
    BY DEF HostReviews
<1>5. QED
    BY <1>3, <1>4 DEF Tallied, HostedBy, BookedBy, StaysAt

LEMMA ScoresLeft ==
    ASSUME Tallied, UNCHANGED <<scoreVars, reviewVars>>
    PROVE  Tallied'
BY DEF Tallied, scoreVars, reviewVars, HostedBy, BookedBy, StaysAt, Tally, HostOf

LEMMA NextTallied ==
    ASSUME TypeOK, IsFiniteSet(Bookings), Tallied, [Next]_vars
    PROVE  Tallied'
<1>1. ASSUME NEW b \in Bookings, BookingNext(b)
      PROVE  Tallied'
    <2>1. CASE \E score \in ReviewScores : GuestReviews(b, score) \/ HostReviews(b, score)
        BY <2>1, GuestReviewTallied, HostReviewTallied
    <2>2. CASE \/ \E out \in CheckOuts, price \in Prices :
                      CreateBooking(b, out, price) \/ CreateBookingCrossYear(b, out, price)
               \/ HostAcceptBooking(b)
               \/ HostRejectBooking(b)
               \/ HostRejectBookingCrossYear(b)
        BY <2>2, ScoresLeft
           DEF CreateBooking, CreateBookingCrossYear, FundBooking, HostAcceptBooking,
               HostRejectBooking, HostRejectBookingCrossYear, RefundAndClose, coreVars
    <2>3. CASE \/ GuestCancelBooking(b) \/ GuestCancelBookingCrossYear(b)
               \/ HostCancelBooking(b) \/ HostCancelBookingCrossYear(b)
               \/ \E hostProfile \in Users : BookingStarts(b, hostProfile)
        BY <2>3, ScoresLeft
           DEF GuestCancelBooking, GuestCancelBookingCrossYear, GuestCancel, HostCancelBooking,
               HostCancelBookingCrossYear, HostCancel, BookingStarts
    <2>4. QED
        BY <1>1, <2>1, <2>2, <2>3 DEF BookingNext
<1>2. ASSUME NEW b \in Bookings, CrankNext(b)
      PROVE  Tallied'
    BY <1>2, ScoresLeft
       DEF CrankNext, Expire, ExpireBooking, ExpireBookingCrossYear, RefundAndClose, Complete,
           BookingCompletes, PayOut, ReleaseFunds, EscalateDispute, CloseDispute, coreVars,
           escrowVars
<1>3. ASSUME NEW b \in Bookings, DisputeNext(b)
      PROVE  Tallied'
    BY <1>3, ScoresLeft
       DEF DisputeNext, OpenDispute, SolveDisputeBeforeAdmin, ResolveDispute, ExecuteJudgement,
           coreVars, escrowVars
<1>4. CASE GuaranteeNext \/ Tick \/ CoreNext \/ AdminNext \/ UNCHANGED vars
    BY <1>4, ScoresLeft
       DEF GuaranteeNext, TreasuryNext, DepositGuarantee, WithdrawGuarantee, Tick, CoreNext,
           LinkIdentity, AdminNext, AddAdmin, DeleteAdmin, vars, coreVars, escrowVars
<1>5. QED
    BY <1>1, <1>2, <1>3, <1>4 DEF Next, PartyNext

(* What profiles and listings total is what the bookings record, through any
   dispute, restoration and verdict between the stay and its reviews: the
   reviews of a booking outlive every change of its status and are never
   given twice, so none is counted twice or lost. *)
THEOREM ReviewsAlwaysTally ==
    ASSUME IsFiniteSet(Bookings)
    PROVE  Spec => []ReviewsTally
<1>1. Init => Tallied
    <2>1. SUFFICES ASSUME Init PROVE Tallied
        OBVIOUS
    <2>2. \A b \in Bookings : guestReview[b] = 0 /\ hostReview[b] = 0
        BY <2>1 DEF Init, EscrowInit
    <2>3. ASSUME NEW S \in SUBSET Bookings, IsFiniteSet(S)
          PROVE  /\ Tally(guestReview, S) = [count |-> 0, total |-> 0]
                 /\ Tally(hostReview, S) = [count |-> 0, total |-> 0]
        BY <2>2, <2>3, TallyZero
    <2>4. /\ \A u \in Users : /\ hostScore[u] = [count |-> 0, total |-> 0]
                              /\ clientScore[u] = [count |-> 0, total |-> 0]
          /\ \A p \in Properties : listingScore[p] = [count |-> 0, total |-> 0]
        BY <2>1 DEF Init, CoreInit, EscrowInit
    <2>5. QED
        BY <2>3, <2>4, PartsFinite DEF Tallied
<1>2. TypeOK /\ Tallied /\ [Next]_vars => Tallied'
    BY NextTallied
<1>3. Tallied => ReviewsTally
    BY TalliedIs
<1>4. QED
    BY <1>1, <1>2, <1>3, TypeCorrect, PTL DEF Spec
=============================================================================
