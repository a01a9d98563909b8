--------------------------- MODULE BookingCustody ---------------------------
(***************************************************************************)
(* What the escrow promises, without saying how: the custody of the money  *)
(* of each booking.  A guest's money is held while the request is open,    *)
(* comes back before the stay, is paid out once after it or is divided by  *)
(* a decision while frozen, and is never held again after that.  One       *)
(* booking changes at a time.  The promise ends for a booking that is      *)
(* restored in the place of another, frozen one, and for no other.         *)
(***************************************************************************)
EXTENDS Naturals

CONSTANT Bookings

VARIABLES
    phase,  \* where the booking's money is
    held    \* how much of it is held

Phases == {"none", "requested", "staying", "frozen", "cancelled", "paid", "decided", "astray"}

Init ==
    /\ phase = [b \in Bookings |-> "none"]
    /\ held = [b \in Bookings |-> 0]

Move(b, from, to) ==
    /\ phase[b] = from
    /\ phase' = [phase EXCEPT ![b] = to]

(* The guest pays in. *)
Fund(b) ==
    /\ Move(b, "none", "requested")
    /\ held'[b] \in Nat
    /\ held' = [held EXCEPT ![b] = held'[b]]

PayAll(b) == held' = [held EXCEPT ![b] = 0]

(* The request is rejected or expires: it may be made again. *)
Return(b) == Move(b, "requested", "none") /\ PayAll(b)

(* The request is cancelled: it may not be made again. *)
Cancel(b) == Move(b, "requested", "cancelled") /\ PayAll(b)

Begin(b) == Move(b, "requested", "staying") /\ UNCHANGED held

Freeze(b) == Move(b, "staying", "frozen") /\ UNCHANGED held

Thaw(b) == Move(b, "frozen", "staying") /\ UNCHANGED held

(* The stay is over. *)
Release(b) == Move(b, "staying", "paid") /\ PayAll(b)

(* An admin decides the dispute. *)
Decide(b) == Move(b, "frozen", "decided") /\ PayAll(b)

(* The dispute of d is withdrawn with another booking, b: whatever b holds is
   no longer accounted for, and d stays frozen unless it is itself astray. *)
Stray(b, d) ==
    /\ b # d
    /\ phase[d] \in {"frozen", "astray"}
    /\ phase[b] \notin {"none", "astray"}
    /\ phase' = [phase EXCEPT ![b] = "astray"]
    /\ PayAll(b)

Next ==
    \E b \in Bookings :
        \/ Fund(b) \/ Return(b) \/ Cancel(b) \/ Begin(b)
        \/ Freeze(b) \/ Thaw(b) \/ Release(b) \/ Decide(b)
        \/ \E d \in Bookings : Stray(b, d)

Spec == Init /\ [][Next]_<<phase, held>>
=============================================================================
