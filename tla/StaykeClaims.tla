---------------------------- MODULE StaykeClaims ----------------------------
(***************************************************************************)
(* What documents and comments of the repository say of the programs, and  *)
(* the code does not do.  Each claim is refuted by a run of its own.       *)
(***************************************************************************)
EXTENDS Stayke

(* docs/stayke-treasury.guide.md: a guarantee cannot be withdrawn while its
   owner has an active booking.  The slot that is tested names one booking at
   most, and the release of any stay clears it. *)
GuaranteeLocked ==
    [][\A u \in Users, amount \in Amounts :
          WithdrawGuarantee(u, amount) =>
              ~\E b \in Bookings : Guest[b] = u /\ status[b] = "Active"]_vars

(* docs/stayke-disputes.guide.md: the share of the guilty party's deposit
   that a verdict pays to the victim, by severity. *)
DocumentedShare(severity) ==
    CASE severity = "Low"    -> 0
      [] severity = "Medium" -> 3000
      [] severity = "High"   -> 10000

VerdictPaysTable ==
    [][\A a \in Admins, b \in Bookings, outcome \in Outcomes \ {[kind |-> "NoFaultFound"]} :
          ResolveDispute(a, b, outcome) =>
              vault - vault' = BasisPoints(deposited[Judgement(b, outcome).guilty],
                                           DocumentedShare(outcome.severity))]_vars

(* solve_dispute_before_admin: withdrawing a dispute restores the booking it
   was opened for.  Nothing ties the booking passed to the dispute. *)
WithdrawnDisputeRestores ==
    [][\A d \in Bookings :
          disputeState[d] = "OpenP2P" /\ disputeState'[d] = "ResolvedByP2P" =>
              status'[d] = originalStatus[d]]_vars

(* docs/stayke-free-tier.guide.md: booking_starts has no deposit gate, it
   works on bookings that passed it already.  A guest who has since withdrawn
   the deposit, or left the free tier, has a booking that cannot start. *)
AcceptedCanStart ==
    \A b \in Bookings :
        status[b] = "HostAccepted" /\ now >= CheckIn[b] =>
            \E hostProfile \in Users : BookingStartsAccounts(b, hostProfile)
=============================================================================
