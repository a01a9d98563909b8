----------------------------- MODULE MCClients -----------------------------
(***************************************************************************)
(* A small instance of Clients for TLC.  Of three stays, "old" is under    *)
(* way when the others begin; "plain" and "crossing" have the same guest,  *)
(* host and listing, but "crossing" ends in another year.                  *)
(***************************************************************************)
EXTENDS Clients, TLC

CONSTANTS s1, s2

StayOf(guest, host, checkIn, crossYear) ==
  [guest |-> guest, host |-> host, listingId |-> 1, checkIn |-> checkIn, crossYear |-> crossYear]

ThreeStays ==
  [plain |-> StayOf("g", "h", 1, FALSE), crossing |-> StayOf("g", "h", 3, TRUE),
   old |-> StayOf("x", "y", 2, FALSE)]

SameYear == [t \in 1 .. 3 |-> 2025]
AllOps == UNION {Ops(p) : p \in Programs}
SessionSymmetry == Permutations(Sessions)
=============================================================================
