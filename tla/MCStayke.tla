------------------------------ MODULE MCStayke ------------------------------
(***************************************************************************)
(* Small instances of Stayke for TLC.  "h" owns the listings, "g" and "x"  *)
(* are guests.                                                             *)
(***************************************************************************)
EXTENDS StaykeClaims, TLC

CONSTANTS g, h, x, i1, i2, i3, p1, b1, b2, b3

Everyone(f) == [u \in Users |-> f[u]]
AllVerified == Everyone((g :> i1) @@ (h :> i2) @@ (x :> i3))
OnlyHost    == Everyone((g :> NoIdentity) @@ (h :> i2) @@ (x :> NoIdentity))
Wealth      == Everyone((g :> 60) @@ (h :> 20) @@ (x :> 40))
GuestWealth == Everyone((g :> 60) @@ (h :> 0) @@ (x :> 0))
OneOwner    == p1 :> h
OneListing  == [b \in Bookings |-> p1]
Root        == "root" :> 1

(* Years of four days, which stays cross, and years nothing leaves. *)
ShortYears(day) == day \div 4
LongYears(day)  == day \div 20

(* Overlapping requests of two guests for one listing, across a new year. *)
Each(f) == [b \in Bookings |-> f[b]]
CalendarGuests   == Each((b1 :> g) @@ (b2 :> x) @@ (b3 :> x))
CalendarCheckIns == Each((b1 :> 2) @@ (b2 :> 3) @@ (b3 :> 4))

(* Two successive requests of one guest. *)
SameGuest     == [b \in Bookings |-> g]
ShortNotice   == Each((b1 :> 1) @@ (b2 :> 3))
LongNotice    == Each((b1 :> 4) @@ (b2 :> 6))

NoFault == [kind |-> "NoFaultFound"]
Fault(kind, severity) == [kind |-> kind, severity |-> severity]
Acquittal   == {NoFault}
TwoVerdicts == {NoFault, Fault("HostFavored", "Low")}
SomeVerdicts == {NoFault, Fault("GuestFavored", "Medium"), Fault("HostFavored", "Low"),
                 Fault("MaliciousClaim", "Medium")}
=============================================================================
