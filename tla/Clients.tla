------------------------------ MODULE Clients ------------------------------
(***************************************************************************)
(* The callers' sessions with the generated clients, against the account   *)
(* rules of the programs: what a reader of either side takes for granted   *)
(* of the other.                                                           *)
(***************************************************************************)
EXTENDS Callers, ClientSessions

BuilderIn(s) == request[s].builder

\* Defaults the programs do not share: the days of a booking are stored by
\* year, and found by the check-in; a profile is the core program's, and
\* looked for in the treasury's.
DivergentDefaults ==
  {<<"createBooking", "bookingDays">>, <<"createBookingCrossYear", "bookingDays">>,
   <<"depositGuarantee", "userProfile">>, <<"withdrawGuarantee", "userProfile">>}

UsesDivergent(s) ==
  \E d \in DivergentDefaults :
    /\ request[s].op = d[1]
    /\ Original(request[s])[d[2]] = None

InPlace(s) ==
  /\ \A i \in DOMAIN RulesOf(s) : Lives(RulesOf(s)[i], Tx(s).metas[i].address, store)
  /\ WellPlaced(RulesOf(s), Tx(s))

\* The instruction of a caller who made no mistake has the accounts the
\* program demands, unless it was overtaken by another's after he looked, or
\* rests on a default the two sides do not share: those, and no others,
\* never land.
RefusedOnlyIfOvertaken ==
  \A s \in Sessions :
    (Built(s) /\ request[s].honest /\ ~ CpiOnly(BuilderIn(s)) /\ Timely(request[s]))
      => (InPlace(s) <=> ~ UsesDivergent(s))

\* The privileges a client asks for are those the program and the runtime
\* need, but for a plain rejection that another than the fee payer pays for.
PrivilegesSuffice ==
  \A s \in Sessions :
    (Built(s) /\ request[s].honest /\ ~ CpiOnly(BuilderIn(s)))
      => (/\ Signable(Tx(s))
          /\ Privileged(RulesOf(s), Tx(s)))
         <=> ~ (/\ request[s].op = "hostRejectBooking"
                /\ table[s]["payer"] # request[s].feePayer)

\* The entries for other programs are closed to every transaction, also to
\* one that names a program's authority.
EntriesClosed ==
  \A s \in Sessions : Built(s) /\ CpiOnly(BuilderIn(s)) => ~ Acceptable(s)

-----------------------------------------------------------------------------
Parties(booking) == {Data(booking, "guest"), Data(booking, "host")}
Wallets(booking) == {Data(p, "authority") : p \in Parties(booking)}

\* An account that can only belong to one stay belongs to the booking's.
OfStay(booking, a) ==
  CASE Type(a) \in UserProfile -> a \in Parties(booking)
    [] Type(a) \in ReputationProfile -> Seed(a, 2) \in Wallets(booking)
    [] Type(a) \in Listing -> a = Data(booking, "property")
    [] Type(a) \in BookingDays -> Seed(a, 2) = Data(booking, "property")
    [] Type(a) = <<"escrow", "escrow">> -> Seed(a, 2) = booking
    [] Type(a) \in DisputeAccount -> Seed(a, 2) = booking
    [] Type(a) = <<"tokens", "">> -> Seed(a, 1) \in Wallets(booking)
    [] OTHER -> TRUE

\* Accounts the programs leave free: a withdrawn dispute need not be the
\* booking's, nor the host who is there when it starts its host; a verdict
\* without a fault takes any reputation and any token account.
LeftFree ==
  {<<"solveDisputeBeforeAdmin", "dispute">>, <<"bookingStarts", "hostProfile">>,
   <<"resolveWithoutFault", "guiltyReputation">>,
   <<"resolveWithoutFault", "escrowTokenAccount">>}

\* Whatever mix of two stays' accounts a caller gives, a program takes an
\* instruction about a booking only when profiles, reputations, listing,
\* days, money and dispute are all of that booking's stay, but for those
\* accounts.
OneStay ==
  \A s \in Sessions :
    (Acceptable(s) /\ "booking" \in DOMAIN table[s])
      => \A n \in DOMAIN table[s] :
           \/ <<request[s].branch, n>> \in LeftFree
           \/ OfStay(table[s]["booking"], table[s][n])

-----------------------------------------------------------------------------
\* What an indexer makes of an instruction with the package of its program.
Decoded(tx) ==
  LET op == Identifies[tx.program][tx.discriminator]
      names == Parsed[tx.program][op]
  IN [op |-> op,
      accounts |-> [n \in {names[i] : i \in DOMAIN names} |->
                      tx.metas[CHOOSE i \in DOMAIN names : names[i] = n].address]]

\* An instruction is decoded as the one that was asked for, with each account
\* under the name it was given under.
RoundTrip ==
  \A s \in Sessions :
    (Built(s) /\ \A n \in DOMAIN table[s] : table[s][n] # None)
      => Decoded(Tx(s)) = [op |-> request[s].op, accounts |-> table[s]]
=============================================================================
