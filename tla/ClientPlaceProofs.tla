--------------------------- MODULE ClientPlaceProofs ---------------------------
(***************************************************************************)
(* Where the clients find accounts, and where the programs demand them,    *)
(* for any stays, callers and number of sessions.                          *)
(*                                                                         *)
(* Every account a caller means has a place (MeantAt): an address by the  *)
(* parties of a stay, its listing and its check-in.  Accounts in those     *)
(* places are where every rule of every program demands them, and are what *)
(* every default derives, but for four (the <Program>Seated lemmas; that   *)
(* of the escrow is in ClientHonestProofs).                                *)
(***************************************************************************)
EXTENDS ClientStayProofs

-----------------------------------------------------------------------------
(***************************************************************************)
(* The accounts of a stay, by where they are.                              *)
(***************************************************************************)
GuestOf(stay) == Wallet(Stay[stay].guest)
HostOf(stay) == Wallet(Stay[stay].host)
ActorOf(stay, as) == IF as = "guest" THEN GuestOf(stay) ELSE HostOf(stay)
ArgsOf(stay, as) ==
  [listingId |-> Stay[stay].listingId, checkIn |-> Stay[stay].checkIn, id |-> ActorOf(stay, as)]

Listed(profile, id) == Address("core", <<Lit("listing"), <<"key", profile>>, <<"u16", id>>>>)
Booked(listing, profile, checkIn) ==
  Address("escrow",
          <<Lit("booking"), <<"key", listing>>, <<"key", profile>>, <<"i64", checkIn>>>>)
Occupied(listing, year) ==
  Address("escrow", <<Lit("booking_days"), <<"key", listing>>, <<"u32", year>>>>)
Disputed(booking) == Address("disputes", <<Lit("dispute"), <<"key", booking>>>>)
Identified(id) == Address("core", <<<<"id", id>>, Lit("identity")>>)
Profiled(wallet) == Address("core", <<Lit("user_profile"), <<"key", wallet>>>>)
Reputed(wallet) == Address("core", <<Lit("reputation_profile"), <<"key", wallet>>>>)

ListingOf(stay) == Listed(Profiled(HostOf(stay)), Stay[stay].listingId)
StayBooking(stay) ==
  Booked(ListingOf(stay), Profiled(GuestOf(stay)), Stay[stay].checkIn)

\* The year after a time's.
NextYear(t) == Year[t] + 1

\* What the seeds of a derivation stand for.
LEMMA LitValue ==
  \A T, args, text : SeedValue(Lit(text), T, args) = Lit(text)
BY DEF SeedValue, Lit

LEMMA NameValue ==
  \A T, args, name : SeedValue(<<"name", name>>, T, args) = <<"name", name>>
BY DEF SeedValue

LEMMA KeyValue ==
  \A T, args, n : SeedValue(Key(n), T, args) = <<"key", T[n]>>
BY DEF SeedValue, Key

LEMMA Encoding ==
  /\ \A e \in {"u16", "i64", "id", "key"} : \A v : Encode(e, v) = <<e, v>>
  /\ \A v : Encode("year", v) = <<"u32", Year[v]>>
  /\ \A v : Encode("nextYear", v) = <<"u32", NextYear(v)>>
BY DEF Encode, NextYear

LEMMA ArgValue ==
  \A T, args, e, n : SeedValue(Arg(e, n), T, args) = Encode(e, args[n])
BY DEF SeedValue, Arg

LEMMA FieldValue ==
  \A T, args, e, n, f : SeedValue(Field(e, n, f), T, args) = Encode(e, Data(T[n], f))
BY DEF SeedValue, Field

\* A derivation of one, two, three or four seeds.
LEMMA Derivations ==
  ASSUME NEW T, NEW args, NEW p, p # "held"
  PROVE  /\ \A a : Derive(Derivation(p, <<a>>), T, args) = Address(p, <<SeedValue(a, T, args)>>)
         /\ \A a, b : Derive(Derivation(p, <<a, b>>), T, args)
              = Address(p, <<SeedValue(a, T, args), SeedValue(b, T, args)>>)
         /\ \A a, b, c : Derive(Derivation(p, <<a, b, c>>), T, args)
              = Address(p, <<SeedValue(a, T, args), SeedValue(b, T, args),
                             SeedValue(c, T, args)>>)
         /\ \A a, b, c, d : Derive(Derivation(p, <<a, b, c, d>>), T, args)
              = Address(p, <<SeedValue(a, T, args), SeedValue(b, T, args),
                             SeedValue(c, T, args), SeedValue(d, T, args)>>)
<1>1. ASSUME NEW seeds
      PROVE  Derive(Derivation(p, seeds), T, args)
               = Address(p, [i \in DOMAIN seeds |-> SeedValue(seeds[i], T, args)])
  BY DEF Derivation, Derive
<1>2. \A a : [i \in DOMAIN <<a>> |-> SeedValue(<<a>>[i], T, args)] = <<SeedValue(a, T, args)>>
  OBVIOUS
<1>3. \A a, b : [i \in DOMAIN <<a, b>> |-> SeedValue(<<a, b>>[i], T, args)]
        = <<SeedValue(a, T, args), SeedValue(b, T, args)>>
  OBVIOUS
<1>4. \A a, b, c : [i \in DOMAIN <<a, b, c>> |-> SeedValue(<<a, b, c>>[i], T, args)]
        = <<SeedValue(a, T, args), SeedValue(b, T, args), SeedValue(c, T, args)>>
  OBVIOUS
<1>5. \A a, b, c, d : [i \in DOMAIN <<a, b, c, d>> |-> SeedValue(<<a, b, c, d>>[i], T, args)]
        = <<SeedValue(a, T, args), SeedValue(b, T, args), SeedValue(c, T, args),
            SeedValue(d, T, args)>>
  OBVIOUS
<1> QED BY <1>1, <1>2, <1>3, <1>4, <1>5

\* Where the derivations of the programs lead.
LEMMA ProfilePlace ==
  ASSUME NEW T, NEW args, NEW n
  PROVE  Derive(ProfileOf(n), T, args)
           = Profiled(T[n])
<1>1. Derive(ProfileOf(n), T, args)
        = Address("core", <<SeedValue(Lit("user_profile"), T, args),
                            SeedValue(Key(n), T, args)>>)
  BY Derivations DEF ProfileOf
<1> QED BY <1>1, LitValue, KeyValue DEF Profiled

LEMMA OwnProfilePlace ==
  ASSUME NEW T, NEW args, NEW n
  PROVE  Derive(ProfileBy(n), T, args)
           = Profiled(Data(T[n], "authority"))
<1>1. Derive(ProfileBy(n), T, args)
        = Address("core", <<SeedValue(Lit("user_profile"), T, args),
                            SeedValue(Field("key", n, "authority"), T, args)>>)
  BY Derivations DEF ProfileBy
<1> QED BY <1>1, LitValue, FieldValue, Encoding DEF Profiled

LEMMA ReputationPlace ==
  ASSUME NEW T, NEW args, NEW n
  PROVE  Derive(ReputationOf(n), T, args)
           = Reputed(T[n])
<1>1. Derive(ReputationOf(n), T, args)
        = Address("core", <<SeedValue(Lit("reputation_profile"), T, args),
                            SeedValue(Key(n), T, args)>>)
  BY Derivations DEF ReputationOf
<1> QED BY <1>1, LitValue, KeyValue DEF Reputed

LEMMA OwnReputationPlace ==
  ASSUME NEW T, NEW args, NEW n
  PROVE  Derive(ReputationBy(n), T, args)
           = Reputed(Data(T[n], "authority"))
<1>1. Derive(ReputationBy(n), T, args)
        = Address("core", <<SeedValue(Lit("reputation_profile"), T, args),
                            SeedValue(Field("key", n, "authority"), T, args)>>)
  BY Derivations DEF ReputationBy
<1> QED BY <1>1, LitValue, FieldValue, Encoding DEF Reputed

LEMMA ListingPlace ==
  ASSUME NEW T, NEW args, NEW n, NEW id
  PROVE  Derive(ListingAt(n, Arg("u16", id)), T, args)
           = Listed(T[n], args[id])
<1>1. Derive(ListingAt(n, Arg("u16", id)), T, args)
        = Address("core", <<SeedValue(Lit("listing"), T, args),
                            SeedValue(Key(n), T, args),
                            SeedValue(Arg("u16", id), T, args)>>)
  BY Derivations DEF ListingAt
<1> QED BY <1>1, LitValue, KeyValue, ArgValue, Encoding DEF Listed

LEMMA SameListingPlace ==
  ASSUME NEW T, NEW args, NEW n, NEW l
  PROVE  Derive(SameListing(n, l), T, args)
           = Listed(T[n], Data(T[l], "listingId"))
<1>1. Derive(SameListing(n, l), T, args)
        = Address("core", <<SeedValue(Lit("listing"), T, args),
                            SeedValue(Key(n), T, args),
                            SeedValue(Field("u16", l, "listingId"), T, args)>>)
  BY Derivations DEF SameListing, ListingAt
<1> QED BY <1>1, LitValue, KeyValue, FieldValue, Encoding DEF Listed

LEMMA IdentityPlace ==
  ASSUME NEW T, NEW args, NEW id
  PROVE  Derive(IdentityAt(id), T, args)
           = Identified(args[id])
<1>1. Derive(IdentityAt(id), T, args)
        = Address("core", <<SeedValue(Arg("id", id), T, args),
                            SeedValue(Lit("identity"), T, args)>>)
  BY Derivations DEF IdentityAt
<1> QED BY <1>1, LitValue, ArgValue, Encoding DEF Identified

LEMMA BookingPlace ==
  ASSUME NEW T, NEW args, NEW l, NEW p, NEW t
  PROVE  Derive(BookingOf(Key(l), Key(p), Arg("i64", t)), T, args)
           = Booked(T[l], T[p], args[t])
<1>1. Derive(BookingOf(Key(l), Key(p), Arg("i64", t)), T, args)
        = Address("escrow", <<SeedValue(Lit("booking"), T, args),
                            SeedValue(Key(l), T, args),
                            SeedValue(Key(p), T, args),
                            SeedValue(Arg("i64", t), T, args)>>)
  BY Derivations DEF BookingOf
<1> QED BY <1>1, LitValue, KeyValue, ArgValue, Encoding DEF Booked

LEMMA SameBookingPlace ==
  ASSUME NEW T, NEW args, NEW b
  PROVE  Derive(BookingBy(b), T, args)
           = Booked(Data(T[b], "property"), Data(T[b], "guest"), Data(T[b], "checkIn"))
<1>1. Derive(BookingBy(b), T, args)
        = Address("escrow", <<SeedValue(Lit("booking"), T, args),
                            SeedValue(Field("key", b, "property"), T, args),
                            SeedValue(Field("key", b, "guest"), T, args),
                            SeedValue(Field("i64", b, "checkIn"), T, args)>>)
  BY Derivations DEF BookingBy, BookingOf
<1> QED BY <1>1, LitValue, FieldValue, Encoding DEF Booked

LEMMA DaysPlace ==
  ASSUME NEW T, NEW args, NEW l, NEW t
  PROVE  Derive(DaysOf(Key(l), Arg("year", t)), T, args)
           = Occupied(T[l], Year[args[t]])
<1>1. Derive(DaysOf(Key(l), Arg("year", t)), T, args)
        = Address("escrow", <<SeedValue(Lit("booking_days"), T, args),
                            SeedValue(Key(l), T, args),
                            SeedValue(Arg("year", t), T, args)>>)
  BY Derivations DEF DaysOf
<1> QED BY <1>1, LitValue, KeyValue, ArgValue, Encoding DEF Occupied

LEMMA NextDaysPlace ==
  ASSUME NEW T, NEW args, NEW l, NEW t
  PROVE  Derive(DaysOf(Key(l), Arg("nextYear", t)), T, args)
           = Occupied(T[l], NextYear(args[t]))
<1>1. Derive(DaysOf(Key(l), Arg("nextYear", t)), T, args)
        = Address("escrow", <<SeedValue(Lit("booking_days"), T, args),
                            SeedValue(Key(l), T, args),
                            SeedValue(Arg("nextYear", t), T, args)>>)
  BY Derivations DEF DaysOf
<1> QED BY <1>1, LitValue, KeyValue, ArgValue, Encoding DEF Occupied

LEMMA BookedDaysPlace ==
  ASSUME NEW T, NEW args, NEW b
  PROVE  Derive(DaysBy(b), T, args)
           = Occupied(Data(T[b], "property"), Year[Data(T[b], "checkIn")])
<1>1. Derive(DaysBy(b), T, args)
        = Address("escrow", <<SeedValue(Lit("booking_days"), T, args),
                            SeedValue(Field("key", b, "property"), T, args),
                            SeedValue(Field("year", b, "checkIn"), T, args)>>)
  BY Derivations DEF DaysBy, DaysOf
<1> QED BY <1>1, LitValue, FieldValue, Encoding DEF Occupied

LEMMA BookedNextDaysPlace ==
  ASSUME NEW T, NEW args, NEW b
  PROVE  Derive(NextDaysBy(b), T, args)
           = Occupied(Data(T[b], "property"), NextYear(Data(T[b], "checkIn")))
<1>1. Derive(NextDaysBy(b), T, args)
        = Address("escrow", <<SeedValue(Lit("booking_days"), T, args),
                            SeedValue(Field("key", b, "property"), T, args),
                            SeedValue(Field("nextYear", b, "checkIn"), T, args)>>)
  BY Derivations DEF NextDaysBy, DaysOf
<1> QED BY <1>1, LitValue, FieldValue, Encoding DEF Occupied

LEMMA MoneyPlace ==
  ASSUME NEW T, NEW args, NEW b
  PROVE  Derive(EscrowTokensOf(b), T, args)
           = MoneyOf(T[b])
<1>1. Derive(EscrowTokensOf(b), T, args)
        = Address("escrow", <<SeedValue(Lit("escrow"), T, args),
                            SeedValue(Key(b), T, args)>>)
  BY Derivations DEF EscrowTokensOf
<1> QED BY <1>1, LitValue, KeyValue DEF MoneyOf

LEMMA DisputePlace ==
  ASSUME NEW T, NEW args, NEW b
  PROVE  Derive(DisputeOf(b), T, args)
           = Disputed(T[b])
<1>1. Derive(DisputeOf(b), T, args)
        = Address("disputes", <<SeedValue(Lit("dispute"), T, args),
                            SeedValue(Key(b), T, args)>>)
  BY Derivations DEF DisputeOf
<1> QED BY <1>1, LitValue, KeyValue DEF Disputed

LEMMA SameDisputePlace ==
  ASSUME NEW T, NEW args, NEW d
  PROVE  Derive(DisputeBy(d), T, args)
           = Disputed(Data(T[d], "booking"))
<1>1. Derive(DisputeBy(d), T, args)
        = Address("disputes", <<SeedValue(Lit("dispute"), T, args),
                            SeedValue(Field("key", d, "booking"), T, args)>>)
  BY Derivations DEF DisputeBy
<1> QED BY <1>1, LitValue, FieldValue, Encoding DEF Disputed

LEMMA TokensPlace ==
  ASSUME NEW T, NEW args, NEW w
  PROVE  Derive(TokensOfSigner(w), T, args)
           = TokensOf(T[w])
<1>1. Derive(TokensOfSigner(w), T, args)
        = Address("tokens", <<SeedValue(Key(w), T, args)>>)
  BY Derivations DEF TokensOfSigner
<1> QED BY <1>1, KeyValue DEF TokensOf

LEMMA OwnTokensPlace ==
  ASSUME NEW T, NEW args, NEW p
  PROVE  Derive(TokensBy(p), T, args)
           = TokensOf(Data(T[p], "authority"))
<1>1. Derive(TokensBy(p), T, args)
        = Address("tokens", <<SeedValue(Field("key", p, "authority"), T, args)>>)
  BY Derivations DEF TokensBy
<1> QED BY <1>1, FieldValue, Encoding DEF TokensOf

LEMMA HeldPlace ==
  ASSUME NEW T, NEW args, NEW n, NEW f
  PROVE  Derive(Held(n, f), T, args) = Data(T[n], f)
BY DEF Held, Derivation, Field, Derive

\* Fixed places do not depend on the accounts of an instruction.
LEMMA FixedPlaces ==
  ASSUME NEW T, NEW args, NEW p, p # "held"
  PROVE  /\ \A text : Derive(Derivation(p, <<Lit(text)>>), T, args) = Address(p, <<Lit(text)>>)
         /\ \A name : Derive(Fixed(name), T, args) = Deployed(name)
<1>1. \A text : Derive(Derivation(p, <<Lit(text)>>), T, args) = Address(p, <<Lit(text)>>)
  BY Derivations, LitValue
<1>2. \A a : Derive(Derivation("program", <<a>>), T, args)
               = Address("program", <<SeedValue(a, T, args)>>)
  BY Derivations
<1>3. \A name : Derive(Fixed(name), T, args) = Deployed(name)
  BY <1>2, NameValue DEF Fixed, Deployed
<1> QED BY <1>1, <1>3

\* What the accounts of a stay hold.
LEMMA Holdings ==
  /\ \A w : Data(Profiled(w), "authority") = w
  /\ \A p, id : Data(Listed(p, id), "listingId") = id /\ Owner(Listed(p, id)) = p
  /\ \A l, p, t :
       /\ Data(Booked(l, p, t), "property") = l
       /\ Data(Booked(l, p, t), "guest") = p
       /\ Data(Booked(l, p, t), "checkIn") = t
       /\ Data(Booked(l, p, t), "host") = Owner(l)
  /\ \A b : Data(Disputed(b), "booking") = b
  /\ \A p, text : Data(Address(p, <<Lit(text)>>), "authority") = Root
  /\ \A a : /\ Data(a, "platformVault") = PlatformVault
            /\ Data(a, "usdcMint") = Mint
            /\ Data(a, "treasuryVault") = TreasuryVault
<1>1. \A w : Data(Profiled(w), "authority") = w
  BY DEF Data, Profiled, Address, Seed
<1>2. \A p, id : Data(Listed(p, id), "listingId") = id /\ Owner(Listed(p, id)) = p
  BY DEF Data, Listed, Address, Seed, Owner
<1>3. \A l, p, t :
       /\ Data(Booked(l, p, t), "property") = l
       /\ Data(Booked(l, p, t), "guest") = p
       /\ Data(Booked(l, p, t), "checkIn") = t
       /\ Data(Booked(l, p, t), "host") = Owner(l)
  BY DEF Data, Booked, Address, Seed, Owner
<1>4. \A b : Data(Disputed(b), "booking") = b
  BY DEF Data, Disputed, Address, Seed
<1>5. \A p, text : Data(Address(p, <<Lit(text)>>), "authority") = Root
  BY DEF Data, Address, Seed
<1>6. \A a : /\ Data(a, "platformVault") = PlatformVault
            /\ Data(a, "usdcMint") = Mint
            /\ Data(a, "treasuryVault") = TreasuryVault
  BY DEF Data
<1> QED BY <1>1, <1>2, <1>3, <1>4, <1>5, <1>6

\* Of what type they are.
LEMMA PlaceTypes ==
  /\ \A w : Type(Profiled(w)) = <<"core", "user_profile">>
  /\ \A w : Type(Reputed(w)) = <<"core", "reputation_profile">>
  /\ \A p, id : Type(Listed(p, id)) = <<"core", "listing">>
  /\ \A id : Type(Identified(id)) = <<"core", "identity">>
  /\ \A l, p, t : Type(Booked(l, p, t)) = <<"escrow", "booking">>
  /\ \A l, y : Type(Occupied(l, y)) = <<"escrow", "booking_days">>
  /\ \A b : Type(MoneyOf(b)) = <<"escrow", "escrow">>
  /\ \A b : Type(Disputed(b)) = <<"disputes", "dispute">>
  /\ \A w : Type(TokensOf(w)) = <<"tokens", "">>
  /\ \A name : Type(Wallet(name)) = <<"wallet", "">>
  /\ Type(Mint) = <<"mint", "">>
  /\ \A p, text : Type(Address(p, <<Lit(text)>>)) = <<p, text>>
<1> DEFINE Leads(a, text) ==
      /\ 1 \in DOMAIN a.seeds /\ a.seeds[1] = Lit(text)
      /\ \A i \in DOMAIN a.seeds : i # 1 => a.seeds[i][1] # "lit"
<1>0. \A a, text : Leads(a, text) => Type(a) = <<a.program, text>>
  BY LiteralIs
<1>1. \A w : Leads(Profiled(w), "user_profile") /\ Profiled(w).program = "core"
  BY DEF Profiled, Address, Lit
<1>2. \A w : Leads(Reputed(w), "reputation_profile") /\ Reputed(w).program = "core"
  BY DEF Reputed, Address, Lit
<1>3. \A p, id : Leads(Listed(p, id), "listing") /\ Listed(p, id).program = "core"
  BY DEF Listed, Address, Lit
<1>4. \A l, p, t : Leads(Booked(l, p, t), "booking") /\ Booked(l, p, t).program = "escrow"
  BY DEF Booked, Address, Lit
<1>5. \A l, y : Leads(Occupied(l, y), "booking_days") /\ Occupied(l, y).program = "escrow"
  BY DEF Occupied, Address, Lit
<1>6. \A b : Leads(MoneyOf(b), "escrow") /\ MoneyOf(b).program = "escrow"
  BY DEF MoneyOf, Address, Lit
<1>7. \A b : Leads(Disputed(b), "dispute") /\ Disputed(b).program = "disputes"
  BY DEF Disputed, Address, Lit
<1>8. \A p, text : Leads(Address(p, <<Lit(text)>>), text) /\ Address(p, <<Lit(text)>>).program = p
  BY DEF Address, Lit
<1>9. \A id : Type(Identified(id)) = <<"core", "identity">>
  <2>1. \A id : /\ DOMAIN Identified(id).seeds = {1, 2} /\ Identified(id).program = "core"
                /\ Identified(id).seeds[1][1] = "id"
                /\ Identified(id).seeds[2][1] = "lit" /\ Identified(id).seeds[2][2] = "identity"
    BY DEF Identified, Address, Lit
  <2>2. \A id : {i \in DOMAIN Identified(id).seeds : Identified(id).seeds[i][1] = "lit"} = {2}
    BY <2>1
  <2>3. (CHOOSE i \in {2} : TRUE) = 2
    OBVIOUS
  <2>4. \A id : Literal(Identified(id)) = "identity"
    BY <2>1, <2>2, <2>3 DEF Literal
  <2> QED BY <2>1, <2>4 DEF Type
<1>10. ASSUME NEW a, \A i \in DOMAIN a.seeds : a.seeds[i][1] # "lit"
       PROVE  Type(a) = <<a.program, "">>
  <2>1. {i \in DOMAIN a.seeds : a.seeds[i][1] = "lit"} = {}
    BY <1>10
  <2> QED BY <2>1 DEF Type, Literal
<1>11. \A w : /\ TokensOf(w).program = "tokens"
              /\ \A i \in DOMAIN TokensOf(w).seeds : TokensOf(w).seeds[i][1] # "lit"
  BY DEF TokensOf, Address
<1>12. \A n : /\ Wallet(n).program = "wallet"
              /\ \A i \in DOMAIN Wallet(n).seeds : Wallet(n).seeds[i][1] # "lit"
  BY DEF Wallet, Address
<1>13. Mint.program = "mint" /\ DOMAIN Mint.seeds = {}
  BY DEF Mint, Address
<1> HIDE DEF Leads
<1>14. /\ \A w : Type(Profiled(w)) = <<"core", "user_profile">>
       /\ \A w : Type(Reputed(w)) = <<"core", "reputation_profile">>
  BY <1>0, <1>1, <1>2
<1>15. \A p, id : Type(Listed(p, id)) = <<"core", "listing">>
  BY <1>0, <1>3
<1>16. \A l, p, t : Type(Booked(l, p, t)) = <<"escrow", "booking">>
  BY <1>0, <1>4
<1>17. \A l, y : Type(Occupied(l, y)) = <<"escrow", "booking_days">>
  BY <1>0, <1>5
<1>18. /\ \A b : Type(MoneyOf(b)) = <<"escrow", "escrow">>
       /\ \A b : Type(Disputed(b)) = <<"disputes", "dispute">>
  BY <1>0, <1>6, <1>7
<1>19. \A p, text : Type(Address(p, <<Lit(text)>>)) = <<p, text>>
  BY <1>0, <1>8
<1>20. \A w : Type(TokensOf(w)) = <<"tokens", "">>
  BY <1>10, <1>11
<1>21. \A name : Type(Wallet(name)) = <<"wallet", "">>
  BY <1>10, <1>12
<1>22. Type(Mint) = <<"mint", "">>
  BY <1>10, <1>13
<1> QED BY <1>9, <1>14, <1>15, <1>16, <1>17, <1>18, <1>19, <1>20, <1>21, <1>22

-----------------------------------------------------------------------------
(***************************************************************************)
(* What a caller means by each name.                                       *)
(***************************************************************************)
OtherOf(stay, as) == IF as = "guest" THEN HostOf(stay) ELSE GuestOf(stay)

\* The first source that knows a name counts, and the sources are apart.
LEMMA ApartFirst ==
  ASSUME NEW sources, NEW k \in 1..7, DOMAIN sources = 1..k,
         NEW i \in 1..k, NEW n \in DOMAIN sources[i],
         \A j \in 1..k : j < i => n \notin DOMAIN sources[j]
  PROVE  n \in DOMAIN FirstOf(sources) /\ FirstOf(sources)[n] = sources[i][n]
<1>1. DOMAIN sources \subseteq Nat /\ i \in DOMAIN sources
  OBVIOUS
<1>2. FirstOf(sources)[n] = sources[i][n]
  BY <1>1, FirstCounts
<1>3. n \in DOMAIN FirstOf(sources)
  BY <1>1 DEF FirstOf
<1> QED BY <1>2, <1>3

LEMMA PartyPlaces ==
  /\ \A w : ProfileAt(w) = Profiled(w)
  /\ \A w : ReputationAt(w) = Reputed(w)
<1>1. ASSUME NEW w PROVE ProfileAt(w) = Profiled(w)
  <2> DEFINE T == [wallet |-> w]
  <2>1. Derive(ProfileOf("wallet"), T, <<>>) = Profiled(T["wallet"])
    BY ProfilePlace, Zenon
  <2> QED BY <2>1 DEF ProfileAt
<1>2. ASSUME NEW w PROVE ReputationAt(w) = Reputed(w)
  <2> DEFINE T == [wallet |-> w]
  <2>1. Derive(ReputationOf("wallet"), T, <<>>) = Reputed(T["wallet"])
    BY ReputationPlace, Zenon
  <2> QED BY <2>1 DEF ReputationAt
<1> QED BY <1>1, <1>2

\* What belongs to a stay, by its places.
OwnNames ==
  {"guestProfile", "hostProfile", "property", "args", "actor", "listing", "booking", "bookingDays",
   "bookingDaysNext", "dispute", "escrowTokenAccount", "guest", "client", "host",
   "clientProfile", "clientReputation", "guestReputation", "hostReputation",
   "guestTokenAccount", "clientTokenAccount", "hostTokenAccount", "identity", "caller",
   "signer", "initiator", "openerWallet", "authority", "payer", "userProfile",
   "initiatorProfile", "guiltyProfile", "reputationProfile", "guiltyReputation",
   "senderTokenAccount", "userTokenAccount", "guiltyTokenAccount", "victimProfile",
   "victimTokenAccount"}

LEMMA OwnMeant ==
  ASSUME NEW stay, NEW as
  PROVE  LET own == Belongings(stay, as)
         IN /\ DOMAIN own = OwnNames
            /\ own["guestProfile"] = Profiled(GuestOf(stay))
            /\ own["hostProfile"] = Profiled(HostOf(stay))
            /\ own["property"] = ListingOf(stay)
            /\ own["args"] = ArgsOf(stay, as)
            /\ own["actor"] = ActorOf(stay, as)
            /\ own["listing"] = ListingOf(stay)
            /\ own["booking"] = StayBooking(stay)
            /\ own["bookingDays"] = Occupied(ListingOf(stay), Year[Stay[stay].checkIn])
            /\ own["bookingDaysNext"] = Occupied(ListingOf(stay), NextYear(Stay[stay].checkIn))
            /\ own["dispute"] = Disputed(StayBooking(stay))
            /\ own["escrowTokenAccount"] = MoneyOf(StayBooking(stay))
            /\ own["guest"] = Profiled(GuestOf(stay))
            /\ own["client"] = GuestOf(stay)
            /\ own["host"] = HostOf(stay)
            /\ own["clientProfile"] = Profiled(GuestOf(stay))
            /\ own["guestReputation"] = Reputed(GuestOf(stay))
            /\ own["hostReputation"] = Reputed(HostOf(stay))
            /\ own["guestTokenAccount"] = TokensOf(GuestOf(stay))
            /\ own["clientTokenAccount"] = TokensOf(GuestOf(stay))
            /\ own["hostTokenAccount"] = TokensOf(HostOf(stay))
            /\ own["identity"] = Identified(ActorOf(stay, as))
            /\ own["caller"] = ActorOf(stay, as)
            /\ own["signer"] = ActorOf(stay, as)
            /\ own["initiator"] = ActorOf(stay, as)
            /\ own["openerWallet"] = ActorOf(stay, as)
            /\ own["authority"] = ActorOf(stay, as)
            /\ own["payer"] = ActorOf(stay, as)
            /\ own["userProfile"] = Profiled(ActorOf(stay, as))
            /\ own["initiatorProfile"] = Profiled(ActorOf(stay, as))
            /\ own["guiltyReputation"] = Reputed(ActorOf(stay, as))
            /\ own["reputationProfile"] = Reputed(ActorOf(stay, as))
            /\ own["senderTokenAccount"] = TokensOf(ActorOf(stay, as))
            /\ own["userTokenAccount"] = TokensOf(ActorOf(stay, as))
<1> DEFINE guest == Wallet(Stay[stay].guest)
<1> DEFINE host == Wallet(Stay[stay].host)
<1> DEFINE actor == IF as = "guest" THEN guest ELSE host
<1> DEFINE other == IF as = "guest" THEN host ELSE guest
<1> DEFINE args == [listingId |-> Stay[stay].listingId, checkIn |-> Stay[stay].checkIn,
        id |-> actor]
<1> DEFINE profiles == [guestProfile |-> ProfileAt(guest), hostProfile |-> ProfileAt(host)]
<1> DEFINE listing == Derive(ListingAt("hostProfile", Arg("u16", "listingId")), profiles, args)
<1> DEFINE first == FirstOf(<<profiles, [property |-> listing]>>)
<1> DEFINE booking == Derive(BookingOf(Key("property"), Key("guestProfile"), Arg("i64", "checkIn")),
                             first, args)
<1> DEFINE days(year) == Derive(DaysOf(Key("property"), Arg(year, "checkIn")), first, args)
<1> DEFINE ofBooking(d) == Derive(d, [booking |-> booking], <<>>)
<1> DEFINE second ==
        [args |-> args, actor |-> actor, listing |-> listing, booking |-> booking,
         bookingDays |-> days("year"), bookingDaysNext |-> days("nextYear"),
         dispute |-> ofBooking(DisputeOf("booking")),
         escrowTokenAccount |-> ofBooking(EscrowTokensOf("booking")),
         guest |-> profiles.guestProfile, client |-> guest, host |-> host,
         clientProfile |-> profiles.guestProfile, clientReputation |-> ReputationAt(guest),
         guestReputation |-> ReputationAt(guest), hostReputation |-> ReputationAt(host),
         guestTokenAccount |-> TokensOf(guest), clientTokenAccount |-> TokensOf(guest),
         hostTokenAccount |-> TokensOf(host),
         identity |-> Derive(IdentityAt("id"), <<>>, args)]
<1> DEFINE third ==
        [n \in {"caller", "signer", "initiator", "openerWallet", "authority", "payer"} |-> actor]
<1> DEFINE fourth == [n \in {"userProfile", "initiatorProfile",
        "guiltyProfile"} |-> ProfileAt(actor)]
<1> DEFINE fifth == [n \in {"reputationProfile", "guiltyReputation"} |-> ReputationAt(actor)]
<1> DEFINE sixth ==
        [n \in {"senderTokenAccount", "userTokenAccount", "guiltyTokenAccount"} |-> TokensOf(actor)]
<1> DEFINE seventh == [victimProfile |-> ProfileAt(other), victimTokenAccount |-> TokensOf(other)]
<1> DEFINE sources == <<first, second, third, fourth, fifth, sixth, seventh>>
<1>1. Belongings(stay, as) = FirstOf(sources)
  BY Zenon DEF Belongings
<1>2. /\ guest = GuestOf(stay) /\ host = HostOf(stay) /\ actor = ActorOf(stay, as)
      /\ other = OtherOf(stay, as) /\ args = ArgsOf(stay, as)
  BY DEF GuestOf, HostOf, ActorOf, OtherOf, ArgsOf
<1>3. /\ args["listingId"] = Stay[stay].listingId /\ args["checkIn"] = Stay[stay].checkIn
      /\ args["id"] = actor
  OBVIOUS
<1>4. /\ profiles["guestProfile"] = Profiled(guest) /\ profiles["hostProfile"] = Profiled(host)
      /\ DOMAIN profiles = {"guestProfile", "hostProfile"}
  BY PartyPlaces
<1> HIDE DEF guest, host, actor, other, args, profiles
<1>5. listing = ListingOf(stay)
  <2>1. listing = Listed(profiles["hostProfile"], args["listingId"])
    BY ListingPlace, Zenon
  <2> QED BY <2>1, <1>2, <1>3, <1>4 DEF ListingOf
<1> HIDE DEF listing
<1>6. /\ first["guestProfile"] = Profiled(guest) /\ first["hostProfile"] = Profiled(host)
      /\ first["property"] = ListingOf(stay)
      /\ DOMAIN first = {"guestProfile", "hostProfile", "property"}
  <2> DEFINE placed == [property |-> listing]
  <2> DEFINE pair == <<profiles, placed>>
  <2>1. DOMAIN pair = 1..2 /\ pair[1] = profiles /\ pair[2] = placed
    OBVIOUS
  <2>2. DOMAIN placed = {"property"} /\ placed["property"] = listing
    OBVIOUS
  <2> HIDE DEF placed
  <2>3. \A n \in DOMAIN profiles : FirstOf(pair)[n] = profiles[n]
    <3> HIDE DEF pair
    <3> QED BY <2>1, ApartFirst
  <2>4. FirstOf(pair)["property"] = listing
    <3>1. \A j \in 1..2 : j < 2 => "property" \notin DOMAIN pair[j]
      BY <2>1, <1>4
    <3> HIDE DEF pair
    <3> QED BY <2>1, <2>2, <3>1, ApartFirst
  <2>5. DOMAIN FirstOf(pair) = {"guestProfile", "hostProfile", "property"}
    <3> HIDE DEF pair
    <3>1. DOMAIN FirstOf(pair) = UNION {DOMAIN pair[i] : i \in DOMAIN pair}
      BY DEF FirstOf
    <3> QED BY <3>1, <2>1, <2>2, <1>4
  <2> QED BY <2>3, <2>4, <2>5, <1>4, <1>5 DEF placed
<1> HIDE DEF first
<1>7. booking = StayBooking(stay)
  <2>1. booking = Booked(first["property"], first["guestProfile"], args["checkIn"])
    BY BookingPlace
  <2> QED BY <2>1, <1>2, <1>3, <1>6 DEF StayBooking
<1> HIDE DEF booking
<1>8. days("year") = Occupied(ListingOf(stay), Year[Stay[stay].checkIn])
  <2>1. days("year") = Occupied(first["property"], Year[args["checkIn"]])
    BY DaysPlace, Zenon
  <2> QED BY <2>1, <1>3, <1>6
<1>9. days("nextYear") = Occupied(ListingOf(stay), NextYear(Stay[stay].checkIn))
  <2>1. days("nextYear") = Occupied(first["property"], NextYear(args["checkIn"]))
    BY NextDaysPlace, Zenon
  <2> QED BY <2>1, <1>3, <1>6
<1>10. /\ ofBooking(DisputeOf("booking")) = Disputed(StayBooking(stay))
       /\ ofBooking(EscrowTokensOf("booking")) = MoneyOf(StayBooking(stay))
  <2>1. /\ ofBooking(DisputeOf("booking")) = Disputed([booking |-> booking]["booking"])
        /\ ofBooking(EscrowTokensOf("booking")) = MoneyOf([booking |-> booking]["booking"])
    BY DisputePlace, MoneyPlace, Zenon
  <2>2. [booking |-> booking]["booking"] = booking
    OBVIOUS
  <2> QED BY <2>1, <2>2, <1>7
<1>11. Derive(IdentityAt("id"), <<>>, args) = Identified(ActorOf(stay, as))
  <2>1. Derive(IdentityAt("id"), <<>>, args) = Identified(args["id"])
    BY IdentityPlace, Zenon
  <2> QED BY <2>1, <1>2, <1>3
<1> HIDE DEF days, ofBooking
<1>12. /\ DOMAIN second =
            {"args", "actor", "listing", "booking", "bookingDays", "bookingDaysNext", "dispute",
             "escrowTokenAccount", "guest", "client", "host", "clientProfile",
             "clientReputation", "guestReputation", "hostReputation", "guestTokenAccount",
             "clientTokenAccount", "hostTokenAccount", "identity"}
       /\ DOMAIN third = {"caller", "signer", "initiator", "openerWallet", "authority", "payer"}
       /\ DOMAIN fourth = {"userProfile", "initiatorProfile", "guiltyProfile"}
       /\ DOMAIN fifth = {"reputationProfile", "guiltyReputation"}
       /\ DOMAIN sixth = {"senderTokenAccount", "userTokenAccount", "guiltyTokenAccount"}
       /\ DOMAIN seventh = {"victimProfile", "victimTokenAccount"}
  OBVIOUS
<1>13. /\ second["args"] = args /\ second["actor"] = actor /\ second["listing"] = listing
       /\ second["booking"] = booking /\ second["bookingDays"] = days("year")
       /\ second["bookingDaysNext"] = days("nextYear")
       /\ second["dispute"] = ofBooking(DisputeOf("booking"))
       /\ second["escrowTokenAccount"] = ofBooking(EscrowTokensOf("booking"))
       /\ second["guest"] = profiles["guestProfile"] /\ second["client"] = guest
       /\ second["host"] = host /\ second["clientProfile"] = profiles["guestProfile"]
       /\ second["guestReputation"] = ReputationAt(guest)
       /\ second["hostReputation"] = ReputationAt(host)
       /\ second["guestTokenAccount"] = TokensOf(guest)
       /\ second["clientTokenAccount"] = TokensOf(guest)
       /\ second["hostTokenAccount"] = TokensOf(host)
       /\ second["identity"] = Derive(IdentityAt("id"), <<>>, args)
  OBVIOUS
<1>14. /\ \A n \in DOMAIN third : third[n] = actor
       /\ \A n \in DOMAIN fourth : fourth[n] = Profiled(actor)
       /\ \A n \in DOMAIN fifth : fifth[n] = Reputed(actor)
       /\ \A n \in DOMAIN sixth : sixth[n] = TokensOf(actor)
  BY PartyPlaces
<1> HIDE DEF second, third, fourth, fifth, sixth, seventh
<1>15. /\ DOMAIN sources = 1..7 /\ sources[1] = first /\ sources[2] = second /\ sources[3] = third
       /\ sources[4] = fourth /\ sources[5] = fifth /\ sources[6] = sixth /\ sources[7] = seventh
  OBVIOUS
<1> HIDE DEF sources
<1> DEFINE own == FirstOf(sources)
<1>16. DOMAIN own = OwnNames
  <2>1. DOMAIN own = UNION {DOMAIN sources[i] : i \in DOMAIN sources}
    BY DEF FirstOf
  <2>2. DOMAIN own = DOMAIN first \cup DOMAIN second \cup DOMAIN third \cup DOMAIN fourth
                       \cup DOMAIN fifth \cup DOMAIN sixth \cup DOMAIN seventh
    BY <2>1, <1>15
  <2> HIDE DEF own
  <2> QED BY <2>2, <1>6, <1>12 DEF OwnNames
<1>17. \A n \in DOMAIN first : own[n] = first[n]
  <2>1. ASSUME NEW n \in DOMAIN first
        PROVE  \A j \in 1..7 : j < 1 => n \notin DOMAIN sources[j]
    BY <2>1, <1>6, <1>12, <1>15, SMTT(60)
  <2> QED BY <2>1, <1>15, ApartFirst
<1>18. \A n \in DOMAIN second : own[n] = second[n]
  <2>1. ASSUME NEW n \in DOMAIN second
        PROVE  \A j \in 1..7 : j < 2 => n \notin DOMAIN sources[j]
    BY <2>1, <1>6, <1>12, <1>15, SMTT(60)
  <2> QED BY <2>1, <1>15, ApartFirst
<1>19. \A n \in DOMAIN third : own[n] = third[n]
  <2>1. ASSUME NEW n \in DOMAIN third
        PROVE  \A j \in 1..7 : j < 3 => n \notin DOMAIN sources[j]
    BY <2>1, <1>6, <1>12, <1>15, SMTT(60)
  <2> QED BY <2>1, <1>15, ApartFirst
<1>20. \A n \in DOMAIN fourth : own[n] = fourth[n]
  <2>1. ASSUME NEW n \in DOMAIN fourth
        PROVE  \A j \in 1..7 : j < 4 => n \notin DOMAIN sources[j]
    BY <2>1, <1>6, <1>12, <1>15, SMTT(60)
  <2> QED BY <2>1, <1>15, ApartFirst
<1>21. \A n \in DOMAIN fifth : own[n] = fifth[n]
  <2>1. ASSUME NEW n \in DOMAIN fifth
        PROVE  \A j \in 1..7 : j < 5 => n \notin DOMAIN sources[j]
    BY <2>1, <1>6, <1>12, <1>15, SMTT(60)
  <2> QED BY <2>1, <1>15, ApartFirst
<1>22. \A n \in DOMAIN sixth : own[n] = sixth[n]
  <2>1. ASSUME NEW n \in DOMAIN sixth
        PROVE  \A j \in 1..7 : j < 6 => n \notin DOMAIN sources[j]
    BY <2>1, <1>6, <1>12, <1>15, SMTT(60)
  <2> QED BY <2>1, <1>15, ApartFirst
<1> HIDE DEF own
<1>23. /\ own["guestProfile"] = Profiled(GuestOf(stay))
       /\ own["hostProfile"] = Profiled(HostOf(stay))
       /\ own["property"] = ListingOf(stay)
  BY <1>2, <1>6, <1>17
<1>24. /\ own["args"] = ArgsOf(stay, as)
       /\ own["actor"] = ActorOf(stay, as)
       /\ own["listing"] = ListingOf(stay)
       /\ own["booking"] = StayBooking(stay)
       /\ own["bookingDays"] = Occupied(ListingOf(stay), Year[Stay[stay].checkIn])
       /\ own["bookingDaysNext"] = Occupied(ListingOf(stay), NextYear(Stay[stay].checkIn))
       /\ own["dispute"] = Disputed(StayBooking(stay))
       /\ own["escrowTokenAccount"] = MoneyOf(StayBooking(stay))
       /\ own["guest"] = Profiled(GuestOf(stay))
       /\ own["client"] = GuestOf(stay)
       /\ own["host"] = HostOf(stay)
       /\ own["clientProfile"] = Profiled(GuestOf(stay))
       /\ own["guestReputation"] = Reputed(GuestOf(stay))
       /\ own["hostReputation"] = Reputed(HostOf(stay))
       /\ own["guestTokenAccount"] = TokensOf(GuestOf(stay))
       /\ own["clientTokenAccount"] = TokensOf(GuestOf(stay))
       /\ own["hostTokenAccount"] = TokensOf(HostOf(stay))
       /\ own["identity"] = Identified(ActorOf(stay, as))
  BY <1>2, <1>4, <1>5, <1>7, <1>8, <1>9, <1>10, <1>11, <1>12, <1>13, <1>18, PartyPlaces
<1>25. /\ own["caller"] = ActorOf(stay, as)
       /\ own["signer"] = ActorOf(stay, as)
       /\ own["initiator"] = ActorOf(stay, as)
       /\ own["openerWallet"] = ActorOf(stay, as)
       /\ own["authority"] = ActorOf(stay, as)
       /\ own["payer"] = ActorOf(stay, as)
  BY <1>2, <1>12, <1>14, <1>19
<1>26. /\ own["userProfile"] = Profiled(ActorOf(stay, as))
       /\ own["initiatorProfile"] = Profiled(ActorOf(stay, as))
  BY <1>2, <1>12, <1>14, <1>20
<1>27. /\ own["guiltyReputation"] = Reputed(ActorOf(stay, as))
       /\ own["reputationProfile"] = Reputed(ActorOf(stay, as))
  BY <1>2, <1>12, <1>14, <1>21
<1>28. /\ own["senderTokenAccount"] = TokensOf(ActorOf(stay, as))
       /\ own["userTokenAccount"] = TokensOf(ActorOf(stay, as))
  BY <1>2, <1>12, <1>14, <1>22
<1> QED BY <1>1, <1>16, <1>23, <1>24, <1>25, <1>26, <1>27, <1>28 DEF own

SharedNames ==
  {"globalConfig", "escrowConfig", "disputeConfig", "treasuryConfig", "configTreasury",
   "platformVaultPda", "platformVault", "platformVaultTokenAccount", "treasuryPda",
   "treasuryVault", "mint", "usdcMint", "admin", "destinationTokenAccount",
   "systemProgram", "tokenProgram", "staykeCore", "staykeCoreProgram",
   "staykeEscrowProgram", "staykeTreasuryProgram"}

\* The platform's accounts, by their places.
LEMMA SharedMeant ==
  /\ DOMAIN Shared = SharedNames
  /\ Shared["globalConfig"] = Address("config", <<Lit("global_config")>>)
  /\ Shared["escrowConfig"] = Address("escrow", <<Lit("escrow_config")>>)
  /\ Shared["disputeConfig"] = Address("disputes", <<Lit("dispute_config")>>)
  /\ Shared["treasuryConfig"] = Address("treasury", <<Lit("treasury_config")>>)
  /\ Shared["configTreasury"] = Address("treasury", <<Lit("treasury_config")>>)
  /\ Shared["platformVaultPda"] = Address("config", <<Lit("platform_vault")>>)
  /\ Shared["platformVault"] = PlatformVault
  /\ Shared["platformVaultTokenAccount"] = PlatformVault
  /\ Shared["treasuryPda"] = Address("treasury", <<Lit("treasury")>>)
  /\ Shared["treasuryVault"] = TreasuryVault
  /\ Shared["mint"] = Mint
  /\ Shared["usdcMint"] = Mint
  /\ Shared["admin"] = Root
  /\ Shared["destinationTokenAccount"] = TokensOf(Root)
  /\ Shared["systemProgram"] = Deployed("system")
  /\ Shared["tokenProgram"] = Deployed("token")
  /\ Shared["staykeCore"] = Deployed("core")
  /\ Shared["staykeCoreProgram"] = Deployed("core")
  /\ Shared["staykeEscrowProgram"] = Deployed("escrow")
  /\ Shared["staykeTreasuryProgram"] = Deployed("treasury")
<1>1. \A p, text : p # "held" => Pda(Derivation(p, <<Lit(text)>>)) = Address(p, <<Lit(text)>>)
  BY FixedPlaces DEF Pda
<1>2. DOMAIN Shared = SharedNames
  BY DEF Shared, SharedNames
<1>3. Shared["globalConfig"] = Address("config", <<Lit("global_config")>>)
  BY <1>1 DEF Shared, GlobalConfigPda
<1>4. Shared["escrowConfig"] = Address("escrow", <<Lit("escrow_config")>>)
  BY <1>1 DEF Shared, EscrowConfigPda
<1>5. Shared["disputeConfig"] = Address("disputes", <<Lit("dispute_config")>>)
  BY <1>1 DEF Shared, DisputeConfigPda
<1>6. Shared["treasuryConfig"] = Address("treasury", <<Lit("treasury_config")>>)
  BY <1>1 DEF Shared, TreasuryConfigPda
<1>7. Shared["configTreasury"] = Address("treasury", <<Lit("treasury_config")>>)
  BY <1>1 DEF Shared, TreasuryConfigPda
<1>8. Shared["platformVaultPda"] = Address("config", <<Lit("platform_vault")>>)
  BY <1>1 DEF Shared, VaultAuthorityPda
<1>9. Shared["platformVault"] = PlatformVault
  BY <1>1 DEF Shared
<1>10. Shared["platformVaultTokenAccount"] = PlatformVault
  BY <1>1 DEF Shared
<1>11. Shared["treasuryPda"] = Address("treasury", <<Lit("treasury")>>)
  BY <1>1 DEF Shared, TreasuryPda
<1>12. Shared["treasuryVault"] = TreasuryVault
  BY <1>1 DEF Shared
<1>13. Shared["mint"] = Mint
  BY <1>1 DEF Shared
<1>14. Shared["usdcMint"] = Mint
  BY <1>1 DEF Shared
<1>15. Shared["admin"] = Root
  BY <1>1 DEF Shared
<1>16. Shared["destinationTokenAccount"] = TokensOf(Root)
  BY <1>1 DEF Shared
<1>17. Shared["systemProgram"] = Deployed("system")
  BY <1>1 DEF Shared
<1>18. Shared["tokenProgram"] = Deployed("token")
  BY <1>1 DEF Shared
<1>19. Shared["staykeCore"] = Deployed("core")
  BY <1>1 DEF Shared
<1>20. Shared["staykeCoreProgram"] = Deployed("core")
  BY <1>1 DEF Shared
<1>21. Shared["staykeEscrowProgram"] = Deployed("escrow")
  BY <1>1 DEF Shared
<1>22. Shared["staykeTreasuryProgram"] = Deployed("treasury")
  BY <1>1 DEF Shared
<1> QED BY <1>2, <1>3, <1>4, <1>5, <1>6, <1>7, <1>8, <1>9, <1>10, <1>11, <1>12, <1>13, <1>14,
        <1>15, <1>16, <1>17, <1>18, <1>19, <1>20, <1>21, <1>22

\* The configuration a program calls its own.
ConfigOf(program) ==
  CASE program = "core" -> Address("core", <<Lit("config")>>)
    [] program = "disputes" -> Address("disputes", <<Lit("dispute_config")>>)
    [] OTHER -> Address("treasury", <<Lit("treasury_config")>>)

LEMMA LocalMeant ==
  ASSUME NEW program, program # "held"
  PROVE  /\ DOMAIN Local(program) = {"config", "cpiAuthority"}
         /\ Local(program)["config"] = ConfigOf(program)
         /\ Local(program)["cpiAuthority"] = Address(program, <<Lit("cpi_authority")>>)
<1>1. \A p, text : p # "held" => Pda(Derivation(p, <<Lit(text)>>)) = Address(p, <<Lit(text)>>)
  BY FixedPlaces DEF Pda
<1>2. Local(program)["config"] = ConfigOf(program)
  BY <1>1 DEF Local, ConfigOf, CoreConfigPda, DisputeConfigPda, TreasuryConfigPda
<1>3. Local(program)["cpiAuthority"] = Address(program, <<Lit("cpi_authority")>>)
  BY <1>1 DEF Local, CpiAuthority
<1>4. DOMAIN Local(program) = {"config", "cpiAuthority"}
  BY DEF Local
<1> QED BY <1>2, <1>3, <1>4

MeantNames == OwnNames \cup SharedNames \cup {"config", "cpiAuthority"}

\* What a caller means by a name, by its place.
MeantAt(meant, program, op, stay, as) ==
  /\ MeantNames \subseteq DOMAIN meant
  /\ meant["authority"] = IF op \in RootOps THEN Root ELSE ActorOf(stay, as)
  /\ meant["guest"] =
       IF op = "guestReview" THEN GuestOf(stay) ELSE Profiled(GuestOf(stay))
  /\ meant["config"] = ConfigOf(program)
  /\ meant["cpiAuthority"] = Address(program, <<Lit("cpi_authority")>>)
  /\ meant["globalConfig"] = Address("config", <<Lit("global_config")>>)
  /\ meant["escrowConfig"] = Address("escrow", <<Lit("escrow_config")>>)
  /\ meant["disputeConfig"] = Address("disputes", <<Lit("dispute_config")>>)
  /\ meant["treasuryConfig"] = Address("treasury", <<Lit("treasury_config")>>)
  /\ meant["configTreasury"] = Address("treasury", <<Lit("treasury_config")>>)
  /\ meant["platformVaultPda"] = Address("config", <<Lit("platform_vault")>>)
  /\ meant["platformVault"] = PlatformVault
  /\ meant["platformVaultTokenAccount"] = PlatformVault
  /\ meant["treasuryPda"] = Address("treasury", <<Lit("treasury")>>)
  /\ meant["treasuryVault"] = TreasuryVault
  /\ meant["mint"] = Mint
  /\ meant["usdcMint"] = Mint
  /\ meant["admin"] = Root
  /\ meant["destinationTokenAccount"] = TokensOf(Root)
  /\ meant["systemProgram"] = Deployed("system")
  /\ meant["tokenProgram"] = Deployed("token")
  /\ meant["staykeCore"] = Deployed("core")
  /\ meant["staykeCoreProgram"] = Deployed("core")
  /\ meant["staykeEscrowProgram"] = Deployed("escrow")
  /\ meant["staykeTreasuryProgram"] = Deployed("treasury")
  /\ meant["guestProfile"] = Profiled(GuestOf(stay))
  /\ meant["hostProfile"] = Profiled(HostOf(stay))
  /\ meant["property"] = ListingOf(stay)
  /\ meant["args"] = ArgsOf(stay, as)
  /\ meant["actor"] = ActorOf(stay, as)
  /\ meant["listing"] = ListingOf(stay)
  /\ meant["booking"] = StayBooking(stay)
  /\ meant["bookingDays"] = Occupied(ListingOf(stay), Year[Stay[stay].checkIn])
  /\ meant["bookingDaysNext"] = Occupied(ListingOf(stay), NextYear(Stay[stay].checkIn))
  /\ meant["dispute"] = Disputed(StayBooking(stay))
  /\ meant["escrowTokenAccount"] = MoneyOf(StayBooking(stay))
  /\ meant["client"] = GuestOf(stay)
  /\ meant["host"] = HostOf(stay)
  /\ meant["clientProfile"] = Profiled(GuestOf(stay))
  /\ meant["guestReputation"] = Reputed(GuestOf(stay))
  /\ meant["hostReputation"] = Reputed(HostOf(stay))
  /\ meant["guestTokenAccount"] = TokensOf(GuestOf(stay))
  /\ meant["clientTokenAccount"] = TokensOf(GuestOf(stay))
  /\ meant["hostTokenAccount"] = TokensOf(HostOf(stay))
  /\ meant["identity"] = Identified(ActorOf(stay, as))
  /\ meant["caller"] = ActorOf(stay, as)
  /\ meant["signer"] = ActorOf(stay, as)
  /\ meant["initiator"] = ActorOf(stay, as)
  /\ meant["openerWallet"] = ActorOf(stay, as)
  /\ meant["userProfile"] = Profiled(ActorOf(stay, as))
  /\ meant["initiatorProfile"] = Profiled(ActorOf(stay, as))
  /\ meant["guiltyReputation"] = Reputed(ActorOf(stay, as))
  /\ meant["reputationProfile"] = Reputed(ActorOf(stay, as))
  /\ meant["senderTokenAccount"] = TokensOf(ActorOf(stay, as))
  /\ meant["userTokenAccount"] = TokensOf(ActorOf(stay, as))

LEMMA MeansPlaces ==
  ASSUME NEW program, program # "held", NEW op, NEW stay, NEW as
  PROVE  MeantAt(Means(program, op, stay, as), program, op, stay, as)
<1> DEFINE own == Belongings(stay, as)
<1> DEFINE sources == <<RootSigns(op), GuestSigns(op, stay), Local(program), Shared, own>>
<1> DEFINE meant == FirstOf(sources)
<1>1. Means(program, op, stay, as) = meant
  BY Zenon DEF Means
<1>2. /\ DOMAIN RootSigns(op) = IF op \in RootOps THEN {"authority", "payer"} ELSE {}
      /\ op \in RootOps => RootSigns(op)["authority"] = Root
  BY DEF RootSigns
<1>3. /\ DOMAIN GuestSigns(op, stay) = IF op = "guestReview" THEN {"guest"} ELSE {}
      /\ op = "guestReview" => GuestSigns(op, stay)["guest"] = GuestOf(stay)
  BY DEF GuestSigns, GuestOf
<1>4. /\ DOMAIN Local(program) = {"config", "cpiAuthority"}
      /\ DOMAIN Shared = SharedNames
  BY LocalMeant, SharedMeant
<1>5. /\ DOMAIN own = OwnNames /\ own["authority"] = ActorOf(stay, as)
      /\ own["guest"] = Profiled(GuestOf(stay))
  BY OwnMeant
<1>6. /\ DOMAIN sources = 1..5 /\ sources[1] = RootSigns(op) /\ sources[2] = GuestSigns(op, stay)
      /\ sources[3] = Local(program) /\ sources[4] = Shared /\ sources[5] = own
  OBVIOUS
<1> HIDE DEF sources, own
<1>7. \A n \in DOMAIN RootSigns(op) : n \in DOMAIN meant /\ meant[n] = RootSigns(op)[n]
  <2>1. \A j \in 1..5 : ~ (j < 1)
    OBVIOUS
  <2> QED BY <2>1, <1>6, ApartFirst
<1>8. \A n \in DOMAIN GuestSigns(op, stay) : n \in DOMAIN meant /\ meant[n]
        = GuestSigns(op, stay)[n]
  <2>1. ASSUME NEW n \in DOMAIN GuestSigns(op, stay)
        PROVE  \A j \in 1..5 : j < 2 => n \notin DOMAIN sources[j]
    BY <2>1, <1>2, <1>3, <1>6
  <2> QED BY <2>1, <1>6, ApartFirst
<1>9. \A n \in DOMAIN Local(program) : n \in DOMAIN meant /\ meant[n] = Local(program)[n]
  <2>1. ASSUME NEW n \in DOMAIN Local(program)
        PROVE  \A j \in 1..5 : j < 3 => n \notin DOMAIN sources[j]
    BY <2>1, <1>2, <1>3, <1>4, <1>6
  <2> QED BY <2>1, <1>6, ApartFirst
<1>10. \A n \in SharedNames : n \in DOMAIN meant /\ meant[n] = Shared[n]
  <2>1. ASSUME NEW n \in DOMAIN Shared
        PROVE  \A j \in 1..5 : j < 4 => n \notin DOMAIN sources[j]
    BY <2>1, <1>2, <1>3, <1>4, <1>6, SMTT(60) DEF SharedNames
  <2> QED BY <2>1, <1>4, <1>6, ApartFirst
<1>11. \A n \in OwnNames :
         \/ n \in DOMAIN meant /\ meant[n] = own[n]
         \/ n \in DOMAIN RootSigns(op) \/ n \in DOMAIN GuestSigns(op, stay)
  <2>1. ASSUME NEW n \in DOMAIN own, n \notin DOMAIN RootSigns(op),
                 n \notin DOMAIN GuestSigns(op, stay)
        PROVE  \A j \in 1..5 : j < 5 => n \notin DOMAIN sources[j]
    <3>1. n \notin SharedNames /\ n \notin {"config", "cpiAuthority"}
      BY <2>1, <1>5, SMTT(60) DEF SharedNames, OwnNames
    <3> QED BY <2>1, <3>1, <1>4, <1>6
  <2> QED BY <2>1, <1>5, <1>6, ApartFirst
<1> HIDE DEF meant
<1>12. MeantNames \subseteq DOMAIN meant
  BY <1>4, <1>7, <1>8, <1>9, <1>10, <1>11 DEF MeantNames
<1>13. \A n \in OwnNames \ {"authority", "payer", "guest"} : meant[n] = own[n]
  BY <1>2, <1>3, <1>11
<1>14. meant["authority"] = IF op \in RootOps THEN Root ELSE ActorOf(stay, as)
  <2>1. "authority" \in OwnNames
    BY DEF OwnNames
  <2> QED BY <2>1, <1>2, <1>3, <1>5, <1>7, <1>11
<1>15. meant["guest"] = IF op = "guestReview" THEN GuestOf(stay) ELSE Profiled(GuestOf(stay))
  <2>1. "guest" \in OwnNames
    BY DEF OwnNames
  <2> QED BY <2>1, <1>2, <1>3, <1>5, <1>8, <1>11
<1>16. /\ meant["config"] = ConfigOf(program)
       /\ meant["cpiAuthority"] = Address(program, <<Lit("cpi_authority")>>)
  BY <1>4, <1>9, LocalMeant
<1>17. /\ meant["globalConfig"] = Shared["globalConfig"]
       /\ meant["escrowConfig"] = Shared["escrowConfig"]
       /\ meant["disputeConfig"] = Shared["disputeConfig"]
       /\ meant["treasuryConfig"] = Shared["treasuryConfig"]
       /\ meant["configTreasury"] = Shared["configTreasury"]
       /\ meant["platformVaultPda"] = Shared["platformVaultPda"]
       /\ meant["platformVault"] = Shared["platformVault"]
       /\ meant["platformVaultTokenAccount"] = Shared["platformVaultTokenAccount"]
       /\ meant["treasuryPda"] = Shared["treasuryPda"]
       /\ meant["treasuryVault"] = Shared["treasuryVault"]
       /\ meant["mint"] = Shared["mint"]
       /\ meant["usdcMint"] = Shared["usdcMint"]
       /\ meant["admin"] = Shared["admin"]
       /\ meant["destinationTokenAccount"] = Shared["destinationTokenAccount"]
       /\ meant["systemProgram"] = Shared["systemProgram"]
       /\ meant["tokenProgram"] = Shared["tokenProgram"]
       /\ meant["staykeCore"] = Shared["staykeCore"]
       /\ meant["staykeCoreProgram"] = Shared["staykeCoreProgram"]
       /\ meant["staykeEscrowProgram"] = Shared["staykeEscrowProgram"]
       /\ meant["staykeTreasuryProgram"] = Shared["staykeTreasuryProgram"]
  BY <1>10 DEF SharedNames
<1>18. /\ meant["guestProfile"] = own["guestProfile"]
       /\ meant["hostProfile"] = own["hostProfile"]
       /\ meant["property"] = own["property"]
       /\ meant["args"] = own["args"]
       /\ meant["actor"] = own["actor"]
       /\ meant["listing"] = own["listing"]
       /\ meant["booking"] = own["booking"]
       /\ meant["bookingDays"] = own["bookingDays"]
       /\ meant["bookingDaysNext"] = own["bookingDaysNext"]
       /\ meant["dispute"] = own["dispute"]
       /\ meant["escrowTokenAccount"] = own["escrowTokenAccount"]
       /\ meant["client"] = own["client"]
       /\ meant["host"] = own["host"]
       /\ meant["clientProfile"] = own["clientProfile"]
       /\ meant["guestReputation"] = own["guestReputation"]
       /\ meant["hostReputation"] = own["hostReputation"]
       /\ meant["guestTokenAccount"] = own["guestTokenAccount"]
       /\ meant["clientTokenAccount"] = own["clientTokenAccount"]
       /\ meant["hostTokenAccount"] = own["hostTokenAccount"]
       /\ meant["identity"] = own["identity"]
       /\ meant["caller"] = own["caller"]
       /\ meant["signer"] = own["signer"]
       /\ meant["initiator"] = own["initiator"]
       /\ meant["openerWallet"] = own["openerWallet"]
       /\ meant["userProfile"] = own["userProfile"]
       /\ meant["initiatorProfile"] = own["initiatorProfile"]
       /\ meant["guiltyReputation"] = own["guiltyReputation"]
       /\ meant["reputationProfile"] = own["reputationProfile"]
       /\ meant["senderTokenAccount"] = own["senderTokenAccount"]
       /\ meant["userTokenAccount"] = own["userTokenAccount"]
  BY <1>13 DEF OwnNames
<1>19. /\ meant["globalConfig"] = Address("config", <<Lit("global_config")>>)
       /\ meant["escrowConfig"] = Address("escrow", <<Lit("escrow_config")>>)
       /\ meant["disputeConfig"] = Address("disputes", <<Lit("dispute_config")>>)
       /\ meant["treasuryConfig"] = Address("treasury", <<Lit("treasury_config")>>)
       /\ meant["configTreasury"] = Address("treasury", <<Lit("treasury_config")>>)
       /\ meant["platformVaultPda"] = Address("config", <<Lit("platform_vault")>>)
       /\ meant["platformVault"] = PlatformVault
       /\ meant["platformVaultTokenAccount"] = PlatformVault
       /\ meant["treasuryPda"] = Address("treasury", <<Lit("treasury")>>)
       /\ meant["treasuryVault"] = TreasuryVault
       /\ meant["mint"] = Mint
       /\ meant["usdcMint"] = Mint
       /\ meant["admin"] = Root
       /\ meant["destinationTokenAccount"] = TokensOf(Root)
       /\ meant["systemProgram"] = Deployed("system")
       /\ meant["tokenProgram"] = Deployed("token")
       /\ meant["staykeCore"] = Deployed("core")
       /\ meant["staykeCoreProgram"] = Deployed("core")
       /\ meant["staykeEscrowProgram"] = Deployed("escrow")
       /\ meant["staykeTreasuryProgram"] = Deployed("treasury")
  BY <1>17, SharedMeant
<1>20. /\ meant["guestProfile"] = Profiled(GuestOf(stay))
       /\ meant["hostProfile"] = Profiled(HostOf(stay))
       /\ meant["property"] = ListingOf(stay)
       /\ meant["args"] = ArgsOf(stay, as)
       /\ meant["actor"] = ActorOf(stay, as)
       /\ meant["listing"] = ListingOf(stay)
       /\ meant["booking"] = StayBooking(stay)
       /\ meant["bookingDays"] = Occupied(ListingOf(stay), Year[Stay[stay].checkIn])
       /\ meant["bookingDaysNext"] = Occupied(ListingOf(stay), NextYear(Stay[stay].checkIn))
       /\ meant["dispute"] = Disputed(StayBooking(stay))
       /\ meant["escrowTokenAccount"] = MoneyOf(StayBooking(stay))
       /\ meant["client"] = GuestOf(stay)
       /\ meant["host"] = HostOf(stay)
       /\ meant["clientProfile"] = Profiled(GuestOf(stay))
       /\ meant["guestReputation"] = Reputed(GuestOf(stay))
       /\ meant["hostReputation"] = Reputed(HostOf(stay))
       /\ meant["guestTokenAccount"] = TokensOf(GuestOf(stay))
       /\ meant["clientTokenAccount"] = TokensOf(GuestOf(stay))
       /\ meant["hostTokenAccount"] = TokensOf(HostOf(stay))
       /\ meant["identity"] = Identified(ActorOf(stay, as))
       /\ meant["caller"] = ActorOf(stay, as)
       /\ meant["signer"] = ActorOf(stay, as)
       /\ meant["initiator"] = ActorOf(stay, as)
       /\ meant["openerWallet"] = ActorOf(stay, as)
       /\ meant["userProfile"] = Profiled(ActorOf(stay, as))
       /\ meant["initiatorProfile"] = Profiled(ActorOf(stay, as))
       /\ meant["guiltyReputation"] = Reputed(ActorOf(stay, as))
       /\ meant["reputationProfile"] = Reputed(ActorOf(stay, as))
       /\ meant["senderTokenAccount"] = TokensOf(ActorOf(stay, as))
       /\ meant["userTokenAccount"] = TokensOf(ActorOf(stay, as))
  <2>1. /\ own["guestProfile"] = Profiled(GuestOf(stay))
        /\ own["hostProfile"] = Profiled(HostOf(stay))
        /\ own["property"] = ListingOf(stay)
        /\ own["args"] = ArgsOf(stay, as)
        /\ own["actor"] = ActorOf(stay, as)
        /\ own["listing"] = ListingOf(stay)
        /\ own["booking"] = StayBooking(stay)
        /\ own["bookingDays"] = Occupied(ListingOf(stay), Year[Stay[stay].checkIn])
        /\ own["bookingDaysNext"] = Occupied(ListingOf(stay), NextYear(Stay[stay].checkIn))
        /\ own["dispute"] = Disputed(StayBooking(stay))
        /\ own["escrowTokenAccount"] = MoneyOf(StayBooking(stay))
        /\ own["client"] = GuestOf(stay)
        /\ own["host"] = HostOf(stay)
        /\ own["clientProfile"] = Profiled(GuestOf(stay))
        /\ own["guestReputation"] = Reputed(GuestOf(stay))
        /\ own["hostReputation"] = Reputed(HostOf(stay))
        /\ own["guestTokenAccount"] = TokensOf(GuestOf(stay))
        /\ own["clientTokenAccount"] = TokensOf(GuestOf(stay))
        /\ own["hostTokenAccount"] = TokensOf(HostOf(stay))
        /\ own["identity"] = Identified(ActorOf(stay, as))
        /\ own["caller"] = ActorOf(stay, as)
        /\ own["signer"] = ActorOf(stay, as)
        /\ own["initiator"] = ActorOf(stay, as)
        /\ own["openerWallet"] = ActorOf(stay, as)
        /\ own["userProfile"] = Profiled(ActorOf(stay, as))
        /\ own["initiatorProfile"] = Profiled(ActorOf(stay, as))
        /\ own["guiltyReputation"] = Reputed(ActorOf(stay, as))
        /\ own["reputationProfile"] = Reputed(ActorOf(stay, as))
        /\ own["senderTokenAccount"] = TokensOf(ActorOf(stay, as))
        /\ own["userTokenAccount"] = TokensOf(ActorOf(stay, as))
    BY OwnMeant DEF own
  <2> HIDE DEF own
  <2> QED BY <1>18, <2>1
<1> QED BY <1>1, <1>12, <1>14, <1>15, <1>16, <1>19, <1>20 DEF MeantAt

\* The accounts that he means.
OwnPlaces ==
  {"guestProfile", "hostProfile", "property", "listing", "booking", "bookingDays",
   "bookingDaysNext", "dispute", "escrowTokenAccount", "client", "host", "clientProfile",
   "guestReputation", "hostReputation", "guestTokenAccount", "clientTokenAccount",
   "hostTokenAccount", "identity", "caller", "signer", "initiator", "openerWallet",
   "userProfile", "initiatorProfile", "reputationProfile", "guiltyReputation",
   "senderTokenAccount", "userTokenAccount"}
PlacedNames == OwnPlaces \cup SharedNames \cup {"guest", "authority", "config", "cpiAuthority"}

LEMMA MeansKnown ==
  ASSUME NEW program \in Programs, NEW op, NEW stay, NEW as
  PROVE  /\ PlacedNames \subseteq DOMAIN Means(program, op, stay, as)
         /\ \A n \in PlacedNames : Means(program, op, stay, as)[n] # None
<1> DEFINE meant == Means(program, op, stay, as)
<1>1. program \in {"config", "core", "disputes", "escrow", "treasury"}
  BY DEF Programs, Plugins
<1>2. MeantAt(meant, program, op, stay, as)
  BY <1>1, MeansPlaces
<1> HIDE DEF meant
<1>3. /\ OwnPlaces \cup {"guest", "authority"} \subseteq OwnNames
      /\ MeantNames \subseteq DOMAIN meant
  BY <1>2 DEF OwnPlaces, OwnNames, MeantAt
<1>4. PlacedNames \subseteq DOMAIN meant
  BY <1>3 DEF PlacedNames, MeantNames
<1>5. /\ \A w : Profiled(w).program # "none" /\ Reputed(w).program # "none"
      /\ \A w : TokensOf(w).program # "none" /\ Wallet(w).program # "none"
      /\ \A id : Identified(id).program # "none" /\ Deployed(id).program # "none"
      /\ \A l, y : Occupied(l, y).program # "none"
      /\ \A l, y : Listed(l, y).program # "none"
      /\ \A l, p, t : Booked(l, p, t).program # "none"
      /\ \A b : Disputed(b).program # "none" /\ MoneyOf(b).program # "none"
      /\ \A p, seeds : Address(p, seeds).program = p
      /\ Mint.program # "none" /\ PlatformVault.program # "none"
      /\ TreasuryVault.program # "none"
  BY DEF Profiled, Reputed, TokensOf, Wallet, Identified, Deployed, Occupied, Listed, Booked,
         Disputed, MoneyOf, Mint, PlatformVault, TreasuryVault, Address
<1>6. /\ GuestOf(stay).program # "none" /\ HostOf(stay).program # "none"
      /\ ActorOf(stay, as).program # "none" /\ Root.program # "none"
      /\ ListingOf(stay).program # "none" /\ StayBooking(stay).program # "none"
  <2>1. GuestOf(stay).program # "none" /\ HostOf(stay).program # "none"
    BY <1>5 DEF GuestOf, HostOf
  <2>2. ActorOf(stay, as).program # "none"
    BY <2>1 DEF ActorOf
  <2>3. Root.program # "none"
    BY <1>5 DEF Root
  <2>4. ListingOf(stay).program # "none" /\ StayBooking(stay).program # "none"
    BY <1>5 DEF ListingOf, StayBooking
  <2> QED BY <2>1, <2>2, <2>3, <2>4
<1> DEFINE Real(n) == meant[n].program # "none"
<1>7. ASSUME NEW n \in OwnPlaces PROVE Real(n)
  <2>1. /\ Real("guestProfile") /\ Real("hostProfile") /\ Real("property")
        /\ Real("listing") /\ Real("booking") /\ Real("bookingDays")
        /\ Real("bookingDaysNext")
    <3>1. /\ meant["guestProfile"] = Profiled(GuestOf(stay))
          /\ meant["hostProfile"] = Profiled(HostOf(stay))
          /\ meant["property"] = ListingOf(stay)
          /\ meant["listing"] = ListingOf(stay)
          /\ meant["booking"] = StayBooking(stay)
          /\ meant["bookingDays"] = Occupied(ListingOf(stay), Year[Stay[stay].checkIn])
          /\ meant["bookingDaysNext"] = Occupied(ListingOf(stay), NextYear(Stay[stay].checkIn))
      BY <1>2 DEF MeantAt
    <3> QED BY <3>1, <1>5, <1>6
  <2>2. /\ Real("dispute") /\ Real("escrowTokenAccount") /\ Real("client")
        /\ Real("host") /\ Real("clientProfile") /\ Real("guestReputation")
        /\ Real("hostReputation")
    <3>1. /\ meant["dispute"] = Disputed(StayBooking(stay))
          /\ meant["escrowTokenAccount"] = MoneyOf(StayBooking(stay))
          /\ meant["client"] = GuestOf(stay)
          /\ meant["host"] = HostOf(stay)
          /\ meant["clientProfile"] = Profiled(GuestOf(stay))
          /\ meant["guestReputation"] = Reputed(GuestOf(stay))
          /\ meant["hostReputation"] = Reputed(HostOf(stay))
      BY <1>2 DEF MeantAt
    <3> QED BY <3>1, <1>5, <1>6
  <2>3. /\ Real("guestTokenAccount") /\ Real("clientTokenAccount") /\ Real("hostTokenAccount")
        /\ Real("identity") /\ Real("caller") /\ Real("signer")
        /\ Real("initiator")
    <3>1. /\ meant["guestTokenAccount"] = TokensOf(GuestOf(stay))
          /\ meant["clientTokenAccount"] = TokensOf(GuestOf(stay))
          /\ meant["hostTokenAccount"] = TokensOf(HostOf(stay))
          /\ meant["identity"] = Identified(ActorOf(stay, as))
          /\ meant["caller"] = ActorOf(stay, as)
          /\ meant["signer"] = ActorOf(stay, as)
          /\ meant["initiator"] = ActorOf(stay, as)
      BY <1>2 DEF MeantAt
    <3> QED BY <3>1, <1>5, <1>6
  <2>4. /\ Real("openerWallet") /\ Real("userProfile") /\ Real("initiatorProfile")
        /\ Real("reputationProfile") /\ Real("guiltyReputation") /\ Real("senderTokenAccount")
        /\ Real("userTokenAccount")
    <3>1. /\ meant["openerWallet"] = ActorOf(stay, as)
          /\ meant["userProfile"] = Profiled(ActorOf(stay, as))
          /\ meant["initiatorProfile"] = Profiled(ActorOf(stay, as))
          /\ meant["reputationProfile"] = Reputed(ActorOf(stay, as))
          /\ meant["guiltyReputation"] = Reputed(ActorOf(stay, as))
          /\ meant["senderTokenAccount"] = TokensOf(ActorOf(stay, as))
          /\ meant["userTokenAccount"] = TokensOf(ActorOf(stay, as))
      BY <1>2 DEF MeantAt
    <3> QED BY <3>1, <1>5, <1>6
  <2> QED BY <2>1, <2>2, <2>3, <2>4 DEF OwnPlaces
<1>8. ASSUME NEW n \in SharedNames PROVE Real(n)
  BY <1>2, <1>5, <1>6, SMTT(60) DEF SharedNames, MeantAt
<1>9. ConfigOf(program).program # "none"
  BY <1>5 DEF ConfigOf
<1>10. Real("guest") /\ Real("authority") /\ Real("config") /\ Real("cpiAuthority")
  <2>1. Real("guest")
    BY <1>2, <1>5, <1>6 DEF MeantAt
  <2>2. Real("authority")
    BY <1>2, <1>6 DEF MeantAt
  <2>3. meant["config"] = ConfigOf(program)
    BY <1>2 DEF MeantAt
  <2>4. meant["cpiAuthority"] = Address(program, <<Lit("cpi_authority")>>)
    BY <1>2 DEF MeantAt
  <2>5. Real("cpiAuthority")
    BY <1>1, <1>5, <2>4
  <2> QED BY <1>9, <2>1, <2>2, <2>3, <2>5
<1>11. \A n \in PlacedNames : Real(n)
  BY <1>7, <1>8, <1>10 DEF PlacedNames
<1>12. None.program = "none"
  BY DEF None, Address
<1> QED BY <1>4, <1>11, <1>12 DEF meant

-----------------------------------------------------------------------------
(***************************************************************************)
(* An account that is where a rule demands.                                *)
(***************************************************************************)
At(T, args, n, d) == T[n] = Derive(d, T, args)

Seated(rule, T, args) ==
  /\ rule.life \in {"old", "closed"} => Type(T[rule.name]) \in rule.type
  /\ \A d \in rule.at : At(T, args, rule.name, d)
  /\ rule.oneOf # {} => \E d \in rule.oneOf : At(T, args, rule.name, d)
  /\ rule.name = "payer" => rule.life = "any"

LEMMA KnownSeated ==
  ASSUME NEW T, NEW args, NEW n, n # "payer", NEW type, Type(T[n]) \in type,
         NEW at, \A d \in at : At(T, args, n, d)
  PROVE  /\ Seated(Ro(n, type, at), T, args)
         /\ Seated(Mut(n, type, at), T, args)
         /\ Seated(Closed(n, type, at), T, args)
BY DEF Seated, Ro, Mut, Closed, Rule

LEMMA NewSeated ==
  ASSUME NEW T, NEW args, NEW n, n # "payer", NEW type, NEW at, \A d \in at : At(T, args, n, d)
  PROVE  Seated(New(n, type, at), T, args) /\ Seated(Needed(n, type, at), T, args)
BY DEF Seated, New, Needed, Rule

LEMMA FreeSeated ==
  ASSUME NEW T, NEW args, NEW n, NEW at, \A d \in at : At(T, args, n, d)
  PROVE  /\ Seated(Signs(n, at), T, args)
         /\ Seated(MutSigns(n, at), T, args)
         /\ Seated(CreditedSigns(n, at), T, args)
         /\ Seated(Unchecked(n, at), T, args)
BY DEF Seated, Signs, MutSigns, CreditedSigns, Unchecked, Rule

LEMMA OneSeated ==
  ASSUME NEW T, NEW args, NEW rule, Seated(rule, T, args), NEW choices, NEW d \in choices,
         At(T, args, rule.name, d),
         rule = [name |-> rule.name, type |-> rule.type, signer |-> rule.signer,
                 mut |-> rule.mut, life |-> rule.life, at |-> rule.at, oneOf |-> rule.oneOf]
  PROVE  Seated(OneOf(choices, rule), T, args)
<1>1. /\ OneOf(choices, rule).name = rule.name /\ OneOf(choices, rule).type = rule.type
      /\ OneOf(choices, rule).life = rule.life /\ OneOf(choices, rule).at = rule.at
      /\ OneOf(choices, rule).oneOf = choices
  BY DEF OneOf
<1> HIDE DEF OneOf
<1> QED BY <1>1 DEF Seated

-----------------------------------------------------------------------------
(***************************************************************************)
(* Where the derivations lead from accounts that have their places.        *)
(***************************************************************************)
LEMMA ProfileWhere ==
  ASSUME NEW T, NEW args, NEW n
  PROVE  /\ \A w : T[n] = Profiled(T[w]) => At(T, args, n, ProfileOf(w))
         /\ \A w : T[n] = Profiled(w) => At(T, args, n, ProfileBy(n))
         /\ \A w : T[n] = Reputed(T[w]) => At(T, args, n, ReputationOf(w))
         /\ \A w : T[n] = Reputed(w) => At(T, args, n, ReputationBy(n))
<1>1. \A w : Data(Reputed(w), "authority") = w
  BY DEF Data, Reputed, Address, Seed
<1>2. \A w : Data(Profiled(w), "authority") = w
  BY Holdings
<1>3. \A w : T[n] = Profiled(T[w]) => At(T, args, n, ProfileOf(w))
  BY ProfilePlace DEF At
<1>4. \A w : T[n] = Profiled(w) => At(T, args, n, ProfileBy(n))
  BY <1>2, OwnProfilePlace DEF At
<1>5. \A w : T[n] = Reputed(T[w]) => At(T, args, n, ReputationOf(w))
  BY ReputationPlace DEF At
<1>6. \A w : T[n] = Reputed(w) => At(T, args, n, ReputationBy(n))
  BY <1>1, OwnReputationPlace DEF At
<1> QED BY <1>3, <1>4, <1>5, <1>6

LEMMA OwnerWhere ==
  ASSUME NEW T, NEW args, NEW n, NEW p, NEW w, T[p] = Profiled(w)
  PROVE  /\ T[n] = Reputed(w) => At(T, args, n, ReputationBy(p))
         /\ T[n] = TokensOf(w) => At(T, args, n, TokensBy(p))
         /\ T[n] = w => At(T, args, n, Held(p, "authority"))
<1>1. Data(T[p], "authority") = w
  BY Holdings
<1>2. T[n] = Reputed(w) => At(T, args, n, ReputationBy(p))
  BY <1>1, OwnReputationPlace DEF At
<1>3. T[n] = TokensOf(w) => At(T, args, n, TokensBy(p))
  BY <1>1, OwnTokensPlace DEF At
<1>4. T[n] = w => At(T, args, n, Held(p, "authority"))
  BY <1>1, HeldPlace DEF At
<1> QED BY <1>2, <1>3, <1>4

LEMMA ListingWhere ==
  ASSUME NEW T, NEW args, NEW l, NEW p
  PROVE  /\ T[l] = Listed(T[p], args["listingId"])
              => At(T, args, l, ListingAt(p, Arg("u16", "listingId")))
         /\ \A id : T[l] = Listed(T[p], id) => At(T, args, l, SameListing(p, l))
<1>1. T[l] = Listed(T[p], args["listingId"])
        => At(T, args, l, ListingAt(p, Arg("u16", "listingId")))
  BY ListingPlace DEF At
<1>2. ASSUME NEW id, T[l] = Listed(T[p], id) PROVE At(T, args, l, SameListing(p, l))
  <2>1. Data(T[l], "listingId") = id
    BY <1>2, Holdings
  <2> QED BY <1>2, <2>1, SameListingPlace DEF At
<1> QED BY <1>1, <1>2

LEMMA BookedWhere ==
  ASSUME NEW T, NEW args, NEW n, NEW l, NEW p, NEW t, T["booking"] = Booked(l, p, t)
  PROVE  /\ At(T, args, "booking", BookingBy("booking"))
         /\ T[n] = Occupied(l, Year[t]) => At(T, args, n, DaysBy("booking"))
         /\ T[n] = Occupied(l, NextYear(t)) => At(T, args, n, NextDaysBy("booking"))
         /\ T[n] = p => At(T, args, n, Held("booking", "guest"))
         /\ T[n] = Owner(l) => At(T, args, n, Held("booking", "host"))
         /\ T[n] = l => At(T, args, n, Held("booking", "property"))
<1>1. /\ Data(T["booking"], "property") = l /\ Data(T["booking"], "guest") = p
      /\ Data(T["booking"], "checkIn") = t /\ Data(T["booking"], "host") = Owner(l)
  BY Holdings
<1>2. At(T, args, "booking", BookingBy("booking"))
  BY <1>1, SameBookingPlace DEF At
<1>3. T[n] = Occupied(l, Year[t]) => At(T, args, n, DaysBy("booking"))
  BY <1>1, BookedDaysPlace DEF At
<1>4. T[n] = Occupied(l, NextYear(t)) => At(T, args, n, NextDaysBy("booking"))
  BY <1>1, BookedNextDaysPlace DEF At
<1>5. /\ T[n] = p => At(T, args, n, Held("booking", "guest"))
      /\ T[n] = Owner(l) => At(T, args, n, Held("booking", "host"))
      /\ T[n] = l => At(T, args, n, Held("booking", "property"))
  BY <1>1, HeldPlace DEF At
<1> QED BY <1>2, <1>3, <1>4, <1>5

LEMMA CreatedWhere ==
  ASSUME NEW T, NEW args, NEW n
  PROVE  /\ T["booking"] = Booked(T["property"], T["clientProfile"], args["checkIn"])
              => At(T, args, "booking", BookingOf(Key("property"), Key("clientProfile"),
                                                 Arg("i64", "checkIn")))
         /\ T[n] = Occupied(T["property"], Year[args["checkIn"]])
              => At(T, args, n, DaysOf(Key("property"), Arg("year", "checkIn")))
         /\ T[n] = Occupied(T["property"], NextYear(args["checkIn"]))
              => At(T, args, n, DaysOf(Key("property"), Arg("nextYear", "checkIn")))
         /\ T[n] = Identified(args["id"]) => At(T, args, n, IdentityAt("id"))
<1>1. T["booking"] = Booked(T["property"], T["clientProfile"], args["checkIn"])
        => At(T, args, "booking", BookingOf(Key("property"), Key("clientProfile"),
                                           Arg("i64", "checkIn")))
  BY BookingPlace DEF At
<1>2. T[n] = Occupied(T["property"], Year[args["checkIn"]])
        => At(T, args, n, DaysOf(Key("property"), Arg("year", "checkIn")))
  BY DaysPlace DEF At
<1>3. T[n] = Occupied(T["property"], NextYear(args["checkIn"]))
        => At(T, args, n, DaysOf(Key("property"), Arg("nextYear", "checkIn")))
  BY NextDaysPlace DEF At
<1>4. T[n] = Identified(args["id"]) => At(T, args, n, IdentityAt("id"))
  BY IdentityPlace DEF At
<1> QED BY <1>1, <1>2, <1>3, <1>4

LEMMA OtherWhere ==
  ASSUME NEW T, NEW args, NEW n
  PROVE  /\ T[n] = MoneyOf(T["booking"]) => At(T, args, n, EscrowTokensOf("booking"))
         /\ T[n] = Disputed(T["booking"]) => At(T, args, n, DisputeOf("booking"))
         /\ \A b : T[n] = Disputed(b) => At(T, args, n, DisputeBy(n))
         /\ \A w : T[n] = TokensOf(T[w]) => At(T, args, n, TokensOfSigner(w))
         /\ T[n] = Mint => \A c : At(T, args, n, Held(c, "usdcMint"))
         /\ T[n] = PlatformVault => \A c : At(T, args, n, Held(c, "platformVault"))
         /\ T[n] = TreasuryVault => \A c : At(T, args, n, Held(c, "treasuryVault"))
         /\ \A c, p, text :
              T[c] = Address(p, <<Lit(text)>>) /\ T[n]
                      = Root => At(T, args, n, Held(c, "authority"))
         /\ \A name : T[n] = Deployed(name) => At(T, args, n, Fixed(name))
         /\ \A p, text : p # "held" /\ T[n] = Address(p, <<Lit(text)>>)
                           => At(T, args, n, Derivation(p, <<Lit(text)>>))
<1>1. T[n] = MoneyOf(T["booking"]) => At(T, args, n, EscrowTokensOf("booking"))
  BY MoneyPlace DEF At
<1>2. T[n] = Disputed(T["booking"]) => At(T, args, n, DisputeOf("booking"))
  BY DisputePlace DEF At
<1>3. \A b : T[n] = Disputed(b) => At(T, args, n, DisputeBy(n))
  BY SameDisputePlace, Holdings DEF At
<1>4. \A w : T[n] = TokensOf(T[w]) => At(T, args, n, TokensOfSigner(w))
  BY TokensPlace DEF At
<1>5. /\ T[n] = Mint => \A c : At(T, args, n, Held(c, "usdcMint"))
      /\ T[n] = PlatformVault => \A c : At(T, args, n, Held(c, "platformVault"))
      /\ T[n] = TreasuryVault => \A c : At(T, args, n, Held(c, "treasuryVault"))
  BY HeldPlace, Holdings DEF At
<1>6. \A c, p, text :
        T[c] = Address(p, <<Lit(text)>>) /\ T[n] = Root => At(T, args, n, Held(c, "authority"))
  BY HeldPlace, Holdings DEF At
<1>7. \A name : T[n] = Deployed(name) => At(T, args, n, Fixed(name))
  BY FixedPlaces DEF At
<1>8. \A p, text : p # "held" /\ T[n] = Address(p, <<Lit(text)>>)
                     => At(T, args, n, Derivation(p, <<Lit(text)>>))
  BY FixedPlaces DEF At
<1> QED BY <1>1, <1>2, <1>3, <1>4, <1>5, <1>6, <1>7, <1>8

LEMMA StayWhere ==
  ASSUME NEW T, NEW args, NEW n, NEW stay, T["booking"] = StayBooking(stay)
  PROVE  /\ At(T, args, "booking", BookingBy("booking"))
         /\ T[n] = Occupied(ListingOf(stay), Year[Stay[stay].checkIn])
              => At(T, args, n, DaysBy("booking"))
         /\ T[n] = Occupied(ListingOf(stay), NextYear(Stay[stay].checkIn))
              => At(T, args, n, NextDaysBy("booking"))
         /\ T[n] = Profiled(GuestOf(stay)) => At(T, args, n, Held("booking", "guest"))
         /\ T[n] = Profiled(HostOf(stay)) => At(T, args, n, Held("booking", "host"))
         /\ T[n] = ListingOf(stay) => At(T, args, n, Held("booking", "property"))
<1>1. Owner(ListingOf(stay)) = Profiled(HostOf(stay))
  BY Holdings DEF ListingOf
<1> QED BY <1>1, BookedWhere DEF StayBooking

LEMMA StayCreatedWhere ==
  ASSUME NEW T, NEW args, NEW n, NEW stay, T["property"] = ListingOf(stay),
         args["checkIn"] = Stay[stay].checkIn
  PROVE  /\ T["booking"] = StayBooking(stay) /\ T["clientProfile"] = Profiled(GuestOf(stay))
              => At(T, args, "booking", BookingOf(Key("property"), Key("clientProfile"),
                                                 Arg("i64", "checkIn")))
         /\ T[n] = Occupied(ListingOf(stay), Year[Stay[stay].checkIn])
              => At(T, args, n, DaysOf(Key("property"), Arg("year", "checkIn")))
         /\ T[n] = Occupied(ListingOf(stay), NextYear(Stay[stay].checkIn))
              => At(T, args, n, DaysOf(Key("property"), Arg("nextYear", "checkIn")))
BY CreatedWhere DEF StayBooking

-----------------------------------------------------------------------------
(***************************************************************************)
(* What a caller means is where his program's rules demand it.             *)
(***************************************************************************)
Agree(T, names, meant) == \A i \in DOMAIN names : names[i] = "payer" \/ T[names[i]]
        = meant[names[i]]

\* His arguments, and the accounts of his role.
LEMMA ArgsMeant ==
  ASSUME NEW stay, NEW as
  PROVE  /\ ArgsOf(stay, as)["listingId"] = Stay[stay].listingId
         /\ ArgsOf(stay, as)["checkIn"] = Stay[stay].checkIn
         /\ ArgsOf(stay, as)["id"] = ActorOf(stay, as)
         /\ as = "guest" => ActorOf(stay, as) = GuestOf(stay)
         /\ as = "host" => ActorOf(stay, as) = HostOf(stay)
BY DEF ArgsOf, ActorOf

LEMMA PlaceKinds ==
  /\ \A w : Type(Profiled(w)) \in UserProfile /\ Type(Reputed(w)) \in ReputationProfile
  /\ \A stay : Type(ListingOf(stay)) \in Listing /\ Type(StayBooking(stay)) \in Booking
  /\ \A stay : Type(GuestOf(stay)) \in SignerType /\ Type(HostOf(stay)) \in SignerType
  /\ \A id : Type(Identified(id)) \in Identity
  /\ \A l, y : Type(Occupied(l, y)) \in BookingDays
  /\ \A b : Type(MoneyOf(b)) \in TokenAccount /\ Type(Disputed(b)) \in DisputeAccount
  /\ \A w : Type(TokensOf(w)) \in TokenAccount
  /\ Type(PlatformVault) \in TokenAccount /\ Type(TreasuryVault) \in TokenAccount
  /\ Type(Mint) \in MintType
  /\ Type(Address("core", <<Lit("config")>>)) \in ConfigAcc
  /\ Type(Address("config", <<Lit("global_config")>>)) \in GlobalConfigAcc
  /\ Type(Address("treasury", <<Lit("treasury_config")>>)) \in TreasuryConfigAcc
  /\ Type(Address("disputes", <<Lit("dispute_config")>>)) \in DisputeConfig
<1>1. /\ \A w : Type(Profiled(w)) \in UserProfile
      /\ \A w : Type(Reputed(w)) \in ReputationProfile
      /\ \A id : Type(Identified(id)) \in Identity
  BY PlaceTypes DEF UserProfile, ReputationProfile, Identity
<1>2. /\ \A stay : Type(ListingOf(stay)) \in Listing
      /\ \A stay : Type(StayBooking(stay)) \in Booking
  BY PlaceTypes DEF ListingOf, StayBooking, Listing, Booking
<1>3. \A stay : Type(GuestOf(stay)) \in SignerType /\ Type(HostOf(stay)) \in SignerType
  BY PlaceTypes DEF GuestOf, HostOf, SignerType
<1>4. /\ \A l, y : Type(Occupied(l, y)) \in BookingDays
      /\ \A b : Type(Disputed(b)) \in DisputeAccount
      /\ Type(Mint) \in MintType
  BY PlaceTypes DEF BookingDays, DisputeAccount, MintType
<1>5. /\ \A b : Type(MoneyOf(b)) \in TokenAccount
      /\ \A w : Type(TokensOf(w)) \in TokenAccount
  BY PlaceTypes DEF TokenAccount
<1>6. /\ Type(PlatformVault) = <<"config", "platform_vault_token">>
      /\ Type(TreasuryVault) = <<"treasury", "treasury_vault">>
  BY PlaceTypes DEF PlatformVault, TreasuryVault
<1>7. Type(PlatformVault) \in TokenAccount /\ Type(TreasuryVault) \in TokenAccount
  BY <1>6 DEF TokenAccount
<1>8. /\ Type(Address("core", <<Lit("config")>>)) \in ConfigAcc
      /\ Type(Address("config", <<Lit("global_config")>>)) \in GlobalConfigAcc
  BY PlaceTypes DEF ConfigAcc, GlobalConfigAcc
<1>9. /\ Type(Address("treasury", <<Lit("treasury_config")>>)) \in TreasuryConfigAcc
      /\ Type(Address("disputes", <<Lit("dispute_config")>>)) \in DisputeConfig
  BY PlaceTypes DEF TreasuryConfigAcc, DisputeConfig
<1> QED BY <1>1, <1>2, <1>3, <1>4, <1>5, <1>7, <1>8, <1>9

-----------------------------------------------------------------------------
(***************************************************************************)
(* The defaults of a builder that rest on no other program's way: they     *)
(* come in layers, and lead to what the caller means.                      *)
(***************************************************************************)
Bottom == {"authority", "signer", "initiator", "client", "host", "guest", "property"}
Middle == {"userProfile", "initiatorProfile", "clientProfile", "hostProfile", "guestProfile"}

Layered(default) ==
  /\ default.account \notin Bottom
  /\ Reads(default.from) \subseteq Bottom \cup Middle \cup {"booking"}
  /\ default.account = "booking" => Reads(default.from) \subseteq Bottom \cup Middle
  /\ default.account \in Middle => Reads(default.from) \subseteq Bottom

Sure(default, T, args) ==
  Layered(default) /\ At(T, args, default.account, default.from)

Sound(op, default, T, args) ==
  <<op, default.account>> \in DivergentDefaults \/ Sure(default, T, args)

LEMMA SureDefault ==
  ASSUME NEW T, NEW args, NEW n, NEW d, At(T, args, n, d), n \notin Bottom,
         Reads(d) \subseteq Bottom \cup Middle \cup {"booking"},
         n = "booking" => Reads(d) \subseteq Bottom \cup Middle,
         n \in Middle => Reads(d) \subseteq Bottom
  PROVE  Sure([account |-> n, from |-> d], T, args)
<1> DEFINE default == [account |-> n, from |-> d]
<1>1. default.account = n /\ default.from = d
  OBVIOUS
<1> HIDE DEF default
<1>2. Sure(default, T, args)
  BY <1>1 DEF Sure, Layered
<1> QED BY <1>2 DEF default

\* What the derivations read.
LEMMA ReadsOf ==
  /\ \A w : Reads(ProfileOf(w)) = {w} /\ Reads(ReputationOf(w)) = {w}
  /\ \A p : Reads(ListingAt(p, Arg("u16", "listingId"))) = {p}
  /\ \A l, p : Reads(BookingOf(Key(l), Key(p), Arg("i64", "checkIn"))) = {l, p}
  /\ \A b : Reads(EscrowTokensOf(b)) = {b} /\ Reads(DisputeOf(b)) = {b}
  /\ Reads(IdentityAt("id")) = {}
  /\ \A p, text : Reads(Derivation(p, <<Lit(text)>>)) = {}
  /\ \A name : Reads(Fixed(name)) = {}
<1>1. \A p, n : Reads(Derivation(p, <<n>>)) = IF n[1] = "key" THEN {n[2]} ELSE {}
  BY DEF Reads, Derivation
<1>2. \A p, m, n : Reads(Derivation(p, <<m, n>>))
        = (IF m[1] = "key" THEN {m[2]} ELSE {}) \cup (IF n[1] = "key" THEN {n[2]} ELSE {})
  BY DEF Reads, Derivation
<1>3. \A p, l, m, n : Reads(Derivation(p, <<l, m, n>>))
        = (IF l[1] = "key" THEN {l[2]} ELSE {}) \cup (IF m[1] = "key" THEN {m[2]} ELSE {})
            \cup (IF n[1] = "key" THEN {n[2]} ELSE {})
  BY DEF Reads, Derivation
<1>4. \A p, k, l, m, n : Reads(Derivation(p, <<k, l, m, n>>))
        = (IF k[1] = "key" THEN {k[2]} ELSE {}) \cup (IF l[1] = "key" THEN {l[2]} ELSE {})
            \cup (IF m[1] = "key" THEN {m[2]} ELSE {}) \cup (IF n[1] = "key" THEN {n[2]} ELSE {})
  BY DEF Reads, Derivation
<1>5. /\ \A text : Lit(text)[1] = "lit"
      /\ \A n : Key(n)[1] = "key" /\ Key(n)[2] = n
      /\ \A e, n : Arg(e, n)[1] = "arg"
      /\ \A name : <<"name", name>>[1] = "name"
  BY DEF Lit, Key, Arg
<1> HIDE DEF Derivation, Lit, Key, Arg
<1>6. \A w : Reads(ProfileOf(w)) = {w} /\ Reads(ReputationOf(w)) = {w}
  BY <1>2, <1>5 DEF ProfileOf, ReputationOf
<1>7. \A p : Reads(ListingAt(p, Arg("u16", "listingId"))) = {p}
  BY <1>3, <1>5 DEF ListingAt
<1>8. \A l, p : Reads(BookingOf(Key(l), Key(p), Arg("i64", "checkIn"))) = {l, p}
  BY <1>4, <1>5 DEF BookingOf
<1>9. \A b : Reads(EscrowTokensOf(b)) = {b} /\ Reads(DisputeOf(b)) = {b}
  BY <1>2, <1>5 DEF EscrowTokensOf, DisputeOf
<1>10. Reads(IdentityAt("id")) = {}
  BY <1>2, <1>5 DEF IdentityAt
<1>11. \A p, text : Reads(Derivation(p, <<Lit(text)>>)) = {}
  BY <1>1, <1>5
<1>12. \A name : Reads(Fixed(name)) = {}
  BY <1>1, <1>5 DEF Fixed
<1> QED BY <1>6, <1>7, <1>8, <1>9, <1>10, <1>11, <1>12

-----------------------------------------------------------------------------
(***************************************************************************)
(* The instructions of each program, one by one: where the accounts a      *)
(* caller means are, its rules demand them and its defaults lead.  Each    *)
(* rule and each default is looked at once, by the places it needs; then   *)
(* each instruction, as the list of its rules and of its defaults.         *)
(***************************************************************************)
\* The configuration program.
LEMMA ConfigSeated ==
  ASSUME NEW stay, NEW as, NEW T, NEW args, args = ArgsOf(stay, as)
  PROVE  \A op \in Ops("config") :
           \/ CpiOnly(ConfigC!Plugin[op])
           \/ /\ \A i \in DOMAIN ConfigC!Parsers[op] :
                   ConfigC!Parsers[op][i] \in PlacedNames \cup {"payer"}
              /\ (as \in Roles(op) /\ Agree(T, ConfigC!Parsers[op], Means("config", op, stay, as)))
                   => /\ \A i \in DOMAIN ConfigA!Rules[op] : Seated(ConfigA!Rules[op][i], T, args)
                      /\ \A i \in DOMAIN ConfigC!Plugin[op].defaults :
                           Sound(op, ConfigC!Plugin[op].defaults[i], T, args)
<1> DEFINE P(rule) == Seated(rule, T, args)
<1> DEFINE Q(default) == Sure(default, T, args)
<1> DEFINE S(op, default) == <<op, default.account>> \in DivergentDefaults \/ Q(default)
<1> DEFINE Apt(op, plugin, names, rules) ==
      \/ CpiOnly(plugin)
      \/ /\ \A i \in DOMAIN names : names[i] \in PlacedNames \cup {"payer"}
         /\ (as \in Roles(op) /\ Agree(T, names, Means("config", op, stay, as)))
              => /\ \A i \in DOMAIN rules : P(rules[i])
                 /\ \A i \in DOMAIN plugin.defaults : S(op, plugin.defaults[i])
<1>1. /\ args["listingId"] = Stay[stay].listingId /\ args["checkIn"] = Stay[stay].checkIn
      /\ args["id"] = ActorOf(stay, as)
      /\ as = "guest" => ActorOf(stay, as) = GuestOf(stay)
      /\ as = "host" => ActorOf(stay, as) = HostOf(stay)
  BY ArgsMeant
<1>2. ASSUME T["globalConfig"] = Address("config", <<Lit("global_config")>>)
      PROVE  P(ConfigA!New("globalConfig", ConfigA!GlobalConfigAcc, {ConfigA!GlobalConfigPda}))
  <2>1. At(T, args, "globalConfig", GlobalConfigPda)
    BY <1>2, OtherWhere DEF GlobalConfigPda
  <2>2. Seated(New("globalConfig", GlobalConfigAcc, {GlobalConfigPda}), T, args)
    BY <2>1, NewSeated
  <2>3. ConfigA!New("globalConfig", ConfigA!GlobalConfigAcc, {ConfigA!GlobalConfigPda})
          = New("globalConfig", GlobalConfigAcc, {GlobalConfigPda})
    BY DEF New, ConfigA!New, Rule, ConfigA!Rule, GlobalConfigAcc, ConfigA!GlobalConfigAcc,
      GlobalConfigPda, ConfigA!GlobalConfigPda, Derivation, ConfigA!Derivation, Lit,
      ConfigA!Lit
  <2> QED BY <2>2, <2>3
<1>3. P(ConfigA!MutSigns("authority", {}))
  <2>1. Seated(MutSigns("authority", {}), T, args)
    BY FreeSeated
  <2>2. ConfigA!MutSigns("authority", {}) = MutSigns("authority", {})
    BY DEF MutSigns, ConfigA!MutSigns, Rule, ConfigA!Rule, AnyType, ConfigA!AnyType
  <2> QED BY <2>1, <2>2
<1>4. ASSUME T["platformVaultPda"] = Address("config", <<Lit("platform_vault")>>)
      PROVE  P(ConfigA!Unchecked("platformVaultPda", {ConfigA!VaultAuthorityPda}))
  <2>1. At(T, args, "platformVaultPda", VaultAuthorityPda)
    BY <1>4, OtherWhere DEF VaultAuthorityPda
  <2>2. Seated(Unchecked("platformVaultPda", {VaultAuthorityPda}), T, args)
    BY <2>1, FreeSeated
  <2>3. ConfigA!Unchecked("platformVaultPda", {ConfigA!VaultAuthorityPda})
          = Unchecked("platformVaultPda", {VaultAuthorityPda})
    BY DEF Unchecked, ConfigA!Unchecked, Rule, ConfigA!Rule, AnyType, ConfigA!AnyType,
      VaultAuthorityPda, ConfigA!VaultAuthorityPda, Derivation, ConfigA!Derivation, Lit,
      ConfigA!Lit
  <2> QED BY <2>2, <2>3
<1>5. ASSUME T["platformVault"] = PlatformVault
      PROVE  P(ConfigA!New("platformVault", ConfigA!TokenAccount, {ConfigA!VaultPda}))
  <2>1. At(T, args, "platformVault", VaultPda)
    BY <1>5, OtherWhere DEF VaultPda, PlatformVault
  <2>2. Seated(New("platformVault", TokenAccount, {VaultPda}), T, args)
    BY <2>1, NewSeated
  <2>3. ConfigA!New("platformVault", ConfigA!TokenAccount, {ConfigA!VaultPda})
          = New("platformVault", TokenAccount, {VaultPda})
    BY DEF New, ConfigA!New, Rule, ConfigA!Rule, TokenAccount, ConfigA!TokenAccount,
      VaultPda, ConfigA!VaultPda, Derivation, ConfigA!Derivation, Lit, ConfigA!Lit
  <2> QED BY <2>2, <2>3
<1>6. ASSUME T["usdcMint"] = Mint
      PROVE  P(ConfigA!Ro("usdcMint", ConfigA!MintType, {}))
  <2>1. Type(T["usdcMint"]) \in MintType
    BY <1>6, PlaceKinds
  <2>2. Seated(Ro("usdcMint", MintType, {}), T, args)
    BY <2>1, KnownSeated
  <2>3. ConfigA!Ro("usdcMint", ConfigA!MintType, {}) = Ro("usdcMint", MintType, {})
    BY DEF Ro, ConfigA!Ro, Rule, ConfigA!Rule, MintType, ConfigA!MintType
  <2> QED BY <2>2, <2>3
<1>7. ASSUME T["tokenProgram"] = Deployed("token")
      PROVE  P(ConfigA!TokenRule)
  <2>1. At(T, args, "tokenProgram", Fixed("token"))
    BY <1>7, OtherWhere
  <2>2. Seated(Unchecked("tokenProgram", {Fixed("token")}), T, args)
    BY <2>1, FreeSeated
  <2>3. ConfigA!TokenRule = Unchecked("tokenProgram", {Fixed("token")})
    BY DEF TokenRule, ConfigA!TokenRule, ProgramRule, ConfigA!ProgramRule, Unchecked,
      ConfigA!Unchecked, Rule, ConfigA!Rule, AnyType, ConfigA!AnyType, Fixed, ConfigA!Fixed,
      Derivation, ConfigA!Derivation
  <2> QED BY <2>2, <2>3
<1>8. ASSUME T["systemProgram"] = Deployed("system")
      PROVE  P(ConfigA!SystemRule)
  <2>1. At(T, args, "systemProgram", Fixed("system"))
    BY <1>8, OtherWhere
  <2>2. Seated(Unchecked("systemProgram", {Fixed("system")}), T, args)
    BY <2>1, FreeSeated
  <2>3. ConfigA!SystemRule = Unchecked("systemProgram", {Fixed("system")})
    BY DEF SystemRule, ConfigA!SystemRule, ProgramRule, ConfigA!ProgramRule, Unchecked,
      ConfigA!Unchecked, Rule, ConfigA!Rule, AnyType, ConfigA!AnyType, Fixed, ConfigA!Fixed,
      Derivation, ConfigA!Derivation
  <2> QED BY <2>2, <2>3
<1>9. ASSUME T["globalConfig"] = Address("config", <<Lit("global_config")>>)
      PROVE  Q(ConfigC!Default("globalConfig", ConfigC!FindGlobalConfigPda))
  <2>1. At(T, args, "globalConfig", GlobalConfigPda)
    BY <1>9, OtherWhere DEF GlobalConfigPda
  <2>2. ConfigC!Default("globalConfig", ConfigC!FindGlobalConfigPda)
          = [account |-> "globalConfig", from |-> GlobalConfigPda]
    BY DEF ConfigC!Default, ConfigC!FindGlobalConfigPda, ConfigC!Derivation, ConfigC!Lit,
      GlobalConfigPda, Derivation, Lit
  <2>3. /\ "globalConfig" \notin Bottom
        /\ Reads(GlobalConfigPda) \subseteq Bottom \cup Middle \cup {"booking"}
        /\ "globalConfig" = "booking" => Reads(GlobalConfigPda) \subseteq Bottom \cup Middle
        /\ "globalConfig" \in Middle => Reads(GlobalConfigPda) \subseteq Bottom
    BY ReadsOf DEF Bottom, Middle, GlobalConfigPda
  <2> QED BY <2>1, <2>2, <2>3, SureDefault
<1>10. ASSUME T["platformVaultPda"] = Address("config", <<Lit("platform_vault")>>)
       PROVE  Q(ConfigC!Default("platformVaultPda", ConfigC!FindPlatformVaultPdaPda))
  <2>1. At(T, args, "platformVaultPda", VaultAuthorityPda)
    BY <1>10, OtherWhere DEF VaultAuthorityPda
  <2>2. ConfigC!Default("platformVaultPda", ConfigC!FindPlatformVaultPdaPda)
          = [account |-> "platformVaultPda", from |-> VaultAuthorityPda]
    BY DEF ConfigC!Default, ConfigC!FindPlatformVaultPdaPda, ConfigC!Derivation,
      ConfigC!Lit, VaultAuthorityPda, Derivation, Lit
  <2>3. /\ "platformVaultPda" \notin Bottom
        /\ Reads(VaultAuthorityPda) \subseteq Bottom \cup Middle \cup {"booking"}
        /\ "platformVaultPda" = "booking" => Reads(VaultAuthorityPda) \subseteq Bottom \cup Middle
        /\ "platformVaultPda" \in Middle => Reads(VaultAuthorityPda) \subseteq Bottom
    BY ReadsOf DEF Bottom, Middle, VaultAuthorityPda
  <2> QED BY <2>1, <2>2, <2>3, SureDefault
<1>11. ASSUME T["platformVault"] = PlatformVault
       PROVE  Q(ConfigC!Default("platformVault", ConfigC!FindPlatformVaultPda))
  <2>1. At(T, args, "platformVault", VaultPda)
    BY <1>11, OtherWhere DEF VaultPda, PlatformVault
  <2>2. ConfigC!Default("platformVault", ConfigC!FindPlatformVaultPda)
          = [account |-> "platformVault", from |-> VaultPda]
    BY DEF ConfigC!Default, ConfigC!FindPlatformVaultPda, ConfigC!Derivation, ConfigC!Lit,
      VaultPda, Derivation, Lit
  <2>3. /\ "platformVault" \notin Bottom
        /\ Reads(VaultPda) \subseteq Bottom \cup Middle \cup {"booking"}
        /\ "platformVault" = "booking" => Reads(VaultPda) \subseteq Bottom \cup Middle
        /\ "platformVault" \in Middle => Reads(VaultPda) \subseteq Bottom
    BY ReadsOf DEF Bottom, Middle, VaultPda
  <2> QED BY <2>1, <2>2, <2>3, SureDefault
<1>12. ASSUME T["tokenProgram"] = Deployed("token")
       PROVE  Q(ConfigC!Default("tokenProgram", ConfigC!Fixed("token")))
  <2>1. At(T, args, "tokenProgram", Fixed("token"))
    BY <1>12, OtherWhere
  <2>2. ConfigC!Default("tokenProgram", ConfigC!Fixed("token"))
          = [account |-> "tokenProgram", from |-> Fixed("token")]
    BY DEF ConfigC!Default, ConfigC!Derivation, ConfigC!Fixed, Fixed, Derivation
  <2>3. /\ "tokenProgram" \notin Bottom
        /\ Reads(Fixed("token")) \subseteq Bottom \cup Middle \cup {"booking"}
        /\ "tokenProgram" = "booking" => Reads(Fixed("token")) \subseteq Bottom \cup Middle
        /\ "tokenProgram" \in Middle => Reads(Fixed("token")) \subseteq Bottom
    BY ReadsOf DEF Bottom, Middle
  <2> QED BY <2>1, <2>2, <2>3, SureDefault
<1>13. ASSUME T["systemProgram"] = Deployed("system")
       PROVE  Q(ConfigC!Default("systemProgram", ConfigC!Fixed("system")))
  <2>1. At(T, args, "systemProgram", Fixed("system"))
    BY <1>13, OtherWhere
  <2>2. ConfigC!Default("systemProgram", ConfigC!Fixed("system"))
          = [account |-> "systemProgram", from |-> Fixed("system")]
    BY DEF ConfigC!Default, ConfigC!Derivation, ConfigC!Fixed, Fixed, Derivation
  <2>3. /\ "systemProgram" \notin Bottom
        /\ Reads(Fixed("system")) \subseteq Bottom \cup Middle \cup {"booking"}
        /\ "systemProgram" = "booking" => Reads(Fixed("system")) \subseteq Bottom \cup Middle
        /\ "systemProgram" \in Middle => Reads(Fixed("system")) \subseteq Bottom
    BY ReadsOf DEF Bottom, Middle
  <2> QED BY <2>1, <2>2, <2>3, SureDefault
<1>14. ASSUME T["globalConfig"] = Address("config", <<Lit("global_config")>>)
       PROVE  P(ConfigA!GlobalConfigRule)
  <2>1. /\ At(T, args, "globalConfig", GlobalConfigPda)
        /\ Type(T["globalConfig"]) \in GlobalConfigAcc
    BY <1>14, OtherWhere, PlaceKinds DEF GlobalConfigPda
  <2>2. Seated(Ro("globalConfig", GlobalConfigAcc, {GlobalConfigPda}), T, args)
    BY <2>1, KnownSeated
  <2>3. ConfigA!GlobalConfigRule = Ro("globalConfig", GlobalConfigAcc, {GlobalConfigPda})
    BY DEF GlobalConfigRule, ConfigA!GlobalConfigRule, Ro, ConfigA!Ro, Rule, ConfigA!Rule,
      GlobalConfigAcc, ConfigA!GlobalConfigAcc, GlobalConfigPda, ConfigA!GlobalConfigPda,
      Derivation, ConfigA!Derivation, Lit, ConfigA!Lit
  <2> QED BY <2>2, <2>3
<1>15. ASSUME T["authority"] = Root,
              T["globalConfig"] = Address("config", <<Lit("global_config")>>)
       PROVE  P(ConfigA!Signs("authority", {ConfigA!Held("globalConfig", "authority")}))
  <2>1. At(T, args, "authority", Held("globalConfig", "authority"))
    BY <1>15, OtherWhere
  <2>2. Seated(Signs("authority", {Held("globalConfig", "authority")}), T, args)
    BY <2>1, FreeSeated
  <2>3. ConfigA!Signs("authority", {ConfigA!Held("globalConfig", "authority")})
          = Signs("authority", {Held("globalConfig", "authority")})
    BY DEF Signs, ConfigA!Signs, Rule, ConfigA!Rule, AnyType, ConfigA!AnyType, Held,
      ConfigA!Held, Derivation, ConfigA!Derivation, Field, ConfigA!Field
  <2> QED BY <2>2, <2>3
<1>16. ASSUME T["platformVault"] = PlatformVault
       PROVE  P(ConfigA!VaultRule("platformVault"))
  <2>1. /\ At(T, args, "platformVault", Held("globalConfig", "platformVault"))
        /\ Type(T["platformVault"]) \in TokenAccount
    BY <1>16, OtherWhere, PlaceKinds
  <2>2. Seated(Mut("platformVault", TokenAccount, {Held("globalConfig", "platformVault")}), T, args)
    BY <2>1, KnownSeated
  <2>3. ConfigA!VaultRule("platformVault")
          = Mut("platformVault", TokenAccount, {Held("globalConfig", "platformVault")})
    BY DEF VaultRule, ConfigA!VaultRule, Mut, ConfigA!Mut, Rule, ConfigA!Rule, TokenAccount,
      ConfigA!TokenAccount, Held, ConfigA!Held, Derivation, ConfigA!Derivation, Field,
      ConfigA!Field
  <2> QED BY <2>2, <2>3
<1>17. ASSUME T["destinationTokenAccount"] = TokensOf(Root)
       PROVE  P(ConfigA!Mut("destinationTokenAccount", ConfigA!TokenAccount, {}))
  <2>1. Type(T["destinationTokenAccount"]) \in TokenAccount
    BY <1>17, PlaceKinds
  <2>2. Seated(Mut("destinationTokenAccount", TokenAccount, {}), T, args)
    BY <2>1, KnownSeated
  <2>3. ConfigA!Mut("destinationTokenAccount", ConfigA!TokenAccount, {})
          = Mut("destinationTokenAccount", TokenAccount, {})
    BY DEF Mut, ConfigA!Mut, Rule, ConfigA!Rule, TokenAccount, ConfigA!TokenAccount
  <2> QED BY <2>2, <2>3
<1> HIDE DEF P, Q
<1>18. Apt("initializeConfig", ConfigC!InitializeConfig, ConfigC!InitializeConfigParse,
        ConfigA!InitializeConfig)
  <2> DEFINE N == ConfigC!InitializeConfigParse
         M == Means("config", "initializeConfig", stay, as)
         L == ConfigA!InitializeConfig
         D == ConfigC!InitializeConfig.defaults
  <2>1. /\ 1 \in DOMAIN N /\ N[1] = "globalConfig"
        /\ 2 \in DOMAIN N /\ N[2] = "authority"
        /\ 3 \in DOMAIN N /\ N[3] = "platformVaultPda"
        /\ 4 \in DOMAIN N /\ N[4] = "platformVault"
        /\ 5 \in DOMAIN N /\ N[5] = "usdcMint"
        /\ 6 \in DOMAIN N /\ N[6] = "tokenProgram"
        /\ 7 \in DOMAIN N /\ N[7] = "systemProgram"
    BY DEF ConfigC!InitializeConfigParse
  <2>2. \A i \in DOMAIN N : N[i] \in PlacedNames \cup {"payer"}
    BY SMTT(60) DEF ConfigC!InitializeConfigParse, PlacedNames, OwnPlaces, SharedNames
  <2> HIDE DEF N
  <2>3. ASSUME as \in Roles("initializeConfig"), Agree(T, N, M)
        PROVE  /\ \A i \in DOMAIN L : P(L[i])
               /\ \A i \in DOMAIN D : S("initializeConfig", D[i])
    <3>0. MeantAt(M, "config", "initializeConfig", stay, as)
      BY MeansPlaces
    <3> HIDE DEF M
    <3>1. as = "guest"
      BY <2>3 DEF Roles, PartyOps, HostOps
    <3>2. /\ T["globalConfig"] = M["globalConfig"]
          /\ T["authority"] = M["authority"]
          /\ T["platformVaultPda"] = M["platformVaultPda"]
          /\ T["platformVault"] = M["platformVault"]
          /\ T["usdcMint"] = M["usdcMint"]
          /\ T["tokenProgram"] = M["tokenProgram"]
          /\ T["systemProgram"] = M["systemProgram"]
      BY <2>1, <2>3 DEF Agree
    <3>3. "initializeConfig" \in RootOps
      BY DEF RootOps
    <3>4. M["authority"] = Root
      BY <3>3, <3>0 DEF MeantAt
    <3>5. /\ M["globalConfig"] = Address("config", <<Lit("global_config")>>)
          /\ M["platformVaultPda"] = Address("config", <<Lit("platform_vault")>>)
          /\ M["platformVault"] = PlatformVault
          /\ M["usdcMint"] = Mint
          /\ M["tokenProgram"] = Deployed("token")
          /\ M["systemProgram"] = Deployed("system")
      BY <3>0 DEF MeantAt
    <3>6. /\ T["globalConfig"] = Address("config", <<Lit("global_config")>>)
          /\ T["authority"] = Root
          /\ T["platformVaultPda"] = Address("config", <<Lit("platform_vault")>>)
          /\ T["platformVault"] = PlatformVault
          /\ T["usdcMint"] = Mint
          /\ T["tokenProgram"] = Deployed("token")
          /\ T["systemProgram"] = Deployed("system")
      BY <3>2, <3>4, <3>5
    <3>7. /\ P(ConfigA!New("globalConfig", ConfigA!GlobalConfigAcc, {ConfigA!GlobalConfigPda}))
          /\ P(ConfigA!MutSigns("authority", {}))
          /\ P(ConfigA!Unchecked("platformVaultPda", {ConfigA!VaultAuthorityPda}))
          /\ P(ConfigA!New("platformVault", ConfigA!TokenAccount, {ConfigA!VaultPda}))
          /\ P(ConfigA!Ro("usdcMint", ConfigA!MintType, {}))
          /\ P(ConfigA!TokenRule)
          /\ P(ConfigA!SystemRule)
      BY <3>6, <1>2, <1>3, <1>4, <1>5, <1>6, <1>7, <1>8
    <3>8. \A i \in DOMAIN L : P(L[i])
      BY <3>7, SMTT(60) DEF ConfigA!InitializeConfig
    <3>9. /\ Q(ConfigC!Default("globalConfig", ConfigC!FindGlobalConfigPda))
          /\ Q(ConfigC!Default("platformVaultPda", ConfigC!FindPlatformVaultPdaPda))
          /\ Q(ConfigC!Default("platformVault", ConfigC!FindPlatformVaultPda))
          /\ Q(ConfigC!Default("tokenProgram", ConfigC!Fixed("token")))
          /\ Q(ConfigC!Default("systemProgram", ConfigC!Fixed("system")))
      BY <3>6, <1>9, <1>10, <1>11, <1>12, <1>13
    <3>10. \A i \in DOMAIN D : S("initializeConfig", D[i])
      BY <3>9, SMTT(60) DEF ConfigC!InitializeConfig, ConfigC!Builder
    <3> QED BY <3>8, <3>10
  <2> QED BY <2>2, <2>3 DEF N, M, D
<1>19. Apt("withdrawFees", ConfigC!WithdrawFees, ConfigC!WithdrawFeesParse, ConfigA!WithdrawFees)
  <2> DEFINE N == ConfigC!WithdrawFeesParse
         M == Means("config", "withdrawFees", stay, as)
         L == ConfigA!WithdrawFees
         D == ConfigC!WithdrawFees.defaults
  <2>1. /\ 1 \in DOMAIN N /\ N[1] = "globalConfig"
        /\ 2 \in DOMAIN N /\ N[2] = "authority"
        /\ 3 \in DOMAIN N /\ N[3] = "platformVaultPda"
        /\ 4 \in DOMAIN N /\ N[4] = "platformVault"
        /\ 5 \in DOMAIN N /\ N[5] = "destinationTokenAccount"
        /\ 6 \in DOMAIN N /\ N[6] = "usdcMint"
        /\ 7 \in DOMAIN N /\ N[7] = "tokenProgram"
    BY DEF ConfigC!WithdrawFeesParse
  <2>2. \A i \in DOMAIN N : N[i] \in PlacedNames \cup {"payer"}
    BY SMTT(60) DEF ConfigC!WithdrawFeesParse, PlacedNames, OwnPlaces, SharedNames
  <2> HIDE DEF N
  <2>3. ASSUME as \in Roles("withdrawFees"), Agree(T, N, M)
        PROVE  /\ \A i \in DOMAIN L : P(L[i])
               /\ \A i \in DOMAIN D : S("withdrawFees", D[i])
    <3>0. MeantAt(M, "config", "withdrawFees", stay, as)
      BY MeansPlaces
    <3> HIDE DEF M
    <3>1. as = "guest"
      BY <2>3 DEF Roles, PartyOps, HostOps
    <3>2. /\ T["globalConfig"] = M["globalConfig"]
          /\ T["authority"] = M["authority"]
          /\ T["platformVaultPda"] = M["platformVaultPda"]
          /\ T["platformVault"] = M["platformVault"]
          /\ T["destinationTokenAccount"] = M["destinationTokenAccount"]
          /\ T["usdcMint"] = M["usdcMint"]
          /\ T["tokenProgram"] = M["tokenProgram"]
      BY <2>1, <2>3 DEF Agree
    <3>3. "withdrawFees" \in RootOps
      BY DEF RootOps
    <3>4. M["authority"] = Root
      BY <3>3, <3>0 DEF MeantAt
    <3>5. /\ M["globalConfig"] = Address("config", <<Lit("global_config")>>)
          /\ M["platformVaultPda"] = Address("config", <<Lit("platform_vault")>>)
          /\ M["platformVault"] = PlatformVault
          /\ M["destinationTokenAccount"] = TokensOf(Root)
          /\ M["usdcMint"] = Mint
          /\ M["tokenProgram"] = Deployed("token")
      BY <3>0 DEF MeantAt
    <3>6. /\ T["globalConfig"] = Address("config", <<Lit("global_config")>>)
          /\ T["authority"] = Root
          /\ T["platformVaultPda"] = Address("config", <<Lit("platform_vault")>>)
          /\ T["platformVault"] = PlatformVault
          /\ T["destinationTokenAccount"] = TokensOf(Root)
          /\ T["usdcMint"] = Mint
          /\ T["tokenProgram"] = Deployed("token")
      BY <3>2, <3>4, <3>5
    <3>7. /\ P(ConfigA!GlobalConfigRule)
          /\ P(ConfigA!Signs("authority", {ConfigA!Held("globalConfig", "authority")}))
          /\ P(ConfigA!Unchecked("platformVaultPda", {ConfigA!VaultAuthorityPda}))
          /\ P(ConfigA!VaultRule("platformVault"))
          /\ P(ConfigA!Mut("destinationTokenAccount", ConfigA!TokenAccount, {}))
          /\ P(ConfigA!Ro("usdcMint", ConfigA!MintType, {}))
          /\ P(ConfigA!TokenRule)
      BY <3>6, <1>14, <1>15, <1>4, <1>16, <1>17, <1>6, <1>7
    <3>8. \A i \in DOMAIN L : P(L[i])
      BY <3>7, SMTT(60) DEF ConfigA!WithdrawFees
    <3>9. /\ Q(ConfigC!Default("globalConfig", ConfigC!FindGlobalConfigPda))
          /\ Q(ConfigC!Default("platformVaultPda", ConfigC!FindPlatformVaultPdaPda))
          /\ Q(ConfigC!Default("tokenProgram", ConfigC!Fixed("token")))
      BY <3>6, <1>9, <1>10, <1>12
    <3>10. \A i \in DOMAIN D : S("withdrawFees", D[i])
      BY <3>9, SMTT(60) DEF ConfigC!WithdrawFees, ConfigC!Builder
    <3> QED BY <3>8, <3>10
  <2> QED BY <2>2, <2>3 DEF N, M, D
<1> HIDE DEF Apt
<1>20. \A op \in Ops("config") :
        Apt(op, ConfigC!Plugin[op], ConfigC!Parsers[op], ConfigA!Rules[op])
  BY <1>18, <1>19 DEF Ops, Demands, ConfigA!Rules, ConfigC!Plugin, ConfigC!Parsers
<1> QED BY <1>20 DEF Apt, P, Q, S, Sound

\* The treasury.
LEMMA TreasurySeated ==
  ASSUME NEW stay, NEW as, NEW T, NEW args, args = ArgsOf(stay, as)
  PROVE  \A op \in Ops("treasury") :
           \/ CpiOnly(TreasuryC!Plugin[op])
           \/ /\ \A i \in DOMAIN TreasuryC!Parsers[op] :
                   TreasuryC!Parsers[op][i] \in PlacedNames \cup {"payer"}
              /\ (as \in Roles(op) /\ Agree(T, TreasuryC!Parsers[op],
                   Means("treasury", op, stay, as)))
                   => /\ \A i \in DOMAIN TreasuryA!Rules[op] : Seated(TreasuryA!Rules[op][i], T,
                           args)
                      /\ \A i \in DOMAIN TreasuryC!Plugin[op].defaults :
                           Sound(op, TreasuryC!Plugin[op].defaults[i], T, args)
<1> DEFINE P(rule) == Seated(rule, T, args)
<1> DEFINE Q(default) == Sure(default, T, args)
<1> DEFINE S(op, default) == <<op, default.account>> \in DivergentDefaults \/ Q(default)
<1> DEFINE Apt(op, plugin, names, rules) ==
      \/ CpiOnly(plugin)
      \/ /\ \A i \in DOMAIN names : names[i] \in PlacedNames \cup {"payer"}
         /\ (as \in Roles(op) /\ Agree(T, names, Means("treasury", op, stay, as)))
              => /\ \A i \in DOMAIN rules : P(rules[i])
                 /\ \A i \in DOMAIN plugin.defaults : S(op, plugin.defaults[i])
<1>1. /\ args["listingId"] = Stay[stay].listingId /\ args["checkIn"] = Stay[stay].checkIn
      /\ args["id"] = ActorOf(stay, as)
      /\ as = "guest" => ActorOf(stay, as) = GuestOf(stay)
      /\ as = "host" => ActorOf(stay, as) = HostOf(stay)
  BY ArgsMeant
<1>2. P(TreasuryA!MutSigns("signer", {}))
  <2>1. Seated(MutSigns("signer", {}), T, args)
    BY FreeSeated
  <2>2. TreasuryA!MutSigns("signer", {}) = MutSigns("signer", {})
    BY DEF MutSigns, TreasuryA!MutSigns, Rule, TreasuryA!Rule, AnyType, TreasuryA!AnyType
  <2> QED BY <2>1, <2>2
<1>3. ASSUME T["config"] = Address("treasury", <<Lit("treasury_config")>>)
      PROVE  P(TreasuryA!TreasuryRule("config"))
  <2>1. /\ At(T, args, "config", TreasuryConfigPda)
        /\ Type(T["config"]) \in TreasuryConfigAcc
    BY <1>3, OtherWhere, PlaceKinds DEF TreasuryConfigPda
  <2>2. Seated(Ro("config", TreasuryConfigAcc, {TreasuryConfigPda}), T, args)
    BY <2>1, KnownSeated
  <2>3. TreasuryA!TreasuryRule("config") = Ro("config", TreasuryConfigAcc, {TreasuryConfigPda})
    BY DEF TreasuryA!TreasuryRule, Ro, TreasuryA!Ro, Rule, TreasuryA!Rule,
      TreasuryConfigAcc, TreasuryA!TreasuryConfigAcc, TreasuryConfigPda,
      TreasuryA!TreasuryConfigPda, Derivation, TreasuryA!Derivation, Lit, TreasuryA!Lit
  <2> QED BY <2>2, <2>3
<1>4. ASSUME T["globalConfig"] = Address("config", <<Lit("global_config")>>)
      PROVE  P(TreasuryA!GlobalConfigRule)
  <2>1. /\ At(T, args, "globalConfig", GlobalConfigPda)
        /\ Type(T["globalConfig"]) \in GlobalConfigAcc
    BY <1>4, OtherWhere, PlaceKinds DEF GlobalConfigPda
  <2>2. Seated(Ro("globalConfig", GlobalConfigAcc, {GlobalConfigPda}), T, args)
    BY <2>1, KnownSeated
  <2>3. TreasuryA!GlobalConfigRule = Ro("globalConfig", GlobalConfigAcc, {GlobalConfigPda})
    BY DEF GlobalConfigRule, TreasuryA!GlobalConfigRule, Ro, TreasuryA!Ro, Rule,
      TreasuryA!Rule, GlobalConfigAcc, TreasuryA!GlobalConfigAcc, GlobalConfigPda,
      TreasuryA!GlobalConfigPda, Derivation, TreasuryA!Derivation, Lit, TreasuryA!Lit
  <2> QED BY <2>2, <2>3
<1>5. ASSUME T["senderTokenAccount"] = TokensOf(GuestOf(stay)),
             T["signer"] = GuestOf(stay)
      PROVE  P(TreasuryA!Mut("senderTokenAccount", TreasuryA!TokenAccount,
               {TreasuryA!TokensOfSigner("signer")}))
  <2>1. /\ At(T, args, "senderTokenAccount", TokensOfSigner("signer"))
        /\ Type(T["senderTokenAccount"]) \in TokenAccount
    BY <1>5, OtherWhere, PlaceKinds
  <2>2. Seated(Mut("senderTokenAccount", TokenAccount, {TokensOfSigner("signer")}), T, args)
    BY <2>1, KnownSeated
  <2>3. TreasuryA!Mut("senderTokenAccount", TreasuryA!TokenAccount,
          {TreasuryA!TokensOfSigner("signer")})
                  = Mut("senderTokenAccount", TokenAccount, {TokensOfSigner("signer")})
    BY DEF Mut, TreasuryA!Mut, Rule, TreasuryA!Rule, TokenAccount, TreasuryA!TokenAccount,
      TokensOfSigner, TreasuryA!TokensOfSigner, Derivation, TreasuryA!Derivation, Key,
      TreasuryA!Key
  <2> QED BY <2>2, <2>3
<1>6. ASSUME T["treasuryVault"] = TreasuryVault
      PROVE  P(TreasuryA!Mut("treasuryVault", TreasuryA!TokenAccount,
               {TreasuryA!Held("config", "treasuryVault")}))
  <2>1. /\ At(T, args, "treasuryVault", Held("config", "treasuryVault"))
        /\ Type(T["treasuryVault"]) \in TokenAccount
    BY <1>6, OtherWhere, PlaceKinds
  <2>2. Seated(Mut("treasuryVault", TokenAccount, {Held("config", "treasuryVault")}), T, args)
    BY <2>1, KnownSeated
  <2>3. TreasuryA!Mut("treasuryVault", TreasuryA!TokenAccount,
          {TreasuryA!Held("config", "treasuryVault")})
                  = Mut("treasuryVault", TokenAccount, {Held("config", "treasuryVault")})
    BY DEF Mut, TreasuryA!Mut, Rule, TreasuryA!Rule, TokenAccount, TreasuryA!TokenAccount,
      Held, TreasuryA!Held, Derivation, TreasuryA!Derivation, Field, TreasuryA!Field
  <2> QED BY <2>2, <2>3
<1>7. ASSUME T["usdcMint"] = Mint
      PROVE  P(TreasuryA!MintRule("usdcMint"))
  <2>1. /\ At(T, args, "usdcMint", Held("globalConfig", "usdcMint"))
        /\ Type(T["usdcMint"]) \in MintType
    BY <1>7, OtherWhere, PlaceKinds
  <2>2. Seated(Ro("usdcMint", MintType, {Held("globalConfig", "usdcMint")}), T, args)
    BY <2>1, KnownSeated
  <2>3. TreasuryA!MintRule("usdcMint")
          = Ro("usdcMint", MintType, {Held("globalConfig", "usdcMint")})
    BY DEF MintRule, TreasuryA!MintRule, Ro, TreasuryA!Ro, Rule, TreasuryA!Rule, MintType,
      TreasuryA!MintType, Held, TreasuryA!Held, Derivation, TreasuryA!Derivation, Field,
      TreasuryA!Field
  <2> QED BY <2>2, <2>3
<1>8. ASSUME T["tokenProgram"] = Deployed("token")
      PROVE  P(TreasuryA!TokenRule)
  <2>1. At(T, args, "tokenProgram", Fixed("token"))
    BY <1>8, OtherWhere
  <2>2. Seated(Unchecked("tokenProgram", {Fixed("token")}), T, args)
    BY <2>1, FreeSeated
  <2>3. TreasuryA!TokenRule = Unchecked("tokenProgram", {Fixed("token")})
    BY DEF TokenRule, TreasuryA!TokenRule, ProgramRule, TreasuryA!ProgramRule, Unchecked,
      TreasuryA!Unchecked, Rule, TreasuryA!Rule, AnyType, TreasuryA!AnyType, Fixed,
      TreasuryA!Fixed, Derivation, TreasuryA!Derivation
  <2> QED BY <2>2, <2>3
<1>9. ASSUME T["userProfile"] = Profiled(GuestOf(stay)),
             T["signer"] = GuestOf(stay)
      PROVE  P(TreasuryA!Mut("userProfile", TreasuryA!UserProfile, {TreasuryA!ProfileOf("signer")}))
  <2>1. /\ At(T, args, "userProfile", ProfileOf("signer"))
        /\ Type(T["userProfile"]) \in UserProfile
    BY <1>9, ProfileWhere, PlaceKinds
  <2>2. Seated(Mut("userProfile", UserProfile, {ProfileOf("signer")}), T, args)
    BY <2>1, KnownSeated
  <2>3. TreasuryA!Mut("userProfile", TreasuryA!UserProfile, {TreasuryA!ProfileOf("signer")})
          = Mut("userProfile", UserProfile, {ProfileOf("signer")})
    BY DEF Mut, TreasuryA!Mut, Rule, TreasuryA!Rule, UserProfile, TreasuryA!UserProfile,
      ProfileOf, TreasuryA!ProfileOf, Derivation, TreasuryA!Derivation, Lit, TreasuryA!Lit,
      Key, TreasuryA!Key
  <2> QED BY <2>2, <2>3
<1>10. ASSUME T["cpiAuthority"] = Address("treasury", <<Lit("cpi_authority")>>)
       PROVE  P(TreasuryA!Unchecked("cpiAuthority", {TreasuryA!CpiAuthority("treasury")}))
  <2>1. At(T, args, "cpiAuthority", CpiAuthority("treasury"))
    BY <1>10, OtherWhere DEF CpiAuthority
  <2>2. Seated(Unchecked("cpiAuthority", {CpiAuthority("treasury")}), T, args)
    BY <2>1, FreeSeated
  <2>3. TreasuryA!Unchecked("cpiAuthority", {TreasuryA!CpiAuthority("treasury")})
          = Unchecked("cpiAuthority", {CpiAuthority("treasury")})
    BY DEF Unchecked, TreasuryA!Unchecked, Rule, TreasuryA!Rule, AnyType, TreasuryA!AnyType,
      CpiAuthority, TreasuryA!CpiAuthority, Derivation, TreasuryA!Derivation, Lit,
      TreasuryA!Lit
  <2> QED BY <2>2, <2>3
<1>11. ASSUME T["staykeCoreProgram"] = Deployed("core")
       PROVE  P(TreasuryA!ProgramRule("staykeCoreProgram", "core"))
  <2>1. At(T, args, "staykeCoreProgram", Fixed("core"))
    BY <1>11, OtherWhere
  <2>2. Seated(Unchecked("staykeCoreProgram", {Fixed("core")}), T, args)
    BY <2>1, FreeSeated
  <2>3. TreasuryA!ProgramRule("staykeCoreProgram", "core")
          = Unchecked("staykeCoreProgram", {Fixed("core")})
    BY DEF ProgramRule, TreasuryA!ProgramRule, Unchecked, TreasuryA!Unchecked, Rule,
      TreasuryA!Rule, AnyType, TreasuryA!AnyType, Fixed, TreasuryA!Fixed, Derivation,
      TreasuryA!Derivation
  <2> QED BY <2>2, <2>3
<1>12. ASSUME T["config"] = Address("treasury", <<Lit("treasury_config")>>)
       PROVE  Q(TreasuryC!Default("config", TreasuryC!FindConfigPda))
  <2>1. At(T, args, "config", TreasuryConfigPda)
    BY <1>12, OtherWhere DEF TreasuryConfigPda
  <2>2. TreasuryC!Default("config", TreasuryC!FindConfigPda)
          = [account |-> "config", from |-> TreasuryConfigPda]
    BY DEF TreasuryC!Default, TreasuryC!FindConfigPda, TreasuryC!Derivation, TreasuryC!Lit,
      TreasuryConfigPda, Derivation, Lit
  <2>3. /\ "config" \notin Bottom
        /\ Reads(TreasuryConfigPda) \subseteq Bottom \cup Middle \cup {"booking"}
        /\ "config" = "booking" => Reads(TreasuryConfigPda) \subseteq Bottom \cup Middle
        /\ "config" \in Middle => Reads(TreasuryConfigPda) \subseteq Bottom
    BY ReadsOf DEF Bottom, Middle, TreasuryConfigPda
  <2> QED BY <2>1, <2>2, <2>3, SureDefault
<1>13. ASSUME T["globalConfig"] = Address("config", <<Lit("global_config")>>)
       PROVE  Q(TreasuryC!Default("globalConfig", TreasuryC!GlobalConfig))
  <2>1. At(T, args, "globalConfig", GlobalConfigPda)
    BY <1>13, OtherWhere DEF GlobalConfigPda
  <2>2. TreasuryC!Default("globalConfig", TreasuryC!GlobalConfig)
          = [account |-> "globalConfig", from |-> GlobalConfigPda]
    BY DEF TreasuryC!Default, TreasuryC!GlobalConfig, TreasuryC!Derivation, TreasuryC!Lit,
      GlobalConfigPda, Derivation, Lit
  <2>3. /\ "globalConfig" \notin Bottom
        /\ Reads(GlobalConfigPda) \subseteq Bottom \cup Middle \cup {"booking"}
        /\ "globalConfig" = "booking" => Reads(GlobalConfigPda) \subseteq Bottom \cup Middle
        /\ "globalConfig" \in Middle => Reads(GlobalConfigPda) \subseteq Bottom
    BY ReadsOf DEF Bottom, Middle, GlobalConfigPda
  <2> QED BY <2>1, <2>2, <2>3, SureDefault
<1>14. ASSUME T["tokenProgram"] = Deployed("token")
       PROVE  Q(TreasuryC!Default("tokenProgram", TreasuryC!Fixed("token")))
  <2>1. At(T, args, "tokenProgram", Fixed("token"))
    BY <1>14, OtherWhere
  <2>2. TreasuryC!Default("tokenProgram", TreasuryC!Fixed("token"))
          = [account |-> "tokenProgram", from |-> Fixed("token")]
    BY DEF TreasuryC!Default, TreasuryC!Derivation, TreasuryC!Fixed, Fixed, Derivation
  <2>3. /\ "tokenProgram" \notin Bottom
        /\ Reads(Fixed("token")) \subseteq Bottom \cup Middle \cup {"booking"}
        /\ "tokenProgram" = "booking" => Reads(Fixed("token")) \subseteq Bottom \cup Middle
        /\ "tokenProgram" \in Middle => Reads(Fixed("token")) \subseteq Bottom
    BY ReadsOf DEF Bottom, Middle
  <2> QED BY <2>1, <2>2, <2>3, SureDefault
<1>15. ASSUME T["cpiAuthority"] = Address("treasury", <<Lit("cpi_authority")>>)
       PROVE  Q(TreasuryC!Default("cpiAuthority", TreasuryC!FindCpiAuthorityPda))
  <2>1. At(T, args, "cpiAuthority", CpiAuthority("treasury"))
    BY <1>15, OtherWhere DEF CpiAuthority
  <2>2. TreasuryC!Default("cpiAuthority", TreasuryC!FindCpiAuthorityPda)
          = [account |-> "cpiAuthority", from |-> CpiAuthority("treasury")]
    BY DEF TreasuryC!Default, TreasuryC!FindCpiAuthorityPda, TreasuryC!Derivation,
      TreasuryC!Lit, CpiAuthority, Derivation, Lit
  <2>3. /\ "cpiAuthority" \notin Bottom
        /\ Reads(CpiAuthority("treasury")) \subseteq Bottom \cup Middle \cup {"booking"}
        /\ "cpiAuthority"
             = "booking" => Reads(CpiAuthority("treasury")) \subseteq Bottom \cup Middle
        /\ "cpiAuthority" \in Middle => Reads(CpiAuthority("treasury")) \subseteq Bottom
    BY ReadsOf DEF Bottom, Middle, CpiAuthority
  <2> QED BY <2>1, <2>2, <2>3, SureDefault
<1>16. ASSUME T["staykeCoreProgram"] = Deployed("core")
       PROVE  Q(TreasuryC!Default("staykeCoreProgram", TreasuryC!Fixed("core")))
  <2>1. At(T, args, "staykeCoreProgram", Fixed("core"))
    BY <1>16, OtherWhere
  <2>2. TreasuryC!Default("staykeCoreProgram", TreasuryC!Fixed("core"))
          = [account |-> "staykeCoreProgram", from |-> Fixed("core")]
    BY DEF TreasuryC!Default, TreasuryC!Derivation, TreasuryC!Fixed, Fixed, Derivation
  <2>3. /\ "staykeCoreProgram" \notin Bottom
        /\ Reads(Fixed("core")) \subseteq Bottom \cup Middle \cup {"booking"}
        /\ "staykeCoreProgram" = "booking" => Reads(Fixed("core")) \subseteq Bottom \cup Middle
        /\ "staykeCoreProgram" \in Middle => Reads(Fixed("core")) \subseteq Bottom
    BY ReadsOf DEF Bottom, Middle
  <2> QED BY <2>1, <2>2, <2>3, SureDefault
<1>17. P(TreasuryA!MutSigns("authority", {}))
  <2>1. Seated(MutSigns("authority", {}), T, args)
    BY FreeSeated
  <2>2. TreasuryA!MutSigns("authority", {}) = MutSigns("authority", {})
    BY DEF MutSigns, TreasuryA!MutSigns, Rule, TreasuryA!Rule, AnyType, TreasuryA!AnyType
  <2> QED BY <2>1, <2>2
<1>18. ASSUME T["config"] = Address("treasury", <<Lit("treasury_config")>>)
       PROVE  P(TreasuryA!New("config", TreasuryA!TreasuryConfigAcc, {TreasuryA!TreasuryConfigPda}))
  <2>1. At(T, args, "config", TreasuryConfigPda)
    BY <1>18, OtherWhere DEF TreasuryConfigPda
  <2>2. Seated(New("config", TreasuryConfigAcc, {TreasuryConfigPda}), T, args)
    BY <2>1, NewSeated
  <2>3. TreasuryA!New("config", TreasuryA!TreasuryConfigAcc, {TreasuryA!TreasuryConfigPda})
          = New("config", TreasuryConfigAcc, {TreasuryConfigPda})
    BY DEF New, TreasuryA!New, Rule, TreasuryA!Rule, TreasuryConfigAcc,
      TreasuryA!TreasuryConfigAcc, TreasuryConfigPda, TreasuryA!TreasuryConfigPda,
      Derivation, TreasuryA!Derivation, Lit, TreasuryA!Lit
  <2> QED BY <2>2, <2>3
<1>19. ASSUME T["treasuryPda"] = Address("treasury", <<Lit("treasury")>>)
       PROVE  P(TreasuryA!Unchecked("treasuryPda", {TreasuryA!TreasuryPda}))
  <2>1. At(T, args, "treasuryPda", TreasuryPda)
    BY <1>19, OtherWhere DEF TreasuryPda
  <2>2. Seated(Unchecked("treasuryPda", {TreasuryPda}), T, args)
    BY <2>1, FreeSeated
  <2>3. TreasuryA!Unchecked("treasuryPda", {TreasuryA!TreasuryPda})
          = Unchecked("treasuryPda", {TreasuryPda})
    BY DEF Unchecked, TreasuryA!Unchecked, Rule, TreasuryA!Rule, AnyType, TreasuryA!AnyType,
      TreasuryPda, TreasuryA!TreasuryPda, Derivation, TreasuryA!Derivation, Lit,
      TreasuryA!Lit
  <2> QED BY <2>2, <2>3
<1>20. ASSUME T["treasuryVault"] = TreasuryVault
       PROVE  P(TreasuryA!New("treasuryVault", TreasuryA!TokenAccount,
                {TreasuryA!TreasuryVaultPda}))
  <2>1. At(T, args, "treasuryVault", TreasuryVaultPda)
    BY <1>20, OtherWhere DEF TreasuryVaultPda, TreasuryVault
  <2>2. Seated(New("treasuryVault", TokenAccount, {TreasuryVaultPda}), T, args)
    BY <2>1, NewSeated
  <2>3. TreasuryA!New("treasuryVault", TreasuryA!TokenAccount, {TreasuryA!TreasuryVaultPda})
          = New("treasuryVault", TokenAccount, {TreasuryVaultPda})
    BY DEF New, TreasuryA!New, Rule, TreasuryA!Rule, TokenAccount, TreasuryA!TokenAccount,
      TreasuryVaultPda, TreasuryA!TreasuryVaultPda, Derivation, TreasuryA!Derivation, Lit,
      TreasuryA!Lit
  <2> QED BY <2>2, <2>3
<1>21. ASSUME T["systemProgram"] = Deployed("system")
       PROVE  P(TreasuryA!SystemRule)
  <2>1. At(T, args, "systemProgram", Fixed("system"))
    BY <1>21, OtherWhere
  <2>2. Seated(Unchecked("systemProgram", {Fixed("system")}), T, args)
    BY <2>1, FreeSeated
  <2>3. TreasuryA!SystemRule = Unchecked("systemProgram", {Fixed("system")})
    BY DEF SystemRule, TreasuryA!SystemRule, ProgramRule, TreasuryA!ProgramRule, Unchecked,
      TreasuryA!Unchecked, Rule, TreasuryA!Rule, AnyType, TreasuryA!AnyType, Fixed,
      TreasuryA!Fixed, Derivation, TreasuryA!Derivation
  <2> QED BY <2>2, <2>3
<1>22. ASSUME T["treasuryPda"] = Address("treasury", <<Lit("treasury")>>)
       PROVE  Q(TreasuryC!Default("treasuryPda", TreasuryC!FindTreasuryPdaPda))
  <2>1. At(T, args, "treasuryPda", TreasuryPda)
    BY <1>22, OtherWhere DEF TreasuryPda
  <2>2. TreasuryC!Default("treasuryPda", TreasuryC!FindTreasuryPdaPda)
          = [account |-> "treasuryPda", from |-> TreasuryPda]
    BY DEF TreasuryC!Default, TreasuryC!FindTreasuryPdaPda, TreasuryC!Derivation,
      TreasuryC!Lit, TreasuryPda, Derivation, Lit
  <2>3. /\ "treasuryPda" \notin Bottom
        /\ Reads(TreasuryPda) \subseteq Bottom \cup Middle \cup {"booking"}
        /\ "treasuryPda" = "booking" => Reads(TreasuryPda) \subseteq Bottom \cup Middle
        /\ "treasuryPda" \in Middle => Reads(TreasuryPda) \subseteq Bottom
    BY ReadsOf DEF Bottom, Middle, TreasuryPda
  <2> QED BY <2>1, <2>2, <2>3, SureDefault
<1>23. ASSUME T["treasuryVault"] = TreasuryVault
       PROVE  Q(TreasuryC!Default("treasuryVault", TreasuryC!FindTreasuryVaultPda))
  <2>1. At(T, args, "treasuryVault", TreasuryVaultPda)
    BY <1>23, OtherWhere DEF TreasuryVaultPda, TreasuryVault
  <2>2. TreasuryC!Default("treasuryVault", TreasuryC!FindTreasuryVaultPda)
          = [account |-> "treasuryVault", from |-> TreasuryVaultPda]
    BY DEF TreasuryC!Default, TreasuryC!FindTreasuryVaultPda, TreasuryC!Derivation,
      TreasuryC!Lit, TreasuryVaultPda, Derivation, Lit
  <2>3. /\ "treasuryVault" \notin Bottom
        /\ Reads(TreasuryVaultPda) \subseteq Bottom \cup Middle \cup {"booking"}
        /\ "treasuryVault" = "booking" => Reads(TreasuryVaultPda) \subseteq Bottom \cup Middle
        /\ "treasuryVault" \in Middle => Reads(TreasuryVaultPda) \subseteq Bottom
    BY ReadsOf DEF Bottom, Middle, TreasuryVaultPda
  <2> QED BY <2>1, <2>2, <2>3, SureDefault
<1>24. ASSUME T["systemProgram"] = Deployed("system")
       PROVE  Q(TreasuryC!Default("systemProgram", TreasuryC!Fixed("system")))
  <2>1. At(T, args, "systemProgram", Fixed("system"))
    BY <1>24, OtherWhere
  <2>2. TreasuryC!Default("systemProgram", TreasuryC!Fixed("system"))
          = [account |-> "systemProgram", from |-> Fixed("system")]
    BY DEF TreasuryC!Default, TreasuryC!Derivation, TreasuryC!Fixed, Fixed, Derivation
  <2>3. /\ "systemProgram" \notin Bottom
        /\ Reads(Fixed("system")) \subseteq Bottom \cup Middle \cup {"booking"}
        /\ "systemProgram" = "booking" => Reads(Fixed("system")) \subseteq Bottom \cup Middle
        /\ "systemProgram" \in Middle => Reads(Fixed("system")) \subseteq Bottom
    BY ReadsOf DEF Bottom, Middle
  <2> QED BY <2>1, <2>2, <2>3, SureDefault
<1>25. ASSUME T["userTokenAccount"] = TokensOf(GuestOf(stay))
       PROVE  P(TreasuryA!Mut("userTokenAccount", TreasuryA!TokenAccount, {}))
  <2>1. Type(T["userTokenAccount"]) \in TokenAccount
    BY <1>25, PlaceKinds
  <2>2. Seated(Mut("userTokenAccount", TokenAccount, {}), T, args)
    BY <2>1, KnownSeated
  <2>3. TreasuryA!Mut("userTokenAccount", TreasuryA!TokenAccount, {})
          = Mut("userTokenAccount", TokenAccount, {})
    BY DEF Mut, TreasuryA!Mut, Rule, TreasuryA!Rule, TokenAccount, TreasuryA!TokenAccount
  <2> QED BY <2>2, <2>3
<1> HIDE DEF P, Q
<1>26. Apt("cpiPenalizeTransfer", TreasuryC!CpiPenalizeTransfer,
        TreasuryC!CpiPenalizeTransferParse, TreasuryA!PenalizeTransferCpi)
  <2>1. LET metas == TreasuryC!CpiPenalizeTransfer.accounts
        IN 1 \in DOMAIN metas /\ metas[1].name = "cpiAuthority" /\ metas[1].signer
    BY DEF TreasuryC!CpiPenalizeTransfer, TreasuryC!Builder, TreasuryC!Meta, TreasuryC!R,
            TreasuryC!W, TreasuryC!RS, TreasuryC!WS
  <2> QED BY <2>1 DEF CpiOnly
<1>27. Apt("depositGuarantee", TreasuryC!DepositGuarantee, TreasuryC!DepositGuaranteeParse,
        TreasuryA!DepositGuarantee)
  <2> DEFINE N == TreasuryC!DepositGuaranteeParse
         M == Means("treasury", "depositGuarantee", stay, as)
         L == TreasuryA!DepositGuarantee
         D == TreasuryC!DepositGuarantee.defaults
  <2>1. /\ 1 \in DOMAIN N /\ N[1] = "signer"
        /\ 2 \in DOMAIN N /\ N[2] = "config"
        /\ 3 \in DOMAIN N /\ N[3] = "globalConfig"
        /\ 4 \in DOMAIN N /\ N[4] = "senderTokenAccount"
        /\ 5 \in DOMAIN N /\ N[5] = "treasuryVault"
        /\ 6 \in DOMAIN N /\ N[6] = "usdcMint"
        /\ 7 \in DOMAIN N /\ N[7] = "tokenProgram"
        /\ 8 \in DOMAIN N /\ N[8] = "userProfile"
        /\ 9 \in DOMAIN N /\ N[9] = "cpiAuthority"
        /\ 10 \in DOMAIN N /\ N[10] = "staykeCoreProgram"
    BY DEF TreasuryC!DepositGuaranteeParse
  <2>2. \A i \in DOMAIN N : N[i] \in PlacedNames \cup {"payer"}
    BY SMTT(60) DEF TreasuryC!DepositGuaranteeParse, PlacedNames, OwnPlaces, SharedNames
  <2> HIDE DEF N
  <2>3. ASSUME as \in Roles("depositGuarantee"), Agree(T, N, M)
        PROVE  /\ \A i \in DOMAIN L : P(L[i])
               /\ \A i \in DOMAIN D : S("depositGuarantee", D[i])
    <3>0. MeantAt(M, "treasury", "depositGuarantee", stay, as)
      BY MeansPlaces
    <3> HIDE DEF M
    <3>1. as = "guest"
      BY <2>3 DEF Roles, PartyOps, HostOps
    <3>2. /\ T["signer"] = M["signer"]
          /\ T["config"] = M["config"]
          /\ T["globalConfig"] = M["globalConfig"]
          /\ T["senderTokenAccount"] = M["senderTokenAccount"]
          /\ T["treasuryVault"] = M["treasuryVault"]
          /\ T["usdcMint"] = M["usdcMint"]
          /\ T["tokenProgram"] = M["tokenProgram"]
          /\ T["userProfile"] = M["userProfile"]
          /\ T["cpiAuthority"] = M["cpiAuthority"]
          /\ T["staykeCoreProgram"] = M["staykeCoreProgram"]
      BY <2>1, <2>3 DEF Agree
    <3>3. ConfigOf("treasury") = Address("treasury", <<Lit("treasury_config")>>)
      BY DEF ConfigOf
    <3>4. ActorOf(stay, as) = GuestOf(stay)
      BY <3>1, <1>1
    <3>5. /\ M["signer"] = ActorOf(stay, as)
          /\ M["config"] = Address("treasury", <<Lit("treasury_config")>>)
          /\ M["globalConfig"] = Address("config", <<Lit("global_config")>>)
          /\ M["senderTokenAccount"] = TokensOf(ActorOf(stay, as))
          /\ M["treasuryVault"] = TreasuryVault
          /\ M["usdcMint"] = Mint
          /\ M["tokenProgram"] = Deployed("token")
          /\ M["userProfile"] = Profiled(ActorOf(stay, as))
          /\ M["cpiAuthority"] = Address("treasury", <<Lit("cpi_authority")>>)
          /\ M["staykeCoreProgram"] = Deployed("core")
      BY <3>3, <3>0 DEF MeantAt
    <3>6. /\ T["signer"] = GuestOf(stay)
          /\ T["config"] = Address("treasury", <<Lit("treasury_config")>>)
          /\ T["globalConfig"] = Address("config", <<Lit("global_config")>>)
          /\ T["senderTokenAccount"] = TokensOf(GuestOf(stay))
          /\ T["treasuryVault"] = TreasuryVault
          /\ T["usdcMint"] = Mint
          /\ T["tokenProgram"] = Deployed("token")
          /\ T["userProfile"] = Profiled(GuestOf(stay))
          /\ T["cpiAuthority"] = Address("treasury", <<Lit("cpi_authority")>>)
          /\ T["staykeCoreProgram"] = Deployed("core")
      BY <3>2, <3>4, <3>5
    <3>7. /\ P(TreasuryA!MutSigns("signer", {}))
          /\ P(TreasuryA!TreasuryRule("config"))
          /\ P(TreasuryA!GlobalConfigRule)
          /\ P(TreasuryA!Mut("senderTokenAccount", TreasuryA!TokenAccount,
               {TreasuryA!TokensOfSigner("signer")}))
          /\ P(TreasuryA!Mut("treasuryVault", TreasuryA!TokenAccount,
               {TreasuryA!Held("config", "treasuryVault")}))
          /\ P(TreasuryA!MintRule("usdcMint"))
          /\ P(TreasuryA!TokenRule)
          /\ P(TreasuryA!Mut("userProfile", TreasuryA!UserProfile, {TreasuryA!ProfileOf("signer")}))
          /\ P(TreasuryA!Unchecked("cpiAuthority", {TreasuryA!CpiAuthority("treasury")}))
          /\ P(TreasuryA!ProgramRule("staykeCoreProgram", "core"))
      BY <3>6, <1>2, <1>3, <1>4, <1>5, <1>6, <1>7, <1>8, <1>9, <1>10, <1>11
    <3>8. \A i \in DOMAIN L : P(L[i])
      BY <3>7, SMTT(60) DEF TreasuryA!DepositGuarantee
    <3>9. /\ Q(TreasuryC!Default("config", TreasuryC!FindConfigPda))
          /\ Q(TreasuryC!Default("globalConfig", TreasuryC!GlobalConfig))
          /\ Q(TreasuryC!Default("tokenProgram", TreasuryC!Fixed("token")))
          /\ Q(TreasuryC!Default("cpiAuthority", TreasuryC!FindCpiAuthorityPda))
          /\ Q(TreasuryC!Default("staykeCoreProgram", TreasuryC!Fixed("core")))
      BY <3>6, <1>12, <1>13, <1>14, <1>15, <1>16
    <3>10. \A i \in DOMAIN D : S("depositGuarantee", D[i])
      <4>1. <<"depositGuarantee", "userProfile">> \in DivergentDefaults
        BY DEF DivergentDefaults
      <4>2. TreasuryC!Default("userProfile", TreasuryC!FindUserProfilePda("signer")).account
              = "userProfile"
        BY DEF TreasuryC!Default
      <4> QED BY <4>1, <4>2, <3>9, SMTT(60) DEF TreasuryC!DepositGuarantee, TreasuryC!Builder
    <3> QED BY <3>8, <3>10
  <2> QED BY <2>2, <2>3 DEF N, M, D
<1>28. Apt("initializeTreasury", TreasuryC!InitializeTreasury, TreasuryC!InitializeTreasuryParse,
        TreasuryA!InitializeTreasury)
  <2> DEFINE N == TreasuryC!InitializeTreasuryParse
         M == Means("treasury", "initializeTreasury", stay, as)
         L == TreasuryA!InitializeTreasury
         D == TreasuryC!InitializeTreasury.defaults
  <2>1. /\ 1 \in DOMAIN N /\ N[1] = "authority"
        /\ 2 \in DOMAIN N /\ N[2] = "config"
        /\ 3 \in DOMAIN N /\ N[3] = "treasuryPda"
        /\ 4 \in DOMAIN N /\ N[4] = "treasuryVault"
        /\ 5 \in DOMAIN N /\ N[5] = "usdcMint"
        /\ 6 \in DOMAIN N /\ N[6] = "globalConfig"
        /\ 7 \in DOMAIN N /\ N[7] = "tokenProgram"
        /\ 8 \in DOMAIN N /\ N[8] = "systemProgram"
    BY DEF TreasuryC!InitializeTreasuryParse
  <2>2. \A i \in DOMAIN N : N[i] \in PlacedNames \cup {"payer"}
    BY SMTT(60) DEF TreasuryC!InitializeTreasuryParse, PlacedNames, OwnPlaces, SharedNames
  <2> HIDE DEF N
  <2>3. ASSUME as \in Roles("initializeTreasury"), Agree(T, N, M)
        PROVE  /\ \A i \in DOMAIN L : P(L[i])
               /\ \A i \in DOMAIN D : S("initializeTreasury", D[i])
    <3>0. MeantAt(M, "treasury", "initializeTreasury", stay, as)
      BY MeansPlaces
    <3> HIDE DEF M
    <3>1. as = "guest"
      BY <2>3 DEF Roles, PartyOps, HostOps
    <3>2. /\ T["authority"] = M["authority"]
          /\ T["config"] = M["config"]
          /\ T["treasuryPda"] = M["treasuryPda"]
          /\ T["treasuryVault"] = M["treasuryVault"]
          /\ T["usdcMint"] = M["usdcMint"]
          /\ T["globalConfig"] = M["globalConfig"]
          /\ T["tokenProgram"] = M["tokenProgram"]
          /\ T["systemProgram"] = M["systemProgram"]
      BY <2>1, <2>3 DEF Agree
    <3>3. ConfigOf("treasury")
            = Address("treasury", <<Lit("treasury_config")>>) /\ "initializeTreasury" \in RootOps
      BY DEF ConfigOf, RootOps
    <3>4. M["authority"] = Root
      BY <3>3, <3>0 DEF MeantAt
    <3>5. /\ M["config"] = Address("treasury", <<Lit("treasury_config")>>)
          /\ M["treasuryPda"] = Address("treasury", <<Lit("treasury")>>)
          /\ M["treasuryVault"] = TreasuryVault
          /\ M["usdcMint"] = Mint
          /\ M["globalConfig"] = Address("config", <<Lit("global_config")>>)
          /\ M["tokenProgram"] = Deployed("token")
          /\ M["systemProgram"] = Deployed("system")
      BY <3>3, <3>0 DEF MeantAt
    <3>6. /\ T["authority"] = Root
          /\ T["config"] = Address("treasury", <<Lit("treasury_config")>>)
          /\ T["treasuryPda"] = Address("treasury", <<Lit("treasury")>>)
          /\ T["treasuryVault"] = TreasuryVault
          /\ T["usdcMint"] = Mint
          /\ T["globalConfig"] = Address("config", <<Lit("global_config")>>)
          /\ T["tokenProgram"] = Deployed("token")
          /\ T["systemProgram"] = Deployed("system")
      BY <3>2, <3>4, <3>5
    <3>7. /\ P(TreasuryA!MutSigns("authority", {}))
          /\ P(TreasuryA!New("config", TreasuryA!TreasuryConfigAcc, {TreasuryA!TreasuryConfigPda}))
          /\ P(TreasuryA!Unchecked("treasuryPda", {TreasuryA!TreasuryPda}))
          /\ P(TreasuryA!New("treasuryVault", TreasuryA!TokenAccount, {TreasuryA!TreasuryVaultPda}))
          /\ P(TreasuryA!MintRule("usdcMint"))
          /\ P(TreasuryA!GlobalConfigRule)
          /\ P(TreasuryA!TokenRule)
          /\ P(TreasuryA!SystemRule)
      BY <3>6, <1>17, <1>18, <1>19, <1>20, <1>7, <1>4, <1>8, <1>21
    <3>8. \A i \in DOMAIN L : P(L[i])
      BY <3>7, SMTT(60) DEF TreasuryA!InitializeTreasury
    <3>9. /\ Q(TreasuryC!Default("config", TreasuryC!FindConfigPda))
          /\ Q(TreasuryC!Default("treasuryPda", TreasuryC!FindTreasuryPdaPda))
          /\ Q(TreasuryC!Default("treasuryVault", TreasuryC!FindTreasuryVaultPda))
          /\ Q(TreasuryC!Default("globalConfig", TreasuryC!GlobalConfig))
          /\ Q(TreasuryC!Default("tokenProgram", TreasuryC!Fixed("token")))
          /\ Q(TreasuryC!Default("systemProgram", TreasuryC!Fixed("system")))
      BY <3>6, <1>12, <1>22, <1>23, <1>13, <1>14, <1>24
    <3>10. \A i \in DOMAIN D : S("initializeTreasury", D[i])
      BY <3>9, SMTT(60) DEF TreasuryC!InitializeTreasury, TreasuryC!Builder
    <3> QED BY <3>8, <3>10
  <2> QED BY <2>2, <2>3 DEF N, M, D
<1>29. Apt("withdrawGuarantee", TreasuryC!WithdrawGuarantee, TreasuryC!WithdrawGuaranteeParse,
        TreasuryA!WithdrawGuarantee)
  <2> DEFINE N == TreasuryC!WithdrawGuaranteeParse
         M == Means("treasury", "withdrawGuarantee", stay, as)
         L == TreasuryA!WithdrawGuarantee
         D == TreasuryC!WithdrawGuarantee.defaults
  <2>1. /\ 1 \in DOMAIN N /\ N[1] = "signer"
        /\ 2 \in DOMAIN N /\ N[2] = "config"
        /\ 3 \in DOMAIN N /\ N[3] = "globalConfig"
        /\ 4 \in DOMAIN N /\ N[4] = "treasuryVault"
        /\ 5 \in DOMAIN N /\ N[5] = "treasuryPda"
        /\ 6 \in DOMAIN N /\ N[6] = "userTokenAccount"
        /\ 7 \in DOMAIN N /\ N[7] = "usdcMint"
        /\ 8 \in DOMAIN N /\ N[8] = "tokenProgram"
        /\ 9 \in DOMAIN N /\ N[9] = "userProfile"
        /\ 10 \in DOMAIN N /\ N[10] = "cpiAuthority"
        /\ 11 \in DOMAIN N /\ N[11] = "staykeCoreProgram"
    BY DEF TreasuryC!WithdrawGuaranteeParse
  <2>2. \A i \in DOMAIN N : N[i] \in PlacedNames \cup {"payer"}
    BY SMTT(60) DEF TreasuryC!WithdrawGuaranteeParse, PlacedNames, OwnPlaces, SharedNames
  <2> HIDE DEF N
  <2>3. ASSUME as \in Roles("withdrawGuarantee"), Agree(T, N, M)
        PROVE  /\ \A i \in DOMAIN L : P(L[i])
               /\ \A i \in DOMAIN D : S("withdrawGuarantee", D[i])
    <3>0. MeantAt(M, "treasury", "withdrawGuarantee", stay, as)
      BY MeansPlaces
    <3> HIDE DEF M
    <3>1. as = "guest"
      BY <2>3 DEF Roles, PartyOps, HostOps
    <3>2. /\ T["signer"] = M["signer"]
          /\ T["config"] = M["config"]
          /\ T["globalConfig"] = M["globalConfig"]
          /\ T["treasuryVault"] = M["treasuryVault"]
          /\ T["treasuryPda"] = M["treasuryPda"]
          /\ T["userTokenAccount"] = M["userTokenAccount"]
          /\ T["usdcMint"] = M["usdcMint"]
          /\ T["tokenProgram"] = M["tokenProgram"]
          /\ T["userProfile"] = M["userProfile"]
          /\ T["cpiAuthority"] = M["cpiAuthority"]
          /\ T["staykeCoreProgram"] = M["staykeCoreProgram"]
      BY <2>1, <2>3 DEF Agree
    <3>3. ConfigOf("treasury") = Address("treasury", <<Lit("treasury_config")>>)
      BY DEF ConfigOf
    <3>4. ActorOf(stay, as) = GuestOf(stay)
      BY <3>1, <1>1
    <3>5. /\ M["signer"] = ActorOf(stay, as)
          /\ M["config"] = Address("treasury", <<Lit("treasury_config")>>)
          /\ M["globalConfig"] = Address("config", <<Lit("global_config")>>)
          /\ M["treasuryVault"] = TreasuryVault
          /\ M["treasuryPda"] = Address("treasury", <<Lit("treasury")>>)
          /\ M["userTokenAccount"] = TokensOf(ActorOf(stay, as))
          /\ M["usdcMint"] = Mint
          /\ M["tokenProgram"] = Deployed("token")
          /\ M["userProfile"] = Profiled(ActorOf(stay, as))
          /\ M["cpiAuthority"] = Address("treasury", <<Lit("cpi_authority")>>)
          /\ M["staykeCoreProgram"] = Deployed("core")
      BY <3>3, <3>0 DEF MeantAt
    <3>6. /\ T["signer"] = GuestOf(stay)
          /\ T["config"] = Address("treasury", <<Lit("treasury_config")>>)
          /\ T["globalConfig"] = Address("config", <<Lit("global_config")>>)
          /\ T["treasuryVault"] = TreasuryVault
          /\ T["treasuryPda"] = Address("treasury", <<Lit("treasury")>>)
          /\ T["userTokenAccount"] = TokensOf(GuestOf(stay))
          /\ T["usdcMint"] = Mint
          /\ T["tokenProgram"] = Deployed("token")
          /\ T["userProfile"] = Profiled(GuestOf(stay))
          /\ T["cpiAuthority"] = Address("treasury", <<Lit("cpi_authority")>>)
          /\ T["staykeCoreProgram"] = Deployed("core")
      BY <3>2, <3>4, <3>5
    <3>7. /\ P(TreasuryA!MutSigns("signer", {}))
          /\ P(TreasuryA!TreasuryRule("config"))
          /\ P(TreasuryA!GlobalConfigRule)
          /\ P(TreasuryA!Mut("treasuryVault", TreasuryA!TokenAccount,
               {TreasuryA!Held("config", "treasuryVault")}))
          /\ P(TreasuryA!Unchecked("treasuryPda", {TreasuryA!TreasuryPda}))
          /\ P(TreasuryA!Mut("userTokenAccount", TreasuryA!TokenAccount, {}))
          /\ P(TreasuryA!MintRule("usdcMint"))
          /\ P(TreasuryA!TokenRule)
          /\ P(TreasuryA!Mut("userProfile", TreasuryA!UserProfile, {TreasuryA!ProfileOf("signer")}))
          /\ P(TreasuryA!Unchecked("cpiAuthority", {TreasuryA!CpiAuthority("treasury")}))
          /\ P(TreasuryA!ProgramRule("staykeCoreProgram", "core"))
      BY <3>6, <1>2, <1>3, <1>4, <1>6, <1>19, <1>25, <1>7, <1>8, <1>9, <1>10, <1>11
    <3>8. \A i \in DOMAIN L : P(L[i])
      BY <3>7, SMTT(60) DEF TreasuryA!WithdrawGuarantee
    <3>9. /\ Q(TreasuryC!Default("config", TreasuryC!FindConfigPda))
          /\ Q(TreasuryC!Default("globalConfig", TreasuryC!GlobalConfig))
          /\ Q(TreasuryC!Default("treasuryPda", TreasuryC!FindTreasuryPdaPda))
          /\ Q(TreasuryC!Default("tokenProgram", TreasuryC!Fixed("token")))
          /\ Q(TreasuryC!Default("cpiAuthority", TreasuryC!FindCpiAuthorityPda))
          /\ Q(TreasuryC!Default("staykeCoreProgram", TreasuryC!Fixed("core")))
      BY <3>6, <1>12, <1>13, <1>22, <1>14, <1>15, <1>16
    <3>10. \A i \in DOMAIN D : S("withdrawGuarantee", D[i])
      <4>1. <<"withdrawGuarantee", "userProfile">> \in DivergentDefaults
        BY DEF DivergentDefaults
      <4>2. TreasuryC!Default("userProfile", TreasuryC!FindUserProfilePda("signer")).account
              = "userProfile"
        BY DEF TreasuryC!Default
      <4> QED BY <4>1, <4>2, <3>9, SMTT(60) DEF TreasuryC!WithdrawGuarantee, TreasuryC!Builder
    <3> QED BY <3>8, <3>10
  <2> QED BY <2>2, <2>3 DEF N, M, D
<1> HIDE DEF Apt
<1>30. \A op \in Ops("treasury") :
        Apt(op, TreasuryC!Plugin[op], TreasuryC!Parsers[op], TreasuryA!Rules[op])
  BY <1>26, <1>27, <1>28, <1>29 DEF Ops, Demands, TreasuryA!Rules, TreasuryC!Plugin,
    TreasuryC!Parsers
<1> QED BY <1>30 DEF Apt, P, Q, S, Sound

\* The core program: profiles, identities and listings.
LEMMA CoreSeated ==
  ASSUME NEW stay, NEW as, NEW T, NEW args, args = ArgsOf(stay, as)
  PROVE  \A op \in Ops("core") :
           \/ CpiOnly(CoreC!Plugin[op])
           \/ /\ \A i \in DOMAIN CoreC!Parsers[op] :
                   CoreC!Parsers[op][i] \in PlacedNames \cup {"payer"}
              /\ (as \in Roles(op) /\ Agree(T, CoreC!Parsers[op], Means("core", op, stay, as)))
                   => /\ \A i \in DOMAIN CoreA!Rules[op] : Seated(CoreA!Rules[op][i], T, args)
                      /\ \A i \in DOMAIN CoreC!Plugin[op].defaults :
                           Sound(op, CoreC!Plugin[op].defaults[i], T, args)
<1> DEFINE P(rule) == Seated(rule, T, args)
<1> DEFINE Q(default) == Sure(default, T, args)
<1> DEFINE S(op, default) == <<op, default.account>> \in DivergentDefaults \/ Q(default)
<1> DEFINE Apt(op, plugin, names, rules) ==
      \/ CpiOnly(plugin)
      \/ /\ \A i \in DOMAIN names : names[i] \in PlacedNames \cup {"payer"}
         /\ (as \in Roles(op) /\ Agree(T, names, Means("core", op, stay, as)))
              => /\ \A i \in DOMAIN rules : P(rules[i])
                 /\ \A i \in DOMAIN plugin.defaults : S(op, plugin.defaults[i])
<1>1. /\ args["listingId"] = Stay[stay].listingId /\ args["checkIn"] = Stay[stay].checkIn
      /\ args["id"] = ActorOf(stay, as)
      /\ as = "guest" => ActorOf(stay, as) = GuestOf(stay)
      /\ as = "host" => ActorOf(stay, as) = HostOf(stay)
  BY ArgsMeant
<1>2. P(CoreA!MutSigns("payer", {}))
  <2>1. Seated(MutSigns("payer", {}), T, args)
    BY FreeSeated
  <2>2. CoreA!MutSigns("payer", {}) = MutSigns("payer", {})
    BY DEF MutSigns, CoreA!MutSigns, Rule, CoreA!Rule, AnyType, CoreA!AnyType
  <2> QED BY <2>1, <2>2
<1>3. ASSUME T["authority"] = Root,
             T["config"] = Address("core", <<Lit("config")>>)
      PROVE  P(CoreA!Signs("authority", {CoreA!Held("config", "authority")}))
  <2>1. At(T, args, "authority", Held("config", "authority"))
    BY <1>3, OtherWhere
  <2>2. Seated(Signs("authority", {Held("config", "authority")}), T, args)
    BY <2>1, FreeSeated
  <2>3. CoreA!Signs("authority", {CoreA!Held("config", "authority")})
          = Signs("authority", {Held("config", "authority")})
    BY DEF Signs, CoreA!Signs, Rule, CoreA!Rule, AnyType, CoreA!AnyType, Held, CoreA!Held,
      Derivation, CoreA!Derivation, Field, CoreA!Field
  <2> QED BY <2>2, <2>3
<1>4. ASSUME T["identity"] = Identified(args["id"])
      PROVE  P(CoreA!New("identity", CoreA!Identity, {CoreA!IdentityAt("id")}))
  <2>1. At(T, args, "identity", IdentityAt("id"))
    BY <1>4, CreatedWhere
  <2>2. Seated(New("identity", Identity, {IdentityAt("id")}), T, args)
    BY <2>1, NewSeated
  <2>3. CoreA!New("identity", CoreA!Identity, {CoreA!IdentityAt("id")})
          = New("identity", Identity, {IdentityAt("id")})
    BY DEF New, CoreA!New, Rule, CoreA!Rule, Identity, CoreA!Identity, IdentityAt,
      CoreA!IdentityAt, Derivation, CoreA!Derivation, Arg, CoreA!Arg, Lit, CoreA!Lit
  <2> QED BY <2>2, <2>3
<1>5. ASSUME T["config"] = Address("core", <<Lit("config")>>)
      PROVE  P(CoreA!Ro("config", CoreA!ConfigAcc, {CoreA!CoreConfigPda}))
  <2>1. /\ At(T, args, "config", CoreConfigPda)
        /\ Type(T["config"]) \in ConfigAcc
    BY <1>5, OtherWhere, PlaceKinds DEF CoreConfigPda
  <2>2. Seated(Ro("config", ConfigAcc, {CoreConfigPda}), T, args)
    BY <2>1, KnownSeated
  <2>3. CoreA!Ro("config", CoreA!ConfigAcc, {CoreA!CoreConfigPda})
          = Ro("config", ConfigAcc, {CoreConfigPda})
    BY DEF Ro, CoreA!Ro, Rule, CoreA!Rule, ConfigAcc, CoreA!ConfigAcc, CoreConfigPda,
      CoreA!CoreConfigPda, Derivation, CoreA!Derivation, Lit, CoreA!Lit
  <2> QED BY <2>2, <2>3
<1>6. ASSUME T["systemProgram"] = Deployed("system")
      PROVE  P(CoreA!SystemRule)
  <2>1. At(T, args, "systemProgram", Fixed("system"))
    BY <1>6, OtherWhere
  <2>2. Seated(Unchecked("systemProgram", {Fixed("system")}), T, args)
    BY <2>1, FreeSeated
  <2>3. CoreA!SystemRule = Unchecked("systemProgram", {Fixed("system")})
    BY DEF SystemRule, CoreA!SystemRule, ProgramRule, CoreA!ProgramRule, Unchecked,
      CoreA!Unchecked, Rule, CoreA!Rule, AnyType, CoreA!AnyType, Fixed, CoreA!Fixed,
      Derivation, CoreA!Derivation
  <2> QED BY <2>2, <2>3
<1>7. ASSUME T["identity"] = Identified(args["id"])
      PROVE  Q(CoreC!Default("identity", CoreC!FindIdentityPda("id")))
  <2>1. At(T, args, "identity", IdentityAt("id"))
    BY <1>7, CreatedWhere
  <2>2. CoreC!Default("identity", CoreC!FindIdentityPda("id"))
          = [account |-> "identity", from |-> IdentityAt("id")]
    BY DEF CoreC!Default, CoreC!FindIdentityPda, CoreC!Derivation, CoreC!Lit, CoreC!Arg,
      IdentityAt, Derivation, Arg, Lit
  <2>3. /\ "identity" \notin Bottom
        /\ Reads(IdentityAt("id")) \subseteq Bottom \cup Middle \cup {"booking"}
        /\ "identity" = "booking" => Reads(IdentityAt("id")) \subseteq Bottom \cup Middle
        /\ "identity" \in Middle => Reads(IdentityAt("id")) \subseteq Bottom
    BY ReadsOf DEF Bottom, Middle
  <2> QED BY <2>1, <2>2, <2>3, SureDefault
<1>8. ASSUME T["config"] = Address("core", <<Lit("config")>>)
      PROVE  Q(CoreC!Default("config", CoreC!FindConfigPda))
  <2>1. At(T, args, "config", CoreConfigPda)
    BY <1>8, OtherWhere DEF CoreConfigPda
  <2>2. CoreC!Default("config", CoreC!FindConfigPda)
          = [account |-> "config", from |-> CoreConfigPda]
    BY DEF CoreC!Default, CoreC!FindConfigPda, CoreC!Derivation, CoreC!Lit, CoreConfigPda,
      Derivation, Lit
  <2>3. /\ "config" \notin Bottom
        /\ Reads(CoreConfigPda) \subseteq Bottom \cup Middle \cup {"booking"}
        /\ "config" = "booking" => Reads(CoreConfigPda) \subseteq Bottom \cup Middle
        /\ "config" \in Middle => Reads(CoreConfigPda) \subseteq Bottom
    BY ReadsOf DEF Bottom, Middle, CoreConfigPda
  <2> QED BY <2>1, <2>2, <2>3, SureDefault
<1>9. ASSUME T["systemProgram"] = Deployed("system")
      PROVE  Q(CoreC!Default("systemProgram", CoreC!Fixed("system")))
  <2>1. At(T, args, "systemProgram", Fixed("system"))
    BY <1>9, OtherWhere
  <2>2. CoreC!Default("systemProgram", CoreC!Fixed("system"))
          = [account |-> "systemProgram", from |-> Fixed("system")]
    BY DEF CoreC!Default, CoreC!Derivation, CoreC!Fixed, Fixed, Derivation
  <2>3. /\ "systemProgram" \notin Bottom
        /\ Reads(Fixed("system")) \subseteq Bottom \cup Middle \cup {"booking"}
        /\ "systemProgram" = "booking" => Reads(Fixed("system")) \subseteq Bottom \cup Middle
        /\ "systemProgram" \in Middle => Reads(Fixed("system")) \subseteq Bottom
    BY ReadsOf DEF Bottom, Middle
  <2> QED BY <2>1, <2>2, <2>3, SureDefault
<1>10. ASSUME T["config"] = Address("core", <<Lit("config")>>)
       PROVE  P(CoreA!New("config", CoreA!ConfigAcc, {CoreA!CoreConfigPda}))
  <2>1. At(T, args, "config", CoreConfigPda)
    BY <1>10, OtherWhere DEF CoreConfigPda
  <2>2. Seated(New("config", ConfigAcc, {CoreConfigPda}), T, args)
    BY <2>1, NewSeated
  <2>3. CoreA!New("config", CoreA!ConfigAcc, {CoreA!CoreConfigPda})
          = New("config", ConfigAcc, {CoreConfigPda})
    BY DEF New, CoreA!New, Rule, CoreA!Rule, ConfigAcc, CoreA!ConfigAcc, CoreConfigPda,
      CoreA!CoreConfigPda, Derivation, CoreA!Derivation, Lit, CoreA!Lit
  <2> QED BY <2>2, <2>3
<1>11. P(CoreA!MutSigns("authority", {}))
  <2>1. Seated(MutSigns("authority", {}), T, args)
    BY FreeSeated
  <2>2. CoreA!MutSigns("authority", {}) = MutSigns("authority", {})
    BY DEF MutSigns, CoreA!MutSigns, Rule, CoreA!Rule, AnyType, CoreA!AnyType
  <2> QED BY <2>1, <2>2
<1>12. P(CoreA!Signs("authority", {}))
  <2>1. Seated(Signs("authority", {}), T, args)
    BY FreeSeated
  <2>2. CoreA!Signs("authority", {}) = Signs("authority", {})
    BY DEF Signs, CoreA!Signs, Rule, CoreA!Rule, AnyType, CoreA!AnyType
  <2> QED BY <2>1, <2>2
<1>13. ASSUME T["listing"] = ListingOf(stay),
              T["userProfile"] = Profiled(HostOf(stay))
       PROVE  P(CoreA!New("listing", CoreA!Listing,
                {CoreA!ListingAt("userProfile", CoreA!Arg("u16", "listingId"))}))
  <2>1. At(T, args, "listing", ListingAt("userProfile", Arg("u16", "listingId")))
    BY <1>13, <1>1, ListingWhere DEF ListingOf
  <2>2. Seated(New("listing", Listing, {ListingAt("userProfile", Arg("u16", "listingId"))}), T,
          args)
    BY <2>1, NewSeated
  <2>3. CoreA!New("listing", CoreA!Listing,
          {CoreA!ListingAt("userProfile", CoreA!Arg("u16", "listingId"))})
                  = New("listing", Listing, {ListingAt("userProfile", Arg("u16", "listingId"))})
    BY DEF New, CoreA!New, Rule, CoreA!Rule, Listing, CoreA!Listing, ListingAt,
      CoreA!ListingAt, Derivation, CoreA!Derivation, Lit, CoreA!Lit, Key, CoreA!Key, Arg,
      CoreA!Arg
  <2> QED BY <2>2, <2>3
<1>14. ASSUME T["userProfile"] = Profiled(HostOf(stay)),
              T["authority"] = HostOf(stay)
       PROVE  P(CoreA!Mut("userProfile", CoreA!UserProfile, {CoreA!ProfileOf("authority")}))
  <2>1. /\ At(T, args, "userProfile", ProfileOf("authority"))
        /\ Type(T["userProfile"]) \in UserProfile
    BY <1>14, ProfileWhere, PlaceKinds
  <2>2. Seated(Mut("userProfile", UserProfile, {ProfileOf("authority")}), T, args)
    BY <2>1, KnownSeated
  <2>3. CoreA!Mut("userProfile", CoreA!UserProfile, {CoreA!ProfileOf("authority")})
          = Mut("userProfile", UserProfile, {ProfileOf("authority")})
    BY DEF Mut, CoreA!Mut, Rule, CoreA!Rule, UserProfile, CoreA!UserProfile, ProfileOf,
      CoreA!ProfileOf, Derivation, CoreA!Derivation, Lit, CoreA!Lit, Key, CoreA!Key
  <2> QED BY <2>2, <2>3
<1>15. ASSUME T["userProfile"] = Profiled(HostOf(stay)),
              T["authority"] = HostOf(stay)
       PROVE  Q(CoreC!Default("userProfile", CoreC!FindUserProfilePda("authority")))
  <2>1. At(T, args, "userProfile", ProfileOf("authority"))
    BY <1>15, ProfileWhere
  <2>2. CoreC!Default("userProfile", CoreC!FindUserProfilePda("authority"))
          = [account |-> "userProfile", from |-> ProfileOf("authority")]
    BY DEF CoreC!Default, CoreC!FindUserProfilePda, CoreC!Derivation, CoreC!Lit, CoreC!Key,
      ProfileOf, Derivation, Lit, Key
  <2>3. /\ "userProfile" \notin Bottom
        /\ Reads(ProfileOf("authority")) \subseteq Bottom \cup Middle \cup {"booking"}
        /\ "userProfile" = "booking" => Reads(ProfileOf("authority")) \subseteq Bottom \cup Middle
        /\ "userProfile" \in Middle => Reads(ProfileOf("authority")) \subseteq Bottom
    BY ReadsOf DEF Bottom, Middle
  <2> QED BY <2>1, <2>2, <2>3, SureDefault
<1>16. ASSUME T["listing"] = ListingOf(stay),
              T["userProfile"] = Profiled(HostOf(stay))
       PROVE  Q(CoreC!Default("listing", CoreC!FindListingPda("userProfile", "listingId")))
  <2>1. At(T, args, "listing", ListingAt("userProfile", Arg("u16", "listingId")))
    BY <1>16, <1>1, ListingWhere DEF ListingOf
  <2>2. CoreC!Default("listing", CoreC!FindListingPda("userProfile", "listingId"))
          = [account |-> "listing", from |-> ListingAt("userProfile", Arg("u16", "listingId"))]
    BY DEF CoreC!Default, CoreC!FindListingPda, CoreC!Derivation, CoreC!Lit, CoreC!Key,
      CoreC!Arg, ListingAt, Derivation, Lit, Key, Arg
  <2>3. /\ "listing" \notin Bottom
        /\ Reads(ListingAt("userProfile",
             Arg("u16", "listingId"))) \subseteq Bottom \cup Middle \cup {"booking"}
        /\ "listing" = "booking" => Reads(ListingAt("userProfile",
             Arg("u16", "listingId"))) \subseteq Bottom \cup Middle
        /\ "listing" \in Middle => Reads(ListingAt("userProfile",
             Arg("u16", "listingId"))) \subseteq Bottom
    BY ReadsOf DEF Bottom, Middle
  <2> QED BY <2>1, <2>2, <2>3, SureDefault
<1>17. ASSUME T["userProfile"] = Profiled(GuestOf(stay)),
              T["authority"] = GuestOf(stay)
       PROVE  P(CoreA!New("userProfile", CoreA!UserProfile, {CoreA!ProfileOf("authority")}))
  <2>1. At(T, args, "userProfile", ProfileOf("authority"))
    BY <1>17, ProfileWhere
  <2>2. Seated(New("userProfile", UserProfile, {ProfileOf("authority")}), T, args)
    BY <2>1, NewSeated
  <2>3. CoreA!New("userProfile", CoreA!UserProfile, {CoreA!ProfileOf("authority")})
          = New("userProfile", UserProfile, {ProfileOf("authority")})
    BY DEF New, CoreA!New, Rule, CoreA!Rule, UserProfile, CoreA!UserProfile, ProfileOf,
      CoreA!ProfileOf, Derivation, CoreA!Derivation, Lit, CoreA!Lit, Key, CoreA!Key
  <2> QED BY <2>2, <2>3
<1>18. ASSUME T["reputationProfile"] = Reputed(GuestOf(stay)),
              T["authority"] = GuestOf(stay)
       PROVE  P(CoreA!New("reputationProfile", CoreA!ReputationProfile,
                {CoreA!ReputationOf("authority")}))
  <2>1. At(T, args, "reputationProfile", ReputationOf("authority"))
    BY <1>18, ProfileWhere
  <2>2. Seated(New("reputationProfile", ReputationProfile, {ReputationOf("authority")}), T, args)
    BY <2>1, NewSeated
  <2>3. CoreA!New("reputationProfile", CoreA!ReputationProfile, {CoreA!ReputationOf("authority")})
          = New("reputationProfile", ReputationProfile, {ReputationOf("authority")})
    BY DEF New, CoreA!New, Rule, CoreA!Rule, ReputationProfile, CoreA!ReputationProfile,
      ReputationOf, CoreA!ReputationOf, Derivation, CoreA!Derivation, Lit, CoreA!Lit, Key,
      CoreA!Key
  <2> QED BY <2>2, <2>3
<1>19. ASSUME T["userProfile"] = Profiled(GuestOf(stay)),
              T["authority"] = GuestOf(stay)
       PROVE  Q(CoreC!Default("userProfile", CoreC!FindUserProfilePda("authority")))
  <2>1. At(T, args, "userProfile", ProfileOf("authority"))
    BY <1>19, ProfileWhere
  <2>2. CoreC!Default("userProfile", CoreC!FindUserProfilePda("authority"))
          = [account |-> "userProfile", from |-> ProfileOf("authority")]
    BY DEF CoreC!Default, CoreC!FindUserProfilePda, CoreC!Derivation, CoreC!Lit, CoreC!Key,
      ProfileOf, Derivation, Lit, Key
  <2>3. /\ "userProfile" \notin Bottom
        /\ Reads(ProfileOf("authority")) \subseteq Bottom \cup Middle \cup {"booking"}
        /\ "userProfile" = "booking" => Reads(ProfileOf("authority")) \subseteq Bottom \cup Middle
        /\ "userProfile" \in Middle => Reads(ProfileOf("authority")) \subseteq Bottom
    BY ReadsOf DEF Bottom, Middle
  <2> QED BY <2>1, <2>2, <2>3, SureDefault
<1>20. ASSUME T["reputationProfile"] = Reputed(GuestOf(stay)),
              T["authority"] = GuestOf(stay)
       PROVE  Q(CoreC!Default("reputationProfile", CoreC!FindReputationProfilePda("authority")))
  <2>1. At(T, args, "reputationProfile", ReputationOf("authority"))
    BY <1>20, ProfileWhere
  <2>2. CoreC!Default("reputationProfile", CoreC!FindReputationProfilePda("authority"))
          = [account |-> "reputationProfile", from |-> ReputationOf("authority")]
    BY DEF CoreC!Default, CoreC!FindReputationProfilePda, CoreC!Derivation, CoreC!Lit,
      CoreC!Key, ReputationOf, Derivation, Lit, Key
  <2>3. /\ "reputationProfile" \notin Bottom
        /\ Reads(ReputationOf("authority")) \subseteq Bottom \cup Middle \cup {"booking"}
        /\ "reputationProfile"
             = "booking" => Reads(ReputationOf("authority")) \subseteq Bottom \cup Middle
        /\ "reputationProfile" \in Middle => Reads(ReputationOf("authority")) \subseteq Bottom
    BY ReadsOf DEF Bottom, Middle
  <2> QED BY <2>1, <2>2, <2>3, SureDefault
<1>21. ASSUME T["userProfile"] = Profiled(HostOf(stay)),
              T["authority"] = HostOf(stay)
       PROVE  P(CoreA!New("userProfile", CoreA!UserProfile, {CoreA!ProfileOf("authority")}))
  <2>1. At(T, args, "userProfile", ProfileOf("authority"))
    BY <1>21, ProfileWhere
  <2>2. Seated(New("userProfile", UserProfile, {ProfileOf("authority")}), T, args)
    BY <2>1, NewSeated
  <2>3. CoreA!New("userProfile", CoreA!UserProfile, {CoreA!ProfileOf("authority")})
          = New("userProfile", UserProfile, {ProfileOf("authority")})
    BY DEF New, CoreA!New, Rule, CoreA!Rule, UserProfile, CoreA!UserProfile, ProfileOf,
      CoreA!ProfileOf, Derivation, CoreA!Derivation, Lit, CoreA!Lit, Key, CoreA!Key
  <2> QED BY <2>2, <2>3
<1>22. ASSUME T["reputationProfile"] = Reputed(HostOf(stay)),
              T["authority"] = HostOf(stay)
       PROVE  P(CoreA!New("reputationProfile", CoreA!ReputationProfile,
                {CoreA!ReputationOf("authority")}))
  <2>1. At(T, args, "reputationProfile", ReputationOf("authority"))
    BY <1>22, ProfileWhere
  <2>2. Seated(New("reputationProfile", ReputationProfile, {ReputationOf("authority")}), T, args)
    BY <2>1, NewSeated
  <2>3. CoreA!New("reputationProfile", CoreA!ReputationProfile, {CoreA!ReputationOf("authority")})
          = New("reputationProfile", ReputationProfile, {ReputationOf("authority")})
    BY DEF New, CoreA!New, Rule, CoreA!Rule, ReputationProfile, CoreA!ReputationProfile,
      ReputationOf, CoreA!ReputationOf, Derivation, CoreA!Derivation, Lit, CoreA!Lit, Key,
      CoreA!Key
  <2> QED BY <2>2, <2>3
<1>23. ASSUME T["reputationProfile"] = Reputed(HostOf(stay)),
              T["authority"] = HostOf(stay)
       PROVE  Q(CoreC!Default("reputationProfile", CoreC!FindReputationProfilePda("authority")))
  <2>1. At(T, args, "reputationProfile", ReputationOf("authority"))
    BY <1>23, ProfileWhere
  <2>2. CoreC!Default("reputationProfile", CoreC!FindReputationProfilePda("authority"))
          = [account |-> "reputationProfile", from |-> ReputationOf("authority")]
    BY DEF CoreC!Default, CoreC!FindReputationProfilePda, CoreC!Derivation, CoreC!Lit,
      CoreC!Key, ReputationOf, Derivation, Lit, Key
  <2>3. /\ "reputationProfile" \notin Bottom
        /\ Reads(ReputationOf("authority")) \subseteq Bottom \cup Middle \cup {"booking"}
        /\ "reputationProfile"
             = "booking" => Reads(ReputationOf("authority")) \subseteq Bottom \cup Middle
        /\ "reputationProfile" \in Middle => Reads(ReputationOf("authority")) \subseteq Bottom
    BY ReadsOf DEF Bottom, Middle
  <2> QED BY <2>1, <2>2, <2>3, SureDefault
<1>24. ASSUME T["authority"] = Root,
              T["config"] = Address("core", <<Lit("config")>>)
       PROVE  P(CoreA!MutSigns("authority", {CoreA!Held("config", "authority")}))
  <2>1. At(T, args, "authority", Held("config", "authority"))
    BY <1>24, OtherWhere
  <2>2. Seated(MutSigns("authority", {Held("config", "authority")}), T, args)
    BY <2>1, FreeSeated
  <2>3. CoreA!MutSigns("authority", {CoreA!Held("config", "authority")})
          = MutSigns("authority", {Held("config", "authority")})
    BY DEF MutSigns, CoreA!MutSigns, Rule, CoreA!Rule, AnyType, CoreA!AnyType, Held,
      CoreA!Held, Derivation, CoreA!Derivation, Field, CoreA!Field
  <2> QED BY <2>2, <2>3
<1>25. ASSUME T["userProfile"] = Profiled(GuestOf(stay))
       PROVE  P(CoreA!Mut("userProfile", CoreA!UserProfile, {CoreA!ProfileBy("userProfile")}))
  <2>1. /\ At(T, args, "userProfile", ProfileBy("userProfile"))
        /\ Type(T["userProfile"]) \in UserProfile
    BY <1>25, ProfileWhere, PlaceKinds
  <2>2. Seated(Mut("userProfile", UserProfile, {ProfileBy("userProfile")}), T, args)
    BY <2>1, KnownSeated
  <2>3. CoreA!Mut("userProfile", CoreA!UserProfile, {CoreA!ProfileBy("userProfile")})
          = Mut("userProfile", UserProfile, {ProfileBy("userProfile")})
    BY DEF Mut, CoreA!Mut, Rule, CoreA!Rule, UserProfile, CoreA!UserProfile, ProfileBy,
      CoreA!ProfileBy, Derivation, CoreA!Derivation, Lit, CoreA!Lit, Field, CoreA!Field
  <2> QED BY <2>2, <2>3
<1>26. ASSUME T["identity"] = Identified(args["id"])
       PROVE  P(CoreA!Mut("identity", CoreA!Identity, {CoreA!IdentityAt("id")}))
  <2>1. /\ At(T, args, "identity", IdentityAt("id"))
        /\ Type(T["identity"]) \in Identity
    BY <1>26, CreatedWhere, PlaceKinds
  <2>2. Seated(Mut("identity", Identity, {IdentityAt("id")}), T, args)
    BY <2>1, KnownSeated
  <2>3. CoreA!Mut("identity", CoreA!Identity, {CoreA!IdentityAt("id")})
          = Mut("identity", Identity, {IdentityAt("id")})
    BY DEF Mut, CoreA!Mut, Rule, CoreA!Rule, Identity, CoreA!Identity, IdentityAt,
      CoreA!IdentityAt, Derivation, CoreA!Derivation, Arg, CoreA!Arg, Lit, CoreA!Lit
  <2> QED BY <2>2, <2>3
<1>27. ASSUME T["userProfile"] = Profiled(HostOf(stay)),
              T["authority"] = HostOf(stay)
       PROVE  P(CoreA!Ro("userProfile", CoreA!UserProfile, {CoreA!ProfileOf("authority")}))
  <2>1. /\ At(T, args, "userProfile", ProfileOf("authority"))
        /\ Type(T["userProfile"]) \in UserProfile
    BY <1>27, ProfileWhere, PlaceKinds
  <2>2. Seated(Ro("userProfile", UserProfile, {ProfileOf("authority")}), T, args)
    BY <2>1, KnownSeated
  <2>3. CoreA!Ro("userProfile", CoreA!UserProfile, {CoreA!ProfileOf("authority")})
          = Ro("userProfile", UserProfile, {ProfileOf("authority")})
    BY DEF Ro, CoreA!Ro, Rule, CoreA!Rule, UserProfile, CoreA!UserProfile, ProfileOf,
      CoreA!ProfileOf, Derivation, CoreA!Derivation, Lit, CoreA!Lit, Key, CoreA!Key
  <2> QED BY <2>2, <2>3
<1>28. ASSUME T["listing"] = ListingOf(stay),
              T["userProfile"] = Profiled(HostOf(stay))
       PROVE  P(CoreA!Mut("listing", CoreA!Listing, {CoreA!SameListing("userProfile", "listing")}))
  <2>1. /\ At(T, args, "listing", SameListing("userProfile", "listing"))
        /\ Type(T["listing"]) \in Listing
    BY <1>28, ListingWhere, PlaceKinds DEF ListingOf
  <2>2. Seated(Mut("listing", Listing, {SameListing("userProfile", "listing")}), T, args)
    BY <2>1, KnownSeated
  <2>3. CoreA!Mut("listing", CoreA!Listing, {CoreA!SameListing("userProfile", "listing")})
          = Mut("listing", Listing, {SameListing("userProfile", "listing")})
    BY DEF Mut, CoreA!Mut, Rule, CoreA!Rule, Listing, CoreA!Listing, SameListing,
      CoreA!SameListing, ListingAt, CoreA!ListingAt, Derivation, CoreA!Derivation, Lit,
      CoreA!Lit, Key, CoreA!Key, Field, CoreA!Field
  <2> QED BY <2>2, <2>3
<1> HIDE DEF P, Q
<1>29. Apt("addInfraction", CoreC!AddInfraction, CoreC!AddInfractionParse,
        CoreA!UpdateReputationProfile({"disputes"}))
  <2>1. LET metas == CoreC!AddInfraction.accounts
        IN 3 \in DOMAIN metas /\ metas[3].name = "cpiAuthority" /\ metas[3].signer
    BY DEF CoreC!AddInfraction, CoreC!Builder, CoreC!Meta, CoreC!R, CoreC!W, CoreC!RS, CoreC!WS
  <2> QED BY <2>1 DEF CpiOnly
<1>30. Apt("clearActiveBooking", CoreC!ClearActiveBooking, CoreC!ClearActiveBookingParse,
        CoreA!UpdateUserProfile({"disputes", "escrow"}))
  <2>1. LET metas == CoreC!ClearActiveBooking.accounts
        IN 3 \in DOMAIN metas /\ metas[3].name = "cpiAuthority" /\ metas[3].signer
    BY DEF CoreC!ClearActiveBooking, CoreC!Builder, CoreC!Meta, CoreC!R, CoreC!W, CoreC!RS, CoreC!WS
  <2> QED BY <2>1 DEF CpiOnly
<1>31. Apt("clearListingBooking", CoreC!ClearListingBooking, CoreC!ClearListingBookingParse,
        CoreA!ClearListingBooking)
  <2>1. LET metas == CoreC!ClearListingBooking.accounts
        IN 4 \in DOMAIN metas /\ metas[4].name = "cpiAuthority" /\ metas[4].signer
    BY DEF CoreC!ClearListingBooking, CoreC!Builder, CoreC!Meta, CoreC!R, CoreC!W, CoreC!RS,
            CoreC!WS
  <2> QED BY <2>1 DEF CpiOnly
<1>32. Apt("incrementClientCancellations", CoreC!IncrementClientCancellations,
        CoreC!IncrementClientCancellationsParse, CoreA!UpdateReputationProfile({"escrow"}))
  <2>1. LET metas == CoreC!IncrementClientCancellations.accounts
        IN 3 \in DOMAIN metas /\ metas[3].name = "cpiAuthority" /\ metas[3].signer
    BY DEF CoreC!IncrementClientCancellations, CoreC!Builder, CoreC!Meta, CoreC!R, CoreC!W,
            CoreC!RS, CoreC!WS
  <2> QED BY <2>1 DEF CpiOnly
<1>33. Apt("incrementCompletedStays", CoreC!IncrementCompletedStays,
        CoreC!IncrementCompletedStaysParse, CoreA!UpdateUserProfile({"escrow", "disputes"}))
  <2>1. LET metas == CoreC!IncrementCompletedStays.accounts
        IN 3 \in DOMAIN metas /\ metas[3].name = "cpiAuthority" /\ metas[3].signer
    BY DEF CoreC!IncrementCompletedStays, CoreC!Builder, CoreC!Meta, CoreC!R, CoreC!W, CoreC!RS,
            CoreC!WS
  <2> QED BY <2>1 DEF CpiOnly
<1>34. Apt("incrementHostCancellations", CoreC!IncrementHostCancellations,
        CoreC!IncrementHostCancellationsParse, CoreA!UpdateReputationProfile({"escrow"}))
  <2>1. LET metas == CoreC!IncrementHostCancellations.accounts
        IN 3 \in DOMAIN metas /\ metas[3].name = "cpiAuthority" /\ metas[3].signer
    BY DEF CoreC!IncrementHostCancellations, CoreC!Builder, CoreC!Meta, CoreC!R, CoreC!W, CoreC!RS,
            CoreC!WS
  <2> QED BY <2>1 DEF CpiOnly
<1>35. Apt("incrementHostedStays", CoreC!IncrementHostedStays, CoreC!IncrementHostedStaysParse,
        CoreA!UpdateUserProfile({"escrow", "disputes"}))
  <2>1. LET metas == CoreC!IncrementHostedStays.accounts
        IN 3 \in DOMAIN metas /\ metas[3].name = "cpiAuthority" /\ metas[3].signer
    BY DEF CoreC!IncrementHostedStays, CoreC!Builder, CoreC!Meta, CoreC!R, CoreC!W, CoreC!RS,
            CoreC!WS
  <2> QED BY <2>1 DEF CpiOnly
<1>36. Apt("initIdentity", CoreC!InitIdentity, CoreC!InitIdentityParse, CoreA!InitIdentity)
  <2> DEFINE N == CoreC!InitIdentityParse
         M == Means("core", "initIdentity", stay, as)
         L == CoreA!InitIdentity
         D == CoreC!InitIdentity.defaults
  <2>1. /\ 2 \in DOMAIN N /\ N[2] = "authority"
        /\ 3 \in DOMAIN N /\ N[3] = "identity"
        /\ 4 \in DOMAIN N /\ N[4] = "config"
        /\ 5 \in DOMAIN N /\ N[5] = "systemProgram"
    BY DEF CoreC!InitIdentityParse
  <2>2. \A i \in DOMAIN N : N[i] \in PlacedNames \cup {"payer"}
    BY SMTT(60) DEF CoreC!InitIdentityParse, PlacedNames, OwnPlaces, SharedNames
  <2> HIDE DEF N
  <2>3. ASSUME as \in Roles("initIdentity"), Agree(T, N, M)
        PROVE  /\ \A i \in DOMAIN L : P(L[i])
               /\ \A i \in DOMAIN D : S("initIdentity", D[i])
    <3>0. MeantAt(M, "core", "initIdentity", stay, as)
      BY MeansPlaces
    <3> HIDE DEF M
    <3>1. as = "guest"
      BY <2>3 DEF Roles, PartyOps, HostOps
    <3>2. /\ T["authority"] = M["authority"]
          /\ T["identity"] = M["identity"]
          /\ T["config"] = M["config"]
          /\ T["systemProgram"] = M["systemProgram"]
      BY <2>1, <2>3 DEF Agree
    <3>3. ConfigOf("core") = Address("core", <<Lit("config")>>) /\ "initIdentity" \in RootOps
      BY DEF ConfigOf, RootOps
    <3>4. ActorOf(stay, as) = GuestOf(stay)
      BY <3>1, <1>1
    <3>5. M["authority"] = Root
      BY <3>3, <3>0 DEF MeantAt
    <3>6. /\ M["identity"] = Identified(ActorOf(stay, as))
          /\ M["config"] = Address("core", <<Lit("config")>>)
          /\ M["systemProgram"] = Deployed("system")
      BY <3>3, <3>0 DEF MeantAt
    <3>7. /\ T["authority"] = Root
          /\ T["identity"] = Identified(args["id"])
          /\ T["config"] = Address("core", <<Lit("config")>>)
          /\ T["systemProgram"] = Deployed("system")
      BY <3>2, <3>4, <3>5, <3>6, <1>1
    <3>8. /\ P(CoreA!MutSigns("payer", {}))
          /\ P(CoreA!Signs("authority", {CoreA!Held("config", "authority")}))
          /\ P(CoreA!New("identity", CoreA!Identity, {CoreA!IdentityAt("id")}))
          /\ P(CoreA!Ro("config", CoreA!ConfigAcc, {CoreA!CoreConfigPda}))
          /\ P(CoreA!SystemRule)
      BY <3>7, <1>2, <1>3, <1>4, <1>5, <1>6
    <3>9. \A i \in DOMAIN L : P(L[i])
      BY <3>8, SMTT(60) DEF CoreA!InitIdentity
    <3>10. /\ Q(CoreC!Default("identity", CoreC!FindIdentityPda("id")))
          /\ Q(CoreC!Default("config", CoreC!FindConfigPda))
          /\ Q(CoreC!Default("systemProgram", CoreC!Fixed("system")))
      BY <3>7, <1>7, <1>8, <1>9
    <3>11. \A i \in DOMAIN D : S("initIdentity", D[i])
      BY <3>10, SMTT(60) DEF CoreC!InitIdentity, CoreC!Builder
    <3> QED BY <3>9, <3>11
  <2> QED BY <2>2, <2>3 DEF N, M, D
<1>37. Apt("initializeConfig", CoreC!InitializeConfig, CoreC!InitializeConfigParse,
        CoreA!InitializeConfig)
  <2> DEFINE N == CoreC!InitializeConfigParse
         M == Means("core", "initializeConfig", stay, as)
         L == CoreA!InitializeConfig
         D == CoreC!InitializeConfig.defaults
  <2>1. /\ 1 \in DOMAIN N /\ N[1] = "config"
        /\ 2 \in DOMAIN N /\ N[2] = "authority"
        /\ 3 \in DOMAIN N /\ N[3] = "systemProgram"
    BY DEF CoreC!InitializeConfigParse
  <2>2. \A i \in DOMAIN N : N[i] \in PlacedNames \cup {"payer"}
    BY SMTT(60) DEF CoreC!InitializeConfigParse, PlacedNames, OwnPlaces, SharedNames
  <2> HIDE DEF N
  <2>3. ASSUME as \in Roles("initializeConfig"), Agree(T, N, M)
        PROVE  /\ \A i \in DOMAIN L : P(L[i])
               /\ \A i \in DOMAIN D : S("initializeConfig", D[i])
    <3>0. MeantAt(M, "core", "initializeConfig", stay, as)
      BY MeansPlaces
    <3> HIDE DEF M
    <3>1. as = "guest"
      BY <2>3 DEF Roles, PartyOps, HostOps
    <3>2. /\ T["config"] = M["config"]
          /\ T["authority"] = M["authority"]
          /\ T["systemProgram"] = M["systemProgram"]
      BY <2>1, <2>3 DEF Agree
    <3>3. ConfigOf("core") = Address("core", <<Lit("config")>>) /\ "initializeConfig" \in RootOps
      BY DEF ConfigOf, RootOps
    <3>4. M["authority"] = Root
      BY <3>3, <3>0 DEF MeantAt
    <3>5. /\ M["config"] = Address("core", <<Lit("config")>>)
          /\ M["systemProgram"] = Deployed("system")
      BY <3>3, <3>0 DEF MeantAt
    <3>6. /\ T["config"] = Address("core", <<Lit("config")>>)
          /\ T["authority"] = Root
          /\ T["systemProgram"] = Deployed("system")
      BY <3>2, <3>4, <3>5
    <3>7. /\ P(CoreA!New("config", CoreA!ConfigAcc, {CoreA!CoreConfigPda}))
          /\ P(CoreA!MutSigns("authority", {}))
          /\ P(CoreA!SystemRule)
      BY <3>6, <1>10, <1>11, <1>6
    <3>8. \A i \in DOMAIN L : P(L[i])
      BY <3>7, SMTT(60) DEF CoreA!InitializeConfig
    <3>9. /\ Q(CoreC!Default("config", CoreC!FindConfigPda))
          /\ Q(CoreC!Default("systemProgram", CoreC!Fixed("system")))
      BY <3>6, <1>8, <1>9
    <3>10. \A i \in DOMAIN D : S("initializeConfig", D[i])
      BY <3>9, SMTT(60) DEF CoreC!InitializeConfig, CoreC!Builder
    <3> QED BY <3>8, <3>10
  <2> QED BY <2>2, <2>3 DEF N, M, D
<1>38. Apt("initializeListing", CoreC!InitializeListing, CoreC!InitializeListingParse,
        CoreA!InitializeListing)
  <2> DEFINE N == CoreC!InitializeListingParse
         M == Means("core", "initializeListing", stay, as)
         L == CoreA!InitializeListing
         D == CoreC!InitializeListing.defaults
  <2>1. /\ 2 \in DOMAIN N /\ N[2] = "authority"
        /\ 3 \in DOMAIN N /\ N[3] = "listing"
        /\ 4 \in DOMAIN N /\ N[4] = "userProfile"
        /\ 5 \in DOMAIN N /\ N[5] = "systemProgram"
    BY DEF CoreC!InitializeListingParse
  <2>2. \A i \in DOMAIN N : N[i] \in PlacedNames \cup {"payer"}
    BY SMTT(60) DEF CoreC!InitializeListingParse, PlacedNames, OwnPlaces, SharedNames
  <2> HIDE DEF N
  <2>3. ASSUME as \in Roles("initializeListing"), Agree(T, N, M)
        PROVE  /\ \A i \in DOMAIN L : P(L[i])
               /\ \A i \in DOMAIN D : S("initializeListing", D[i])
    <3>0. MeantAt(M, "core", "initializeListing", stay, as)
      BY MeansPlaces
    <3> HIDE DEF M
    <3>1. as = "host"
      BY <2>3 DEF Roles, PartyOps, HostOps
    <3>2. /\ T["authority"] = M["authority"]
          /\ T["listing"] = M["listing"]
          /\ T["userProfile"] = M["userProfile"]
          /\ T["systemProgram"] = M["systemProgram"]
      BY <2>1, <2>3 DEF Agree
    <3>3. "initializeListing" \notin RootOps
      BY DEF RootOps
    <3>4. ActorOf(stay, as) = HostOf(stay)
      BY <3>1, <1>1
    <3>5. M["authority"] = ActorOf(stay, as)
      BY <3>3, <3>0 DEF MeantAt
    <3>6. /\ M["listing"] = ListingOf(stay)
          /\ M["userProfile"] = Profiled(ActorOf(stay, as))
          /\ M["systemProgram"] = Deployed("system")
      BY <3>0 DEF MeantAt
    <3>7. /\ T["authority"] = HostOf(stay)
          /\ T["listing"] = ListingOf(stay)
          /\ T["userProfile"] = Profiled(HostOf(stay))
          /\ T["systemProgram"] = Deployed("system")
      BY <3>2, <3>4, <3>5, <3>6
    <3>8. /\ P(CoreA!MutSigns("payer", {}))
          /\ P(CoreA!Signs("authority", {}))
          /\ P(CoreA!New("listing", CoreA!Listing,
               {CoreA!ListingAt("userProfile", CoreA!Arg("u16", "listingId"))}))
          /\ P(CoreA!Mut("userProfile", CoreA!UserProfile, {CoreA!ProfileOf("authority")}))
          /\ P(CoreA!SystemRule)
      BY <3>7, <1>2, <1>12, <1>13, <1>14, <1>6
    <3>9. \A i \in DOMAIN L : P(L[i])
      BY <3>8, SMTT(60) DEF CoreA!InitializeListing
    <3>10. /\ Q(CoreC!Default("userProfile", CoreC!FindUserProfilePda("authority")))
          /\ Q(CoreC!Default("listing", CoreC!FindListingPda("userProfile", "listingId")))
          /\ Q(CoreC!Default("systemProgram", CoreC!Fixed("system")))
      BY <3>7, <1>15, <1>16, <1>9
    <3>11. \A i \in DOMAIN D : S("initializeListing", D[i])
      BY <3>10, SMTT(60) DEF CoreC!InitializeListing, CoreC!Builder
    <3> QED BY <3>9, <3>11
  <2> QED BY <2>2, <2>3 DEF N, M, D
<1>39. Apt("initializeUserProfile", CoreC!InitializeUserProfile, CoreC!InitializeUserProfileParse,
        CoreA!InitializeUserProfile)
  <2> DEFINE N == CoreC!InitializeUserProfileParse
         M == Means("core", "initializeUserProfile", stay, as)
         L == CoreA!InitializeUserProfile
         D == CoreC!InitializeUserProfile.defaults
  <2>1. /\ 2 \in DOMAIN N /\ N[2] = "authority"
        /\ 3 \in DOMAIN N /\ N[3] = "userProfile"
        /\ 4 \in DOMAIN N /\ N[4] = "reputationProfile"
        /\ 5 \in DOMAIN N /\ N[5] = "systemProgram"
    BY DEF CoreC!InitializeUserProfileParse
  <2>2. \A i \in DOMAIN N : N[i] \in PlacedNames \cup {"payer"}
    BY SMTT(60) DEF CoreC!InitializeUserProfileParse, PlacedNames, OwnPlaces, SharedNames
  <2> HIDE DEF N
  <2>3. ASSUME as \in Roles("initializeUserProfile"), Agree(T, N, M)
        PROVE  /\ \A i \in DOMAIN L : P(L[i])
               /\ \A i \in DOMAIN D : S("initializeUserProfile", D[i])
    <3>0. MeantAt(M, "core", "initializeUserProfile", stay, as)
      BY MeansPlaces
    <3> HIDE DEF M
    <3>1. as = "guest" \/ as = "host"
      BY <2>3 DEF Roles, PartyOps, HostOps
    <3>2. /\ T["authority"] = M["authority"]
          /\ T["userProfile"] = M["userProfile"]
          /\ T["reputationProfile"] = M["reputationProfile"]
          /\ T["systemProgram"] = M["systemProgram"]
      BY <2>1, <2>3 DEF Agree
    <3>3. "initializeUserProfile" \notin RootOps
      BY DEF RootOps
    <3>4. CASE as = "guest"
      <4>1. ActorOf(stay, as) = GuestOf(stay)
        BY <3>4, <1>1
      <4>2. M["authority"] = ActorOf(stay, as)
        BY <3>3, <3>0 DEF MeantAt
      <4>3. /\ M["userProfile"] = Profiled(ActorOf(stay, as))
            /\ M["reputationProfile"] = Reputed(ActorOf(stay, as))
            /\ M["systemProgram"] = Deployed("system")
        BY <3>0 DEF MeantAt
      <4>4. /\ T["authority"] = GuestOf(stay)
            /\ T["userProfile"] = Profiled(GuestOf(stay))
            /\ T["reputationProfile"] = Reputed(GuestOf(stay))
            /\ T["systemProgram"] = Deployed("system")
        BY <3>2, <4>1, <4>2, <4>3
      <4>5. /\ P(CoreA!MutSigns("payer", {}))
            /\ P(CoreA!MutSigns("authority", {}))
            /\ P(CoreA!New("userProfile", CoreA!UserProfile, {CoreA!ProfileOf("authority")}))
            /\ P(CoreA!New("reputationProfile", CoreA!ReputationProfile,
                 {CoreA!ReputationOf("authority")}))
            /\ P(CoreA!SystemRule)
        BY <4>4, <1>2, <1>11, <1>17, <1>18, <1>6
      <4>6. \A i \in DOMAIN L : P(L[i])
        BY <4>5, SMTT(60) DEF CoreA!InitializeUserProfile
      <4>7. /\ Q(CoreC!Default("userProfile", CoreC!FindUserProfilePda("authority")))
            /\ Q(CoreC!Default("reputationProfile", CoreC!FindReputationProfilePda("authority")))
            /\ Q(CoreC!Default("systemProgram", CoreC!Fixed("system")))
        BY <4>4, <1>19, <1>20, <1>9
      <4>8. \A i \in DOMAIN D : S("initializeUserProfile", D[i])
        BY <4>7, SMTT(60) DEF CoreC!InitializeUserProfile, CoreC!Builder
      <4> QED BY <4>6, <4>8
    <3>5. CASE as = "host"
      <4>1. ActorOf(stay, as) = HostOf(stay)
        BY <3>5, <1>1
      <4>2. M["authority"] = ActorOf(stay, as)
        BY <3>3, <3>0 DEF MeantAt
      <4>3. /\ M["userProfile"] = Profiled(ActorOf(stay, as))
            /\ M["reputationProfile"] = Reputed(ActorOf(stay, as))
            /\ M["systemProgram"] = Deployed("system")
        BY <3>0 DEF MeantAt
      <4>4. /\ T["authority"] = HostOf(stay)
            /\ T["userProfile"] = Profiled(HostOf(stay))
            /\ T["reputationProfile"] = Reputed(HostOf(stay))
            /\ T["systemProgram"] = Deployed("system")
        BY <3>2, <4>1, <4>2, <4>3
      <4>5. /\ P(CoreA!MutSigns("payer", {}))
            /\ P(CoreA!MutSigns("authority", {}))
            /\ P(CoreA!New("userProfile", CoreA!UserProfile, {CoreA!ProfileOf("authority")}))
            /\ P(CoreA!New("reputationProfile", CoreA!ReputationProfile,
                 {CoreA!ReputationOf("authority")}))
            /\ P(CoreA!SystemRule)
        BY <4>4, <1>2, <1>11, <1>21, <1>22, <1>6
      <4>6. \A i \in DOMAIN L : P(L[i])
        BY <4>5, SMTT(60) DEF CoreA!InitializeUserProfile
      <4>7. /\ Q(CoreC!Default("userProfile", CoreC!FindUserProfilePda("authority")))
            /\ Q(CoreC!Default("reputationProfile", CoreC!FindReputationProfilePda("authority")))
            /\ Q(CoreC!Default("systemProgram", CoreC!Fixed("system")))
        BY <4>4, <1>15, <1>23, <1>9
      <4>8. \A i \in DOMAIN D : S("initializeUserProfile", D[i])
        BY <4>7, SMTT(60) DEF CoreC!InitializeUserProfile, CoreC!Builder
      <4> QED BY <4>6, <4>8
    <3> QED BY <3>1, <3>4, <3>5
  <2> QED BY <2>2, <2>3 DEF N, M, D
<1>40. Apt("linkIdentity", CoreC!LinkIdentity, CoreC!LinkIdentityParse, CoreA!LinkIdentity)
  <2> DEFINE N == CoreC!LinkIdentityParse
         M == Means("core", "linkIdentity", stay, as)
         L == CoreA!LinkIdentity
         D == CoreC!LinkIdentity.defaults
  <2>1. /\ 2 \in DOMAIN N /\ N[2] = "authority"
        /\ 3 \in DOMAIN N /\ N[3] = "userProfile"
        /\ 4 \in DOMAIN N /\ N[4] = "identity"
        /\ 5 \in DOMAIN N /\ N[5] = "config"
    BY DEF CoreC!LinkIdentityParse
  <2>2. \A i \in DOMAIN N : N[i] \in PlacedNames \cup {"payer"}
    BY SMTT(60) DEF CoreC!LinkIdentityParse, PlacedNames, OwnPlaces, SharedNames
  <2> HIDE DEF N
  <2>3. ASSUME as \in Roles("linkIdentity"), Agree(T, N, M)
        PROVE  /\ \A i \in DOMAIN L : P(L[i])
               /\ \A i \in DOMAIN D : S("linkIdentity", D[i])
    <3>0. MeantAt(M, "core", "linkIdentity", stay, as)
      BY MeansPlaces
    <3> HIDE DEF M
    <3>1. as = "guest"
      BY <2>3 DEF Roles, PartyOps, HostOps
    <3>2. /\ T["authority"] = M["authority"]
          /\ T["userProfile"] = M["userProfile"]
          /\ T["identity"] = M["identity"]
          /\ T["config"] = M["config"]
      BY <2>1, <2>3 DEF Agree
    <3>3. ConfigOf("core") = Address("core", <<Lit("config")>>) /\ "linkIdentity" \in RootOps
      BY DEF ConfigOf, RootOps
    <3>4. ActorOf(stay, as) = GuestOf(stay)
      BY <3>1, <1>1
    <3>5. M["authority"] = Root
      BY <3>3, <3>0 DEF MeantAt
    <3>6. /\ M["userProfile"] = Profiled(ActorOf(stay, as))
          /\ M["identity"] = Identified(ActorOf(stay, as))
          /\ M["config"] = Address("core", <<Lit("config")>>)
      BY <3>3, <3>0 DEF MeantAt
    <3>7. /\ T["authority"] = Root
          /\ T["userProfile"] = Profiled(GuestOf(stay))
          /\ T["identity"] = Identified(args["id"])
          /\ T["config"] = Address("core", <<Lit("config")>>)
      BY <3>2, <3>4, <3>5, <3>6, <1>1
    <3>8. /\ P(CoreA!MutSigns("payer", {}))
          /\ P(CoreA!MutSigns("authority", {CoreA!Held("config", "authority")}))
          /\ P(CoreA!Mut("userProfile", CoreA!UserProfile, {CoreA!ProfileBy("userProfile")}))
          /\ P(CoreA!Mut("identity", CoreA!Identity, {CoreA!IdentityAt("id")}))
          /\ P(CoreA!Ro("config", CoreA!ConfigAcc, {CoreA!CoreConfigPda}))
      BY <3>7, <1>2, <1>24, <1>25, <1>26, <1>5
    <3>9. \A i \in DOMAIN L : P(L[i])
      BY <3>8, SMTT(60) DEF CoreA!LinkIdentity
    <3>10. /\ Q(CoreC!Default("identity", CoreC!FindIdentityPda("id")))
          /\ Q(CoreC!Default("config", CoreC!FindConfigPda))
      BY <3>7, <1>7, <1>8
    <3>11. \A i \in DOMAIN D : S("linkIdentity", D[i])
      BY <3>10, SMTT(60) DEF CoreC!LinkIdentity, CoreC!Builder
    <3> QED BY <3>9, <3>11
  <2> QED BY <2>2, <2>3 DEF N, M, D
<1>41. Apt("setActiveBooking", CoreC!SetActiveBooking, CoreC!SetActiveBookingParse,
        CoreA!UpdateUserProfile({"escrow"}))
  <2>1. LET metas == CoreC!SetActiveBooking.accounts
        IN 3 \in DOMAIN metas /\ metas[3].name = "cpiAuthority" /\ metas[3].signer
    BY DEF CoreC!SetActiveBooking, CoreC!Builder, CoreC!Meta, CoreC!R, CoreC!W, CoreC!RS, CoreC!WS
  <2> QED BY <2>1 DEF CpiOnly
<1>42. Apt("setListingOccupied", CoreC!SetListingOccupied, CoreC!SetListingOccupiedParse,
        CoreA!SetListingOccupied)
  <2>1. LET metas == CoreC!SetListingOccupied.accounts
        IN 4 \in DOMAIN metas /\ metas[4].name = "cpiAuthority" /\ metas[4].signer
    BY DEF CoreC!SetListingOccupied, CoreC!Builder, CoreC!Meta, CoreC!R, CoreC!W, CoreC!RS, CoreC!WS
  <2> QED BY <2>1 DEF CpiOnly
<1>43. Apt("updateClientReview", CoreC!UpdateClientReview, CoreC!UpdateClientReviewParse,
        CoreA!UpdateClientReview)
  <2>1. LET metas == CoreC!UpdateClientReview.accounts
        IN 4 \in DOMAIN metas /\ metas[4].name = "cpiAuthority" /\ metas[4].signer
    BY DEF CoreC!UpdateClientReview, CoreC!Builder, CoreC!Meta, CoreC!R, CoreC!W, CoreC!RS, CoreC!WS
  <2> QED BY <2>1 DEF CpiOnly
<1>44. Apt("updateDeposit", CoreC!UpdateDeposit, CoreC!UpdateDepositParse,
        CoreA!UpdateUserProfile({"treasury", "disputes", "escrow"}))
  <2>1. LET metas == CoreC!UpdateDeposit.accounts
        IN 3 \in DOMAIN metas /\ metas[3].name = "cpiAuthority" /\ metas[3].signer
    BY DEF CoreC!UpdateDeposit, CoreC!Builder, CoreC!Meta, CoreC!R, CoreC!W, CoreC!RS, CoreC!WS
  <2> QED BY <2>1 DEF CpiOnly
<1>45. Apt("updateHostReview", CoreC!UpdateHostReview, CoreC!UpdateHostReviewParse,
        CoreA!UpdateHostReview)
  <2>1. LET metas == CoreC!UpdateHostReview.accounts
        IN 4 \in DOMAIN metas /\ metas[4].name = "cpiAuthority" /\ metas[4].signer
    BY DEF CoreC!UpdateHostReview, CoreC!Builder, CoreC!Meta, CoreC!R, CoreC!W, CoreC!RS, CoreC!WS
  <2> QED BY <2>1 DEF CpiOnly
<1>46. Apt("updateListingPrice", CoreC!UpdateListingPrice, CoreC!UpdateListingPriceParse,
        CoreA!UpdateListing)
  <2> DEFINE N == CoreC!UpdateListingPriceParse
         M == Means("core", "updateListingPrice", stay, as)
         L == CoreA!UpdateListing
         D == CoreC!UpdateListingPrice.defaults
  <2>1. /\ 1 \in DOMAIN N /\ N[1] = "userProfile"
        /\ 2 \in DOMAIN N /\ N[2] = "listing"
        /\ 3 \in DOMAIN N /\ N[3] = "authority"
    BY DEF CoreC!UpdateListingPriceParse
  <2>2. \A i \in DOMAIN N : N[i] \in PlacedNames \cup {"payer"}
    BY SMTT(60) DEF CoreC!UpdateListingPriceParse, PlacedNames, OwnPlaces, SharedNames
  <2> HIDE DEF N
  <2>3. ASSUME as \in Roles("updateListingPrice"), Agree(T, N, M)
        PROVE  /\ \A i \in DOMAIN L : P(L[i])
               /\ \A i \in DOMAIN D : S("updateListingPrice", D[i])
    <3>0. MeantAt(M, "core", "updateListingPrice", stay, as)
      BY MeansPlaces
    <3> HIDE DEF M
    <3>1. as = "host"
      BY <2>3 DEF Roles, PartyOps, HostOps
    <3>2. /\ T["userProfile"] = M["userProfile"]
          /\ T["listing"] = M["listing"]
          /\ T["authority"] = M["authority"]
      BY <2>1, <2>3 DEF Agree
    <3>3. "updateListingPrice" \notin RootOps
      BY DEF RootOps
    <3>4. ActorOf(stay, as) = HostOf(stay)
      BY <3>1, <1>1
    <3>5. M["authority"] = ActorOf(stay, as)
      BY <3>3, <3>0 DEF MeantAt
    <3>6. /\ M["userProfile"] = Profiled(ActorOf(stay, as))
          /\ M["listing"] = ListingOf(stay)
      BY <3>0 DEF MeantAt
    <3>7. /\ T["userProfile"] = Profiled(HostOf(stay))
          /\ T["listing"] = ListingOf(stay)
          /\ T["authority"] = HostOf(stay)
      BY <3>2, <3>4, <3>5, <3>6
    <3>8. /\ P(CoreA!Ro("userProfile", CoreA!UserProfile, {CoreA!ProfileOf("authority")}))
          /\ P(CoreA!Mut("listing", CoreA!Listing, {CoreA!SameListing("userProfile", "listing")}))
          /\ P(CoreA!Signs("authority", {}))
          /\ P(CoreA!MutSigns("payer", {}))
      BY <3>7, <1>27, <1>28, <1>12, <1>2
    <3>9. \A i \in DOMAIN L : P(L[i])
      BY <3>8, SMTT(60) DEF CoreA!UpdateListing
    <3>10. /\ Q(CoreC!Default("userProfile", CoreC!FindUserProfilePda("authority")))
      BY <3>7, <1>15
    <3>11. \A i \in DOMAIN D : S("updateListingPrice", D[i])
      BY <3>10, SMTT(60) DEF CoreC!UpdateListingPrice, CoreC!Builder
    <3> QED BY <3>9, <3>11
  <2> QED BY <2>2, <2>3 DEF N, M, D
<1>47. Apt("updateListingPublish", CoreC!UpdateListingPublish, CoreC!UpdateListingPublishParse,
        CoreA!UpdateListing)
  <2> DEFINE N == CoreC!UpdateListingPublishParse
         M == Means("core", "updateListingPublish", stay, as)
         L == CoreA!UpdateListing
         D == CoreC!UpdateListingPublish.defaults
  <2>1. /\ 1 \in DOMAIN N /\ N[1] = "userProfile"
        /\ 2 \in DOMAIN N /\ N[2] = "listing"
        /\ 3 \in DOMAIN N /\ N[3] = "authority"
    BY DEF CoreC!UpdateListingPublishParse
  <2>2. \A i \in DOMAIN N : N[i] \in PlacedNames \cup {"payer"}
    BY SMTT(60) DEF CoreC!UpdateListingPublishParse, PlacedNames, OwnPlaces, SharedNames
  <2> HIDE DEF N
  <2>3. ASSUME as \in Roles("updateListingPublish"), Agree(T, N, M)
        PROVE  /\ \A i \in DOMAIN L : P(L[i])
               /\ \A i \in DOMAIN D : S("updateListingPublish", D[i])
    <3>0. MeantAt(M, "core", "updateListingPublish", stay, as)
      BY MeansPlaces
    <3> HIDE DEF M
    <3>1. as = "host"
      BY <2>3 DEF Roles, PartyOps, HostOps
    <3>2. /\ T["userProfile"] = M["userProfile"]
          /\ T["listing"] = M["listing"]
          /\ T["authority"] = M["authority"]
      BY <2>1, <2>3 DEF Agree
    <3>3. "updateListingPublish" \notin RootOps
      BY DEF RootOps
    <3>4. ActorOf(stay, as) = HostOf(stay)
      BY <3>1, <1>1
    <3>5. M["authority"] = ActorOf(stay, as)
      BY <3>3, <3>0 DEF MeantAt
    <3>6. /\ M["userProfile"] = Profiled(ActorOf(stay, as))
          /\ M["listing"] = ListingOf(stay)
      BY <3>0 DEF MeantAt
    <3>7. /\ T["userProfile"] = Profiled(HostOf(stay))
          /\ T["listing"] = ListingOf(stay)
          /\ T["authority"] = HostOf(stay)
      BY <3>2, <3>4, <3>5, <3>6
    <3>8. /\ P(CoreA!Ro("userProfile", CoreA!UserProfile, {CoreA!ProfileOf("authority")}))
          /\ P(CoreA!Mut("listing", CoreA!Listing, {CoreA!SameListing("userProfile", "listing")}))
          /\ P(CoreA!Signs("authority", {}))
          /\ P(CoreA!MutSigns("payer", {}))
      BY <3>7, <1>27, <1>28, <1>12, <1>2
    <3>9. \A i \in DOMAIN L : P(L[i])
      BY <3>8, SMTT(60) DEF CoreA!UpdateListing
    <3>10. /\ Q(CoreC!Default("userProfile", CoreC!FindUserProfilePda("authority")))
      BY <3>7, <1>15
    <3>11. \A i \in DOMAIN D : S("updateListingPublish", D[i])
      BY <3>10, SMTT(60) DEF CoreC!UpdateListingPublish, CoreC!Builder
    <3> QED BY <3>9, <3>11
  <2> QED BY <2>2, <2>3 DEF N, M, D
<1>48. Apt("updateListingReview", CoreC!UpdateListingReview, CoreC!UpdateListingReviewParse,
        CoreA!UpdateListingReview)
  <2>1. LET metas == CoreC!UpdateListingReview.accounts
        IN 4 \in DOMAIN metas /\ metas[4].name = "cpiAuthority" /\ metas[4].signer
    BY DEF CoreC!UpdateListingReview, CoreC!Builder, CoreC!Meta, CoreC!R, CoreC!W, CoreC!RS,
            CoreC!WS
  <2> QED BY <2>1 DEF CpiOnly
<1>49. Apt("updateListingState", CoreC!UpdateListingState, CoreC!UpdateListingStateParse,
        CoreA!UpdateListing)
  <2> DEFINE N == CoreC!UpdateListingStateParse
         M == Means("core", "updateListingState", stay, as)
         L == CoreA!UpdateListing
         D == CoreC!UpdateListingState.defaults
  <2>1. /\ 1 \in DOMAIN N /\ N[1] = "userProfile"
        /\ 2 \in DOMAIN N /\ N[2] = "listing"
        /\ 3 \in DOMAIN N /\ N[3] = "authority"
    BY DEF CoreC!UpdateListingStateParse
  <2>2. \A i \in DOMAIN N : N[i] \in PlacedNames \cup {"payer"}
    BY SMTT(60) DEF CoreC!UpdateListingStateParse, PlacedNames, OwnPlaces, SharedNames
  <2> HIDE DEF N
  <2>3. ASSUME as \in Roles("updateListingState"), Agree(T, N, M)
        PROVE  /\ \A i \in DOMAIN L : P(L[i])
               /\ \A i \in DOMAIN D : S("updateListingState", D[i])
    <3>0. MeantAt(M, "core", "updateListingState", stay, as)
      BY MeansPlaces
    <3> HIDE DEF M
    <3>1. as = "host"
      BY <2>3 DEF Roles, PartyOps, HostOps
    <3>2. /\ T["userProfile"] = M["userProfile"]
          /\ T["listing"] = M["listing"]
          /\ T["authority"] = M["authority"]
      BY <2>1, <2>3 DEF Agree
    <3>3. "updateListingState" \notin RootOps
      BY DEF RootOps
    <3>4. ActorOf(stay, as) = HostOf(stay)
      BY <3>1, <1>1
    <3>5. M["authority"] = ActorOf(stay, as)
      BY <3>3, <3>0 DEF MeantAt
    <3>6. /\ M["userProfile"] = Profiled(ActorOf(stay, as))
          /\ M["listing"] = ListingOf(stay)
      BY <3>0 DEF MeantAt
    <3>7. /\ T["userProfile"] = Profiled(HostOf(stay))
          /\ T["listing"] = ListingOf(stay)
          /\ T["authority"] = HostOf(stay)
      BY <3>2, <3>4, <3>5, <3>6
    <3>8. /\ P(CoreA!Ro("userProfile", CoreA!UserProfile, {CoreA!ProfileOf("authority")}))
          /\ P(CoreA!Mut("listing", CoreA!Listing, {CoreA!SameListing("userProfile", "listing")}))
          /\ P(CoreA!Signs("authority", {}))
          /\ P(CoreA!MutSigns("payer", {}))
      BY <3>7, <1>27, <1>28, <1>12, <1>2
    <3>9. \A i \in DOMAIN L : P(L[i])
      BY <3>8, SMTT(60) DEF CoreA!UpdateListing
    <3>10. /\ Q(CoreC!Default("userProfile", CoreC!FindUserProfilePda("authority")))
      BY <3>7, <1>15
    <3>11. \A i \in DOMAIN D : S("updateListingState", D[i])
      BY <3>10, SMTT(60) DEF CoreC!UpdateListingState, CoreC!Builder
    <3> QED BY <3>9, <3>11
  <2> QED BY <2>2, <2>3 DEF N, M, D
<1> HIDE DEF Apt
<1>50. \A op \in Ops("core") :
        Apt(op, CoreC!Plugin[op], CoreC!Parsers[op], CoreA!Rules[op])
  BY <1>29, <1>30, <1>31, <1>32, <1>33, <1>34, <1>35, <1>36, <1>37, <1>38, <1>39, <1>40,
    <1>41, <1>42, <1>43, <1>44, <1>45, <1>46, <1>47, <1>48, <1>49 DEF Ops, Demands,
    CoreA!Rules, CoreC!Plugin, CoreC!Parsers
<1> QED BY <1>50 DEF Apt, P, Q, S, Sound

\* The disputes program.
\* The tables of an instruction: a verdict has another one without a fault.
DisputesTables(op) ==
  {DisputesA!Rules[op]}
    \cup (IF op = "resolveDispute" THEN {DisputesA!ResolveWithoutFault} ELSE {})

LEMMA DisputesSeated ==
  ASSUME NEW stay, NEW as, NEW T, NEW args, args = ArgsOf(stay, as)
  PROVE  \A op \in Ops("disputes") : \A rules \in DisputesTables(op) :
           \/ CpiOnly(DisputesC!Plugin[op])
           \/ /\ \A i \in DOMAIN DisputesC!Parsers[op] :
                   DisputesC!Parsers[op][i] \in PlacedNames \cup {"payer"}
              /\ (as \in Roles(op) /\ Agree(T, DisputesC!Parsers[op],
                   Means("disputes", op, stay, as)))
                   => /\ \A i \in DOMAIN rules : Seated(rules[i], T, args)
                      /\ \A i \in DOMAIN DisputesC!Plugin[op].defaults :
                           Sound(op, DisputesC!Plugin[op].defaults[i], T, args)
<1> DEFINE P(rule) == Seated(rule, T, args)
<1> DEFINE Q(default) == Sure(default, T, args)
<1> DEFINE S(op, default) == <<op, default.account>> \in DivergentDefaults \/ Q(default)
<1> DEFINE Apt(op, plugin, names, rules) ==
      \/ CpiOnly(plugin)
      \/ /\ \A i \in DOMAIN names : names[i] \in PlacedNames \cup {"payer"}
         /\ (as \in Roles(op) /\ Agree(T, names, Means("disputes", op, stay, as)))
              => /\ \A i \in DOMAIN rules : P(rules[i])
                 /\ \A i \in DOMAIN plugin.defaults : S(op, plugin.defaults[i])
<1>1. /\ args["listingId"] = Stay[stay].listingId /\ args["checkIn"] = Stay[stay].checkIn
      /\ args["id"] = ActorOf(stay, as)
      /\ as = "guest" => ActorOf(stay, as) = GuestOf(stay)
      /\ as = "host" => ActorOf(stay, as) = HostOf(stay)
  BY ArgsMeant
<1>2. P(DisputesA!Signs("admin", {}))
  <2>1. Seated(Signs("admin", {}), T, args)
    BY FreeSeated
  <2>2. DisputesA!Signs("admin", {}) = Signs("admin", {})
    BY DEF Signs, DisputesA!Signs, Rule, DisputesA!Rule, AnyType, DisputesA!AnyType
  <2> QED BY <2>1, <2>2
<1>3. ASSUME T["disputeConfig"] = Address("disputes", <<Lit("dispute_config")>>)
      PROVE  P(DisputesA!Mut("disputeConfig", DisputesA!DisputeConfig,
               {DisputesA!DisputeConfigPda}))
  <2>1. /\ At(T, args, "disputeConfig", DisputeConfigPda)
        /\ Type(T["disputeConfig"]) \in DisputeConfig
    BY <1>3, OtherWhere, PlaceKinds DEF DisputeConfigPda
  <2>2. Seated(Mut("disputeConfig", DisputeConfig, {DisputeConfigPda}), T, args)
    BY <2>1, KnownSeated
  <2>3. DisputesA!Mut("disputeConfig", DisputesA!DisputeConfig, {DisputesA!DisputeConfigPda})
          = Mut("disputeConfig", DisputeConfig, {DisputeConfigPda})
    BY DEF Mut, DisputesA!Mut, Rule, DisputesA!Rule, DisputeConfig, DisputesA!DisputeConfig,
      DisputeConfigPda, DisputesA!DisputeConfigPda, Derivation, DisputesA!Derivation, Lit,
      DisputesA!Lit
  <2> QED BY <2>2, <2>3
<1>4. ASSUME T["disputeConfig"] = Address("disputes", <<Lit("dispute_config")>>)
      PROVE  Q(DisputesC!Default("disputeConfig", DisputesC!FindDisputeConfigPda))
  <2>1. At(T, args, "disputeConfig", DisputeConfigPda)
    BY <1>4, OtherWhere DEF DisputeConfigPda
  <2>2. DisputesC!Default("disputeConfig", DisputesC!FindDisputeConfigPda)
          = [account |-> "disputeConfig", from |-> DisputeConfigPda]
    BY DEF DisputesC!Default, DisputesC!FindDisputeConfigPda, DisputesC!Derivation,
      DisputesC!Lit, DisputeConfigPda, Derivation, Lit
  <2>3. /\ "disputeConfig" \notin Bottom
        /\ Reads(DisputeConfigPda) \subseteq Bottom \cup Middle \cup {"booking"}
        /\ "disputeConfig" = "booking" => Reads(DisputeConfigPda) \subseteq Bottom \cup Middle
        /\ "disputeConfig" \in Middle => Reads(DisputeConfigPda) \subseteq Bottom
    BY ReadsOf DEF Bottom, Middle, DisputeConfigPda
  <2> QED BY <2>1, <2>2, <2>3, SureDefault
<1>5. ASSUME T["dispute"] = Disputed(StayBooking(stay)),
             T["booking"] = StayBooking(stay)
      PROVE  P(DisputesA!Closed("dispute", DisputesA!DisputeAccount,
               {DisputesA!DisputeOf("booking")}))
  <2>1. /\ At(T, args, "dispute", DisputeOf("booking"))
        /\ Type(T["dispute"]) \in DisputeAccount
    BY <1>5, OtherWhere, PlaceKinds
  <2>2. Seated(Closed("dispute", DisputeAccount, {DisputeOf("booking")}), T, args)
    BY <2>1, KnownSeated
  <2>3. DisputesA!Closed("dispute", DisputesA!DisputeAccount, {DisputesA!DisputeOf("booking")})
          = Closed("dispute", DisputeAccount, {DisputeOf("booking")})
    BY DEF Closed, DisputesA!Closed, Rule, DisputesA!Rule, DisputeAccount,
      DisputesA!DisputeAccount, DisputeOf, DisputesA!DisputeOf, Derivation,
      DisputesA!Derivation, Lit, DisputesA!Lit, Key, DisputesA!Key
  <2> QED BY <2>2, <2>3
<1>6. ASSUME T["booking"] = StayBooking(stay)
      PROVE  P(DisputesA!BookingRule)
  <2>1. /\ At(T, args, "booking", BookingBy("booking"))
        /\ Type(T["booking"]) \in Booking
    BY <1>6, StayWhere, PlaceKinds
  <2>2. Seated(Mut("booking", Booking, {BookingBy("booking")}), T, args)
    BY <2>1, KnownSeated
  <2>3. DisputesA!BookingRule = Mut("booking", Booking, {BookingBy("booking")})
    BY DEF DisputesA!BookingRule, Mut, DisputesA!Mut, Rule, DisputesA!Rule, Booking,
      DisputesA!Booking, BookingBy, DisputesA!BookingBy, BookingOf, DisputesA!BookingOf,
      Derivation, DisputesA!Derivation, Lit, DisputesA!Lit, Field, DisputesA!Field
  <2> QED BY <2>2, <2>3
<1>7. ASSUME T["guestProfile"] = Profiled(GuestOf(stay)),
             T["booking"] = StayBooking(stay)
      PROVE  P(DisputesA!PartyRule("guestProfile", "guest"))
  <2>1. /\ At(T, args, "guestProfile", ProfileBy("guestProfile"))
        /\ At(T, args, "guestProfile", Held("booking", "guest"))
        /\ Type(T["guestProfile"]) \in UserProfile
    BY <1>7, ProfileWhere, StayWhere, PlaceKinds
  <2>2. Seated(Mut("guestProfile", UserProfile,
          {ProfileBy("guestProfile"), Held("booking", "guest")}), T, args)
    BY <2>1, KnownSeated
  <2>3. DisputesA!PartyRule("guestProfile", "guest")
          = Mut("guestProfile", UserProfile, {ProfileBy("guestProfile"), Held("booking", "guest")})
    BY DEF DisputesA!PartyRule, Mut, DisputesA!Mut, Rule, DisputesA!Rule, UserProfile,
      DisputesA!UserProfile, ProfileBy, DisputesA!ProfileBy, Derivation,
      DisputesA!Derivation, Lit, DisputesA!Lit, Field, DisputesA!Field, Held, DisputesA!Held
  <2> QED BY <2>2, <2>3
<1>8. ASSUME T["hostProfile"] = Profiled(HostOf(stay)),
             T["booking"] = StayBooking(stay)
      PROVE  P(DisputesA!PartyRule("hostProfile", "host"))
  <2>1. /\ At(T, args, "hostProfile", ProfileBy("hostProfile"))
        /\ At(T, args, "hostProfile", Held("booking", "host"))
        /\ Type(T["hostProfile"]) \in UserProfile
    BY <1>8, ProfileWhere, StayWhere, PlaceKinds
  <2>2. Seated(Mut("hostProfile", UserProfile,
          {ProfileBy("hostProfile"), Held("booking", "host")}), T, args)
    BY <2>1, KnownSeated
  <2>3. DisputesA!PartyRule("hostProfile", "host")
          = Mut("hostProfile", UserProfile, {ProfileBy("hostProfile"), Held("booking", "host")})
    BY DEF DisputesA!PartyRule, Mut, DisputesA!Mut, Rule, DisputesA!Rule, UserProfile,
      DisputesA!UserProfile, ProfileBy, DisputesA!ProfileBy, Derivation,
      DisputesA!Derivation, Lit, DisputesA!Lit, Field, DisputesA!Field, Held, DisputesA!Held
  <2> QED BY <2>2, <2>3
<1>9. ASSUME T["openerWallet"] = GuestOf(stay),
             T["guestProfile"] = Profiled(GuestOf(stay))
      PROVE  P(DisputesA!OneOf({DisputesA!Held("guestProfile", "authority"),
               DisputesA!Held("hostProfile", "authority")},
                       DisputesA!Mut("openerWallet", DisputesA!SignerType, {})))
  <2>1. /\ At(T, args, "openerWallet", Held("guestProfile", "authority"))
        /\ Type(T["openerWallet"]) \in SignerType
    BY <1>9, OwnerWhere, PlaceKinds
  <2> DEFINE base == Mut("openerWallet", SignerType, {})
  <2>2. Seated(base, T, args)
    BY <2>1, KnownSeated
  <2>3. /\ base.name = "openerWallet"
        /\ base = [name |-> base.name, type |-> base.type, signer |-> base.signer,
                   mut |-> base.mut, life |-> base.life, at |-> base.at, oneOf |-> base.oneOf]
    BY DEF Mut, Rule
  <2>4. DisputesA!OneOf({DisputesA!Held("guestProfile", "authority"),
          DisputesA!Held("hostProfile", "authority")},
                  DisputesA!Mut("openerWallet", DisputesA!SignerType, {}))
                          = OneOf({Held("guestProfile", "authority"),
                                  Held("hostProfile", "authority")}, base)
    BY DEF OneOf, DisputesA!OneOf, Held, DisputesA!Held, Derivation, DisputesA!Derivation,
      Field, DisputesA!Field, Mut, DisputesA!Mut, Rule, DisputesA!Rule, SignerType,
      DisputesA!SignerType
  <2> HIDE DEF base
  <2>5. Held("guestProfile", "authority") \in {Held("guestProfile", "authority"),
          Held("hostProfile", "authority")}
    OBVIOUS
  <2>6. Seated(OneOf({Held("guestProfile", "authority"), Held("hostProfile", "authority")}, base),
          T, args)
    BY <2>1, <2>2, <2>3, <2>5, OneSeated
  <2> QED BY <2>4, <2>6
<1>10. ASSUME T["globalConfig"] = Address("config", <<Lit("global_config")>>)
       PROVE  P(DisputesA!GlobalConfigRule)
  <2>1. /\ At(T, args, "globalConfig", GlobalConfigPda)
        /\ Type(T["globalConfig"]) \in GlobalConfigAcc
    BY <1>10, OtherWhere, PlaceKinds DEF GlobalConfigPda
  <2>2. Seated(Ro("globalConfig", GlobalConfigAcc, {GlobalConfigPda}), T, args)
    BY <2>1, KnownSeated
  <2>3. DisputesA!GlobalConfigRule = Ro("globalConfig", GlobalConfigAcc, {GlobalConfigPda})
    BY DEF GlobalConfigRule, DisputesA!GlobalConfigRule, Ro, DisputesA!Ro, Rule,
      DisputesA!Rule, GlobalConfigAcc, DisputesA!GlobalConfigAcc, GlobalConfigPda,
      DisputesA!GlobalConfigPda, Derivation, DisputesA!Derivation, Lit, DisputesA!Lit
  <2> QED BY <2>2, <2>3
<1>11. ASSUME T["cpiAuthority"] = Address("disputes", <<Lit("cpi_authority")>>)
       PROVE  P(DisputesA!AuthorityRule)
  <2>1. At(T, args, "cpiAuthority", CpiAuthority("disputes"))
    BY <1>11, OtherWhere DEF CpiAuthority
  <2>2. Seated(Unchecked("cpiAuthority", {CpiAuthority("disputes")}), T, args)
    BY <2>1, FreeSeated
  <2>3. DisputesA!AuthorityRule = Unchecked("cpiAuthority", {CpiAuthority("disputes")})
    BY DEF DisputesA!AuthorityRule, Unchecked, DisputesA!Unchecked, Rule, DisputesA!Rule,
      AnyType, DisputesA!AnyType, CpiAuthority, DisputesA!CpiAuthority, Derivation,
      DisputesA!Derivation, Lit, DisputesA!Lit
  <2> QED BY <2>2, <2>3
<1>12. ASSUME T["staykeCoreProgram"] = Deployed("core")
       PROVE  P(DisputesA!CoreProgramRule)
  <2>1. At(T, args, "staykeCoreProgram", Fixed("core"))
    BY <1>12, OtherWhere
  <2>2. Seated(Unchecked("staykeCoreProgram", {Fixed("core")}), T, args)
    BY <2>1, FreeSeated
  <2>3. DisputesA!CoreProgramRule = Unchecked("staykeCoreProgram", {Fixed("core")})
    BY DEF DisputesA!CoreProgramRule, ProgramRule, DisputesA!ProgramRule, Unchecked,
      DisputesA!Unchecked, Rule, DisputesA!Rule, AnyType, DisputesA!AnyType, Fixed,
      DisputesA!Fixed, Derivation, DisputesA!Derivation
  <2> QED BY <2>2, <2>3
<1>13. ASSUME T["staykeEscrowProgram"] = Deployed("escrow")
       PROVE  P(DisputesA!EscrowProgramRule)
  <2>1. At(T, args, "staykeEscrowProgram", Fixed("escrow"))
    BY <1>13, OtherWhere
  <2>2. Seated(Unchecked("staykeEscrowProgram", {Fixed("escrow")}), T, args)
    BY <2>1, FreeSeated
  <2>3. DisputesA!EscrowProgramRule = Unchecked("staykeEscrowProgram", {Fixed("escrow")})
    BY DEF DisputesA!EscrowProgramRule, ProgramRule, DisputesA!ProgramRule, Unchecked,
      DisputesA!Unchecked, Rule, DisputesA!Rule, AnyType, DisputesA!AnyType, Fixed,
      DisputesA!Fixed, Derivation, DisputesA!Derivation
  <2> QED BY <2>2, <2>3
<1>14. ASSUME T["dispute"] = Disputed(StayBooking(stay)),
              T["booking"] = StayBooking(stay)
       PROVE  Q(DisputesC!Default("dispute", DisputesC!FindDisputePda("booking")))
  <2>1. At(T, args, "dispute", DisputeOf("booking"))
    BY <1>14, OtherWhere
  <2>2. DisputesC!Default("dispute", DisputesC!FindDisputePda("booking"))
          = [account |-> "dispute", from |-> DisputeOf("booking")]
    BY DEF DisputesC!Default, DisputesC!FindDisputePda, DisputesC!Derivation, DisputesC!Lit,
      DisputesC!Key, DisputeOf, Derivation, Lit, Key
  <2>3. /\ "dispute" \notin Bottom
        /\ Reads(DisputeOf("booking")) \subseteq Bottom \cup Middle \cup {"booking"}
        /\ "dispute" = "booking" => Reads(DisputeOf("booking")) \subseteq Bottom \cup Middle
        /\ "dispute" \in Middle => Reads(DisputeOf("booking")) \subseteq Bottom
    BY ReadsOf DEF Bottom, Middle
  <2> QED BY <2>1, <2>2, <2>3, SureDefault
<1>15. ASSUME T["globalConfig"] = Address("config", <<Lit("global_config")>>)
       PROVE  Q(DisputesC!Default("globalConfig", DisputesC!GlobalConfig))
  <2>1. At(T, args, "globalConfig", GlobalConfigPda)
    BY <1>15, OtherWhere DEF GlobalConfigPda
  <2>2. DisputesC!Default("globalConfig", DisputesC!GlobalConfig)
          = [account |-> "globalConfig", from |-> GlobalConfigPda]
    BY DEF DisputesC!Default, DisputesC!GlobalConfig, DisputesC!Derivation, DisputesC!Lit,
      GlobalConfigPda, Derivation, Lit
  <2>3. /\ "globalConfig" \notin Bottom
        /\ Reads(GlobalConfigPda) \subseteq Bottom \cup Middle \cup {"booking"}
        /\ "globalConfig" = "booking" => Reads(GlobalConfigPda) \subseteq Bottom \cup Middle
        /\ "globalConfig" \in Middle => Reads(GlobalConfigPda) \subseteq Bottom
    BY ReadsOf DEF Bottom, Middle, GlobalConfigPda
  <2> QED BY <2>1, <2>2, <2>3, SureDefault
<1>16. ASSUME T["cpiAuthority"] = Address("disputes", <<Lit("cpi_authority")>>)
       PROVE  Q(DisputesC!Default("cpiAuthority", DisputesC!FindCpiAuthorityPda))
  <2>1. At(T, args, "cpiAuthority", CpiAuthority("disputes"))
    BY <1>16, OtherWhere DEF CpiAuthority
  <2>2. DisputesC!Default("cpiAuthority", DisputesC!FindCpiAuthorityPda)
          = [account |-> "cpiAuthority", from |-> CpiAuthority("disputes")]
    BY DEF DisputesC!Default, DisputesC!FindCpiAuthorityPda, DisputesC!Derivation,
      DisputesC!Lit, CpiAuthority, Derivation, Lit
  <2>3. /\ "cpiAuthority" \notin Bottom
        /\ Reads(CpiAuthority("disputes")) \subseteq Bottom \cup Middle \cup {"booking"}
        /\ "cpiAuthority"
             = "booking" => Reads(CpiAuthority("disputes")) \subseteq Bottom \cup Middle
        /\ "cpiAuthority" \in Middle => Reads(CpiAuthority("disputes")) \subseteq Bottom
    BY ReadsOf DEF Bottom, Middle, CpiAuthority
  <2> QED BY <2>1, <2>2, <2>3, SureDefault
<1>17. ASSUME T["staykeCoreProgram"] = Deployed("core")
       PROVE  Q(DisputesC!Default("staykeCoreProgram", DisputesC!Fixed("core")))
  <2>1. At(T, args, "staykeCoreProgram", Fixed("core"))
    BY <1>17, OtherWhere
  <2>2. DisputesC!Default("staykeCoreProgram", DisputesC!Fixed("core"))
          = [account |-> "staykeCoreProgram", from |-> Fixed("core")]
    BY DEF DisputesC!Default, DisputesC!Derivation, DisputesC!Fixed, Fixed, Derivation
  <2>3. /\ "staykeCoreProgram" \notin Bottom
        /\ Reads(Fixed("core")) \subseteq Bottom \cup Middle \cup {"booking"}
        /\ "staykeCoreProgram" = "booking" => Reads(Fixed("core")) \subseteq Bottom \cup Middle
        /\ "staykeCoreProgram" \in Middle => Reads(Fixed("core")) \subseteq Bottom
    BY ReadsOf DEF Bottom, Middle
  <2> QED BY <2>1, <2>2, <2>3, SureDefault
<1>18. ASSUME T["staykeEscrowProgram"] = Deployed("escrow")
       PROVE  Q(DisputesC!Default("staykeEscrowProgram", DisputesC!Fixed("escrow")))
  <2>1. At(T, args, "staykeEscrowProgram", Fixed("escrow"))
    BY <1>18, OtherWhere
  <2>2. DisputesC!Default("staykeEscrowProgram", DisputesC!Fixed("escrow"))
          = [account |-> "staykeEscrowProgram", from |-> Fixed("escrow")]
    BY DEF DisputesC!Default, DisputesC!Derivation, DisputesC!Fixed, Fixed, Derivation
  <2>3. /\ "staykeEscrowProgram" \notin Bottom
        /\ Reads(Fixed("escrow")) \subseteq Bottom \cup Middle \cup {"booking"}
        /\ "staykeEscrowProgram" = "booking" => Reads(Fixed("escrow")) \subseteq Bottom \cup Middle
        /\ "staykeEscrowProgram" \in Middle => Reads(Fixed("escrow")) \subseteq Bottom
    BY ReadsOf DEF Bottom, Middle
  <2> QED BY <2>1, <2>2, <2>3, SureDefault
<1>19. ASSUME T["openerWallet"] = HostOf(stay),
              T["hostProfile"] = Profiled(HostOf(stay))
       PROVE  P(DisputesA!OneOf({DisputesA!Held("guestProfile", "authority"),
                DisputesA!Held("hostProfile", "authority")},
                        DisputesA!Mut("openerWallet", DisputesA!SignerType, {})))
  <2>1. /\ At(T, args, "openerWallet", Held("hostProfile", "authority"))
        /\ Type(T["openerWallet"]) \in SignerType
    BY <1>19, OwnerWhere, PlaceKinds
  <2> DEFINE base == Mut("openerWallet", SignerType, {})
  <2>2. Seated(base, T, args)
    BY <2>1, KnownSeated
  <2>3. /\ base.name = "openerWallet"
        /\ base = [name |-> base.name, type |-> base.type, signer |-> base.signer,
                   mut |-> base.mut, life |-> base.life, at |-> base.at, oneOf |-> base.oneOf]
    BY DEF Mut, Rule
  <2>4. DisputesA!OneOf({DisputesA!Held("guestProfile", "authority"),
          DisputesA!Held("hostProfile", "authority")},
                  DisputesA!Mut("openerWallet", DisputesA!SignerType, {}))
                          = OneOf({Held("guestProfile", "authority"),
                                  Held("hostProfile", "authority")}, base)
    BY DEF OneOf, DisputesA!OneOf, Held, DisputesA!Held, Derivation, DisputesA!Derivation,
      Field, DisputesA!Field, Mut, DisputesA!Mut, Rule, DisputesA!Rule, SignerType,
      DisputesA!SignerType
  <2> HIDE DEF base
  <2>5. Held("hostProfile", "authority") \in {Held("guestProfile", "authority"),
          Held("hostProfile", "authority")}
    OBVIOUS
  <2>6. Seated(OneOf({Held("guestProfile", "authority"), Held("hostProfile", "authority")}, base),
          T, args)
    BY <2>1, <2>2, <2>3, <2>5, OneSeated
  <2> QED BY <2>4, <2>6
<1>20. ASSUME T["dispute"] = Disputed(StayBooking(stay))
       PROVE  P(DisputesA!Mut("dispute", DisputesA!DisputeAccount,
                {DisputesA!DisputeBy("dispute")}))
  <2>1. /\ At(T, args, "dispute", DisputeBy("dispute"))
        /\ Type(T["dispute"]) \in DisputeAccount
    BY <1>20, OtherWhere, PlaceKinds
  <2>2. Seated(Mut("dispute", DisputeAccount, {DisputeBy("dispute")}), T, args)
    BY <2>1, KnownSeated
  <2>3. DisputesA!Mut("dispute", DisputesA!DisputeAccount, {DisputesA!DisputeBy("dispute")})
          = Mut("dispute", DisputeAccount, {DisputeBy("dispute")})
    BY DEF Mut, DisputesA!Mut, Rule, DisputesA!Rule, DisputeAccount,
      DisputesA!DisputeAccount, DisputeBy, DisputesA!DisputeBy, Derivation,
      DisputesA!Derivation, Lit, DisputesA!Lit, Field, DisputesA!Field
  <2> QED BY <2>2, <2>3
<1>21. P(DisputesA!MutSigns("authority", {}))
  <2>1. Seated(MutSigns("authority", {}), T, args)
    BY FreeSeated
  <2>2. DisputesA!MutSigns("authority", {}) = MutSigns("authority", {})
    BY DEF MutSigns, DisputesA!MutSigns, Rule, DisputesA!Rule, AnyType, DisputesA!AnyType
  <2> QED BY <2>1, <2>2
<1>22. ASSUME T["config"] = Address("disputes", <<Lit("dispute_config")>>)
       PROVE  P(DisputesA!New("config", DisputesA!DisputeConfig, {DisputesA!DisputeConfigPda}))
  <2>1. At(T, args, "config", DisputeConfigPda)
    BY <1>22, OtherWhere DEF DisputeConfigPda
  <2>2. Seated(New("config", DisputeConfig, {DisputeConfigPda}), T, args)
    BY <2>1, NewSeated
  <2>3. DisputesA!New("config", DisputesA!DisputeConfig, {DisputesA!DisputeConfigPda})
          = New("config", DisputeConfig, {DisputeConfigPda})
    BY DEF New, DisputesA!New, Rule, DisputesA!Rule, DisputeConfig, DisputesA!DisputeConfig,
      DisputeConfigPda, DisputesA!DisputeConfigPda, Derivation, DisputesA!Derivation, Lit,
      DisputesA!Lit
  <2> QED BY <2>2, <2>3
<1>23. ASSUME T["systemProgram"] = Deployed("system")
       PROVE  P(DisputesA!SystemRule)
  <2>1. At(T, args, "systemProgram", Fixed("system"))
    BY <1>23, OtherWhere
  <2>2. Seated(Unchecked("systemProgram", {Fixed("system")}), T, args)
    BY <2>1, FreeSeated
  <2>3. DisputesA!SystemRule = Unchecked("systemProgram", {Fixed("system")})
    BY DEF SystemRule, DisputesA!SystemRule, ProgramRule, DisputesA!ProgramRule, Unchecked,
      DisputesA!Unchecked, Rule, DisputesA!Rule, AnyType, DisputesA!AnyType, Fixed,
      DisputesA!Fixed, Derivation, DisputesA!Derivation
  <2> QED BY <2>2, <2>3
<1>24. ASSUME T["config"] = Address("disputes", <<Lit("dispute_config")>>)
       PROVE  Q(DisputesC!Default("config", DisputesC!FindDisputeConfigPda))
  <2>1. At(T, args, "config", DisputeConfigPda)
    BY <1>24, OtherWhere DEF DisputeConfigPda
  <2>2. DisputesC!Default("config", DisputesC!FindDisputeConfigPda)
          = [account |-> "config", from |-> DisputeConfigPda]
    BY DEF DisputesC!Default, DisputesC!FindDisputeConfigPda, DisputesC!Derivation,
      DisputesC!Lit, DisputeConfigPda, Derivation, Lit
  <2>3. /\ "config" \notin Bottom
        /\ Reads(DisputeConfigPda) \subseteq Bottom \cup Middle \cup {"booking"}
        /\ "config" = "booking" => Reads(DisputeConfigPda) \subseteq Bottom \cup Middle
        /\ "config" \in Middle => Reads(DisputeConfigPda) \subseteq Bottom
    BY ReadsOf DEF Bottom, Middle, DisputeConfigPda
  <2> QED BY <2>1, <2>2, <2>3, SureDefault
<1>25. ASSUME T["systemProgram"] = Deployed("system")
       PROVE  Q(DisputesC!Default("systemProgram", DisputesC!Fixed("system")))
  <2>1. At(T, args, "systemProgram", Fixed("system"))
    BY <1>25, OtherWhere
  <2>2. DisputesC!Default("systemProgram", DisputesC!Fixed("system"))
          = [account |-> "systemProgram", from |-> Fixed("system")]
    BY DEF DisputesC!Default, DisputesC!Derivation, DisputesC!Fixed, Fixed, Derivation
  <2>3. /\ "systemProgram" \notin Bottom
        /\ Reads(Fixed("system")) \subseteq Bottom \cup Middle \cup {"booking"}
        /\ "systemProgram" = "booking" => Reads(Fixed("system")) \subseteq Bottom \cup Middle
        /\ "systemProgram" \in Middle => Reads(Fixed("system")) \subseteq Bottom
    BY ReadsOf DEF Bottom, Middle
  <2> QED BY <2>1, <2>2, <2>3, SureDefault
<1>26. P(DisputesA!Signs("signer", {}))
  <2>1. Seated(Signs("signer", {}), T, args)
    BY FreeSeated
  <2>2. DisputesA!Signs("signer", {}) = Signs("signer", {})
    BY DEF Signs, DisputesA!Signs, Rule, DisputesA!Rule, AnyType, DisputesA!AnyType
  <2> QED BY <2>1, <2>2
<1>27. ASSUME T["dispute"] = Disputed(StayBooking(stay)),
              T["booking"] = StayBooking(stay)
       PROVE  P(DisputesA!Ro("dispute", DisputesA!DisputeAccount, {DisputesA!DisputeOf("booking")}))
  <2>1. /\ At(T, args, "dispute", DisputeOf("booking"))
        /\ Type(T["dispute"]) \in DisputeAccount
    BY <1>27, OtherWhere, PlaceKinds
  <2>2. Seated(Ro("dispute", DisputeAccount, {DisputeOf("booking")}), T, args)
    BY <2>1, KnownSeated
  <2>3. DisputesA!Ro("dispute", DisputesA!DisputeAccount, {DisputesA!DisputeOf("booking")})
          = Ro("dispute", DisputeAccount, {DisputeOf("booking")})
    BY DEF Ro, DisputesA!Ro, Rule, DisputesA!Rule, DisputeAccount, DisputesA!DisputeAccount,
      DisputeOf, DisputesA!DisputeOf, Derivation, DisputesA!Derivation, Lit, DisputesA!Lit,
      Key, DisputesA!Key
  <2> QED BY <2>2, <2>3
<1>28. ASSUME T["booking"] = StayBooking(stay)
       PROVE  P(DisputesA!Ro("booking", DisputesA!Booking, {DisputesA!BookingBy("booking")}))
  <2>1. /\ At(T, args, "booking", BookingBy("booking"))
        /\ Type(T["booking"]) \in Booking
    BY <1>28, StayWhere, PlaceKinds
  <2>2. Seated(Ro("booking", Booking, {BookingBy("booking")}), T, args)
    BY <2>1, KnownSeated
  <2>3. DisputesA!Ro("booking", DisputesA!Booking, {DisputesA!BookingBy("booking")})
          = Ro("booking", Booking, {BookingBy("booking")})
    BY DEF Ro, DisputesA!Ro, Rule, DisputesA!Rule, Booking, DisputesA!Booking, BookingBy,
      DisputesA!BookingBy, BookingOf, DisputesA!BookingOf, Derivation, DisputesA!Derivation,
      Lit, DisputesA!Lit, Field, DisputesA!Field
  <2> QED BY <2>2, <2>3
<1>29. ASSUME T["userProfile"] = Profiled(GuestOf(stay)),
              T["signer"] = GuestOf(stay),
              T["booking"] = StayBooking(stay)
       PROVE  P(DisputesA!OneOf({DisputesA!Held("booking", "guest"),
                DisputesA!Held("booking", "host")},
                        DisputesA!Ro("userProfile", DisputesA!UserProfile,
                                {DisputesA!ProfileOf("signer")})))
  <2>1. /\ At(T, args, "userProfile", ProfileOf("signer"))
        /\ At(T, args, "userProfile", Held("booking", "guest"))
        /\ Type(T["userProfile"]) \in UserProfile
    BY <1>29, ProfileWhere, StayWhere, PlaceKinds
  <2> DEFINE base == Ro("userProfile", UserProfile, {ProfileOf("signer")})
  <2>2. Seated(base, T, args)
    BY <2>1, KnownSeated
  <2>3. /\ base.name = "userProfile"
        /\ base = [name |-> base.name, type |-> base.type, signer |-> base.signer,
                   mut |-> base.mut, life |-> base.life, at |-> base.at, oneOf |-> base.oneOf]
    BY DEF Ro, Rule
  <2>4. DisputesA!OneOf({DisputesA!Held("booking", "guest"), DisputesA!Held("booking", "host")},
          DisputesA!Ro("userProfile", DisputesA!UserProfile, {DisputesA!ProfileOf("signer")}))
                  = OneOf({Held("booking", "guest"), Held("booking", "host")}, base)
    BY DEF OneOf, DisputesA!OneOf, Held, DisputesA!Held, Derivation, DisputesA!Derivation,
      Field, DisputesA!Field, Ro, DisputesA!Ro, Rule, DisputesA!Rule, UserProfile,
      DisputesA!UserProfile, ProfileOf, DisputesA!ProfileOf, Lit, DisputesA!Lit, Key,
      DisputesA!Key
  <2> HIDE DEF base
  <2>5. Held("booking", "guest") \in {Held("booking", "guest"), Held("booking", "host")}
    OBVIOUS
  <2>6. Seated(OneOf({Held("booking", "guest"), Held("booking", "host")}, base), T, args)
    BY <2>1, <2>2, <2>3, <2>5, OneSeated
  <2> QED BY <2>4, <2>6
<1>30. ASSUME T["userProfile"] = Profiled(GuestOf(stay)),
              T["signer"] = GuestOf(stay)
       PROVE  Q(DisputesC!Default("userProfile", DisputesC!UserProfileOf("signer")))
  <2>1. At(T, args, "userProfile", ProfileOf("signer"))
    BY <1>30, ProfileWhere
  <2>2. DisputesC!Default("userProfile", DisputesC!UserProfileOf("signer"))
          = [account |-> "userProfile", from |-> ProfileOf("signer")]
    BY DEF DisputesC!Default, DisputesC!UserProfileOf, DisputesC!Derivation, DisputesC!Lit,
      DisputesC!Key, ProfileOf, Derivation, Lit, Key
  <2>3. /\ "userProfile" \notin Bottom
        /\ Reads(ProfileOf("signer")) \subseteq Bottom \cup Middle \cup {"booking"}
        /\ "userProfile" = "booking" => Reads(ProfileOf("signer")) \subseteq Bottom \cup Middle
        /\ "userProfile" \in Middle => Reads(ProfileOf("signer")) \subseteq Bottom
    BY ReadsOf DEF Bottom, Middle
  <2> QED BY <2>1, <2>2, <2>3, SureDefault
<1>31. P(DisputesA!MutSigns("payer", {}))
  <2>1. Seated(MutSigns("payer", {}), T, args)
    BY FreeSeated
  <2>2. DisputesA!MutSigns("payer", {}) = MutSigns("payer", {})
    BY DEF MutSigns, DisputesA!MutSigns, Rule, DisputesA!Rule, AnyType, DisputesA!AnyType
  <2> QED BY <2>1, <2>2
<1>32. P(DisputesA!Signs("initiator", {}))
  <2>1. Seated(Signs("initiator", {}), T, args)
    BY FreeSeated
  <2>2. DisputesA!Signs("initiator", {}) = Signs("initiator", {})
    BY DEF Signs, DisputesA!Signs, Rule, DisputesA!Rule, AnyType, DisputesA!AnyType
  <2> QED BY <2>1, <2>2
<1>33. ASSUME T["initiatorProfile"] = Profiled(GuestOf(stay)),
              T["initiator"] = GuestOf(stay),
              T["booking"] = StayBooking(stay)
       PROVE  P(DisputesA!OneOf({DisputesA!Held("booking", "guest"),
                DisputesA!Held("booking", "host")},
                        DisputesA!Ro("initiatorProfile", DisputesA!UserProfile,
                                {DisputesA!ProfileOf("initiator")})))
  <2>1. /\ At(T, args, "initiatorProfile", ProfileOf("initiator"))
        /\ At(T, args, "initiatorProfile", Held("booking", "guest"))
        /\ Type(T["initiatorProfile"]) \in UserProfile
    BY <1>33, ProfileWhere, StayWhere, PlaceKinds
  <2> DEFINE base == Ro("initiatorProfile", UserProfile, {ProfileOf("initiator")})
  <2>2. Seated(base, T, args)
    BY <2>1, KnownSeated
  <2>3. /\ base.name = "initiatorProfile"
        /\ base = [name |-> base.name, type |-> base.type, signer |-> base.signer,
                   mut |-> base.mut, life |-> base.life, at |-> base.at, oneOf |-> base.oneOf]
    BY DEF Ro, Rule
  <2>4. DisputesA!OneOf({DisputesA!Held("booking", "guest"), DisputesA!Held("booking", "host")},
          DisputesA!Ro("initiatorProfile", DisputesA!UserProfile,
                  {DisputesA!ProfileOf("initiator")}))
                          = OneOf({Held("booking", "guest"), Held("booking", "host")}, base)
    BY DEF OneOf, DisputesA!OneOf, Held, DisputesA!Held, Derivation, DisputesA!Derivation,
      Field, DisputesA!Field, Ro, DisputesA!Ro, Rule, DisputesA!Rule, UserProfile,
      DisputesA!UserProfile, ProfileOf, DisputesA!ProfileOf, Lit, DisputesA!Lit, Key,
      DisputesA!Key
  <2> HIDE DEF base
  <2>5. Held("booking", "guest") \in {Held("booking", "guest"), Held("booking", "host")}
    OBVIOUS
  <2>6. Seated(OneOf({Held("booking", "guest"), Held("booking", "host")}, base), T, args)
    BY <2>1, <2>2, <2>3, <2>5, OneSeated
  <2> QED BY <2>4, <2>6
<1>34. ASSUME T["dispute"] = Disputed(StayBooking(stay)),
              T["booking"] = StayBooking(stay)
       PROVE  P(DisputesA!New("dispute", DisputesA!DisputeAccount,
                {DisputesA!DisputeOf("booking")}))
  <2>1. At(T, args, "dispute", DisputeOf("booking"))
    BY <1>34, OtherWhere
  <2>2. Seated(New("dispute", DisputeAccount, {DisputeOf("booking")}), T, args)
    BY <2>1, NewSeated
  <2>3. DisputesA!New("dispute", DisputesA!DisputeAccount, {DisputesA!DisputeOf("booking")})
          = New("dispute", DisputeAccount, {DisputeOf("booking")})
    BY DEF New, DisputesA!New, Rule, DisputesA!Rule, DisputeAccount,
      DisputesA!DisputeAccount, DisputeOf, DisputesA!DisputeOf, Derivation,
      DisputesA!Derivation, Lit, DisputesA!Lit, Key, DisputesA!Key
  <2> QED BY <2>2, <2>3
<1>35. ASSUME T["initiatorProfile"] = Profiled(GuestOf(stay)),
              T["initiator"] = GuestOf(stay)
       PROVE  Q(DisputesC!Default("initiatorProfile", DisputesC!UserProfileOf("initiator")))
  <2>1. At(T, args, "initiatorProfile", ProfileOf("initiator"))
    BY <1>35, ProfileWhere
  <2>2. DisputesC!Default("initiatorProfile", DisputesC!UserProfileOf("initiator"))
          = [account |-> "initiatorProfile", from |-> ProfileOf("initiator")]
    BY DEF DisputesC!Default, DisputesC!UserProfileOf, DisputesC!Derivation, DisputesC!Lit,
      DisputesC!Key, ProfileOf, Derivation, Lit, Key
  <2>3. /\ "initiatorProfile" \notin Bottom
        /\ Reads(ProfileOf("initiator")) \subseteq Bottom \cup Middle \cup {"booking"}
        /\ "initiatorProfile"
             = "booking" => Reads(ProfileOf("initiator")) \subseteq Bottom \cup Middle
        /\ "initiatorProfile" \in Middle => Reads(ProfileOf("initiator")) \subseteq Bottom
    BY ReadsOf DEF Bottom, Middle
  <2> QED BY <2>1, <2>2, <2>3, SureDefault
<1>36. ASSUME T["initiatorProfile"] = Profiled(HostOf(stay)),
              T["initiator"] = HostOf(stay),
              T["booking"] = StayBooking(stay)
       PROVE  P(DisputesA!OneOf({DisputesA!Held("booking", "guest"),
                DisputesA!Held("booking", "host")},
                        DisputesA!Ro("initiatorProfile", DisputesA!UserProfile,
                                {DisputesA!ProfileOf("initiator")})))
  <2>1. /\ At(T, args, "initiatorProfile", ProfileOf("initiator"))
        /\ At(T, args, "initiatorProfile", Held("booking", "host"))
        /\ Type(T["initiatorProfile"]) \in UserProfile
    BY <1>36, ProfileWhere, StayWhere, PlaceKinds
  <2> DEFINE base == Ro("initiatorProfile", UserProfile, {ProfileOf("initiator")})
  <2>2. Seated(base, T, args)
    BY <2>1, KnownSeated
  <2>3. /\ base.name = "initiatorProfile"
        /\ base = [name |-> base.name, type |-> base.type, signer |-> base.signer,
                   mut |-> base.mut, life |-> base.life, at |-> base.at, oneOf |-> base.oneOf]
    BY DEF Ro, Rule
  <2>4. DisputesA!OneOf({DisputesA!Held("booking", "guest"), DisputesA!Held("booking", "host")},
          DisputesA!Ro("initiatorProfile", DisputesA!UserProfile,
                  {DisputesA!ProfileOf("initiator")}))
                          = OneOf({Held("booking", "guest"), Held("booking", "host")}, base)
    BY DEF OneOf, DisputesA!OneOf, Held, DisputesA!Held, Derivation, DisputesA!Derivation,
      Field, DisputesA!Field, Ro, DisputesA!Ro, Rule, DisputesA!Rule, UserProfile,
      DisputesA!UserProfile, ProfileOf, DisputesA!ProfileOf, Lit, DisputesA!Lit, Key,
      DisputesA!Key
  <2> HIDE DEF base
  <2>5. Held("booking", "host") \in {Held("booking", "guest"), Held("booking", "host")}
    OBVIOUS
  <2>6. Seated(OneOf({Held("booking", "guest"), Held("booking", "host")}, base), T, args)
    BY <2>1, <2>2, <2>3, <2>5, OneSeated
  <2> QED BY <2>4, <2>6
<1>37. ASSUME T["initiatorProfile"] = Profiled(HostOf(stay)),
              T["initiator"] = HostOf(stay)
       PROVE  Q(DisputesC!Default("initiatorProfile", DisputesC!UserProfileOf("initiator")))
  <2>1. At(T, args, "initiatorProfile", ProfileOf("initiator"))
    BY <1>37, ProfileWhere
  <2>2. DisputesC!Default("initiatorProfile", DisputesC!UserProfileOf("initiator"))
          = [account |-> "initiatorProfile", from |-> ProfileOf("initiator")]
    BY DEF DisputesC!Default, DisputesC!UserProfileOf, DisputesC!Derivation, DisputesC!Lit,
      DisputesC!Key, ProfileOf, Derivation, Lit, Key
  <2>3. /\ "initiatorProfile" \notin Bottom
        /\ Reads(ProfileOf("initiator")) \subseteq Bottom \cup Middle \cup {"booking"}
        /\ "initiatorProfile"
             = "booking" => Reads(ProfileOf("initiator")) \subseteq Bottom \cup Middle
        /\ "initiatorProfile" \in Middle => Reads(ProfileOf("initiator")) \subseteq Bottom
    BY ReadsOf DEF Bottom, Middle
  <2> QED BY <2>1, <2>2, <2>3, SureDefault
<1>38. P(DisputesA!MutSigns("admin", {}))
  <2>1. Seated(MutSigns("admin", {}), T, args)
    BY FreeSeated
  <2>2. DisputesA!MutSigns("admin", {}) = MutSigns("admin", {})
    BY DEF MutSigns, DisputesA!MutSigns, Rule, DisputesA!Rule, AnyType, DisputesA!AnyType
  <2> QED BY <2>1, <2>2
<1>39. ASSUME T["config"] = Address("disputes", <<Lit("dispute_config")>>)
       PROVE  P(DisputesA!DisputeConfigRule("config"))
  <2>1. /\ At(T, args, "config", DisputeConfigPda)
        /\ Type(T["config"]) \in DisputeConfig
    BY <1>39, OtherWhere, PlaceKinds DEF DisputeConfigPda
  <2>2. Seated(Ro("config", DisputeConfig, {DisputeConfigPda}), T, args)
    BY <2>1, KnownSeated
  <2>3. DisputesA!DisputeConfigRule("config") = Ro("config", DisputeConfig, {DisputeConfigPda})
    BY DEF DisputesA!DisputeConfigRule, Ro, DisputesA!Ro, Rule, DisputesA!Rule,
      DisputeConfig, DisputesA!DisputeConfig, DisputeConfigPda, DisputesA!DisputeConfigPda,
      Derivation, DisputesA!Derivation, Lit, DisputesA!Lit
  <2> QED BY <2>2, <2>3
<1>40. ASSUME T["dispute"] = Disputed(StayBooking(stay)),
              T["booking"] = StayBooking(stay)
       PROVE  P(DisputesA!Mut("dispute", DisputesA!DisputeAccount,
                {DisputesA!DisputeOf("booking")}))
  <2>1. /\ At(T, args, "dispute", DisputeOf("booking"))
        /\ Type(T["dispute"]) \in DisputeAccount
    BY <1>40, OtherWhere, PlaceKinds
  <2>2. Seated(Mut("dispute", DisputeAccount, {DisputeOf("booking")}), T, args)
    BY <2>1, KnownSeated
  <2>3. DisputesA!Mut("dispute", DisputesA!DisputeAccount, {DisputesA!DisputeOf("booking")})
          = Mut("dispute", DisputeAccount, {DisputeOf("booking")})
    BY DEF Mut, DisputesA!Mut, Rule, DisputesA!Rule, DisputeAccount,
      DisputesA!DisputeAccount, DisputeOf, DisputesA!DisputeOf, Derivation,
      DisputesA!Derivation, Lit, DisputesA!Lit, Key, DisputesA!Key
  <2> QED BY <2>2, <2>3
<1>41. ASSUME T["guiltyReputation"] = Reputed(GuestOf(stay)),
              T["guestProfile"] = Profiled(GuestOf(stay))
       PROVE  P(DisputesA!OneOf({DisputesA!ReputationBy("guestProfile"),
                DisputesA!ReputationBy("hostProfile")},
                        DisputesA!Mut("guiltyReputation", DisputesA!ReputationProfile,
                                {DisputesA!ReputationBy("guiltyReputation")})))
  <2>1. /\ At(T, args, "guiltyReputation", ReputationBy("guiltyReputation"))
        /\ At(T, args, "guiltyReputation", ReputationBy("guestProfile"))
        /\ Type(T["guiltyReputation"]) \in ReputationProfile
    BY <1>41, ProfileWhere, OwnerWhere, PlaceKinds
  <2> DEFINE base == Mut("guiltyReputation", ReputationProfile, {ReputationBy("guiltyReputation")})
  <2>2. Seated(base, T, args)
    BY <2>1, KnownSeated
  <2>3. /\ base.name = "guiltyReputation"
        /\ base = [name |-> base.name, type |-> base.type, signer |-> base.signer,
                   mut |-> base.mut, life |-> base.life, at |-> base.at, oneOf |-> base.oneOf]
    BY DEF Mut, Rule
  <2>4. DisputesA!OneOf({DisputesA!ReputationBy("guestProfile"),
          DisputesA!ReputationBy("hostProfile")},
                  DisputesA!Mut("guiltyReputation", DisputesA!ReputationProfile,
                          {DisputesA!ReputationBy("guiltyReputation")}))
                                  = OneOf({ReputationBy("guestProfile"),
                                          ReputationBy("hostProfile")}, base)
    BY DEF OneOf, DisputesA!OneOf, ReputationBy, DisputesA!ReputationBy, Derivation,
      DisputesA!Derivation, Lit, DisputesA!Lit, Field, DisputesA!Field, Mut, DisputesA!Mut,
      Rule, DisputesA!Rule, ReputationProfile, DisputesA!ReputationProfile
  <2> HIDE DEF base
  <2>5. ReputationBy("guestProfile") \in {ReputationBy("guestProfile"), ReputationBy("hostProfile")}
    OBVIOUS
  <2>6. Seated(OneOf({ReputationBy("guestProfile"), ReputationBy("hostProfile")}, base), T, args)
    BY <2>1, <2>2, <2>3, <2>5, OneSeated
  <2> QED BY <2>4, <2>6
<1>42. ASSUME T["escrowTokenAccount"] = MoneyOf(StayBooking(stay)),
              T["booking"] = StayBooking(stay)
       PROVE  P(DisputesA!Closed("escrowTokenAccount", DisputesA!TokenAccount,
                {DisputesA!EscrowTokensOf("booking")}))
  <2>1. /\ At(T, args, "escrowTokenAccount", EscrowTokensOf("booking"))
        /\ Type(T["escrowTokenAccount"]) \in TokenAccount
    BY <1>42, OtherWhere, PlaceKinds
  <2>2. Seated(Closed("escrowTokenAccount", TokenAccount, {EscrowTokensOf("booking")}), T, args)
    BY <2>1, KnownSeated
  <2>3. DisputesA!Closed("escrowTokenAccount", DisputesA!TokenAccount,
          {DisputesA!EscrowTokensOf("booking")})
                  = Closed("escrowTokenAccount", TokenAccount, {EscrowTokensOf("booking")})
    BY DEF Closed, DisputesA!Closed, Rule, DisputesA!Rule, TokenAccount,
      DisputesA!TokenAccount, EscrowTokensOf, DisputesA!EscrowTokensOf, Derivation,
      DisputesA!Derivation, Lit, DisputesA!Lit, Key, DisputesA!Key
  <2> QED BY <2>2, <2>3
\* What the verdict without a fault demands of two of its accounts.
<1>67. ASSUME T["guiltyReputation"] = Reputed(GuestOf(stay)),
              T["guestProfile"] = Profiled(GuestOf(stay))
       PROVE  P(DisputesA!GuiltyReputation)
  <2>1. /\ At(T, args, "guiltyReputation", ReputationBy("guiltyReputation"))
        /\ Type(T["guiltyReputation"]) \in ReputationProfile
    BY <1>67, ProfileWhere, OwnerWhere, PlaceKinds
  <2>2. Seated(Mut("guiltyReputation", ReputationProfile, {ReputationBy("guiltyReputation")}), T,
               args)
    BY <2>1, KnownSeated
  <2>3. DisputesA!GuiltyReputation
          = Mut("guiltyReputation", ReputationProfile, {ReputationBy("guiltyReputation")})
    BY DEF DisputesA!GuiltyReputation, ReputationBy, DisputesA!ReputationBy, Derivation,
      DisputesA!Derivation, Lit, DisputesA!Lit, Field, DisputesA!Field, Mut, DisputesA!Mut,
      Rule, DisputesA!Rule, ReputationProfile, DisputesA!ReputationProfile
  <2> QED BY <2>2, <2>3
<1>68. ASSUME T["escrowTokenAccount"] = MoneyOf(StayBooking(stay))
       PROVE  P(DisputesA!Mut("escrowTokenAccount", DisputesA!TokenAccount, {}))
  <2>1. Type(T["escrowTokenAccount"]) \in TokenAccount
    BY <1>68, PlaceKinds
  <2>2. Seated(Mut("escrowTokenAccount", TokenAccount, {}), T, args)
    BY <2>1, KnownSeated
  <2>3. DisputesA!Mut("escrowTokenAccount", DisputesA!TokenAccount, {})
          = Mut("escrowTokenAccount", TokenAccount, {})
    BY DEF Mut, DisputesA!Mut, Rule, DisputesA!Rule, TokenAccount, DisputesA!TokenAccount
  <2> QED BY <2>2, <2>3
<1>43. ASSUME T["hostTokenAccount"] = TokensOf(HostOf(stay)),
              T["hostProfile"] = Profiled(HostOf(stay))
       PROVE  P(DisputesA!Mut("hostTokenAccount", DisputesA!TokenAccount,
                {DisputesA!TokensBy("hostProfile")}))
  <2>1. /\ At(T, args, "hostTokenAccount", TokensBy("hostProfile"))
        /\ Type(T["hostTokenAccount"]) \in TokenAccount
    BY <1>43, OwnerWhere, PlaceKinds
  <2>2. Seated(Mut("hostTokenAccount", TokenAccount, {TokensBy("hostProfile")}), T, args)
    BY <2>1, KnownSeated
  <2>3. DisputesA!Mut("hostTokenAccount", DisputesA!TokenAccount,
          {DisputesA!TokensBy("hostProfile")})
                  = Mut("hostTokenAccount", TokenAccount, {TokensBy("hostProfile")})
    BY DEF Mut, DisputesA!Mut, Rule, DisputesA!Rule, TokenAccount, DisputesA!TokenAccount,
      TokensBy, DisputesA!TokensBy, Derivation, DisputesA!Derivation, Field, DisputesA!Field
  <2> QED BY <2>2, <2>3
<1>44. ASSUME T["guestTokenAccount"] = TokensOf(GuestOf(stay)),
              T["guestProfile"] = Profiled(GuestOf(stay))
       PROVE  P(DisputesA!Mut("guestTokenAccount", DisputesA!TokenAccount,
                {DisputesA!TokensBy("guestProfile")}))
  <2>1. /\ At(T, args, "guestTokenAccount", TokensBy("guestProfile"))
        /\ Type(T["guestTokenAccount"]) \in TokenAccount
    BY <1>44, OwnerWhere, PlaceKinds
  <2>2. Seated(Mut("guestTokenAccount", TokenAccount, {TokensBy("guestProfile")}), T, args)
    BY <2>1, KnownSeated
  <2>3. DisputesA!Mut("guestTokenAccount", DisputesA!TokenAccount,
          {DisputesA!TokensBy("guestProfile")})
                  = Mut("guestTokenAccount", TokenAccount, {TokensBy("guestProfile")})
    BY DEF Mut, DisputesA!Mut, Rule, DisputesA!Rule, TokenAccount, DisputesA!TokenAccount,
      TokensBy, DisputesA!TokensBy, Derivation, DisputesA!Derivation, Field, DisputesA!Field
  <2> QED BY <2>2, <2>3
<1>45. ASSUME T["platformVaultTokenAccount"] = PlatformVault
       PROVE  P(DisputesA!VaultRule("platformVaultTokenAccount"))
  <2>1. /\ At(T, args, "platformVaultTokenAccount", Held("globalConfig", "platformVault"))
        /\ Type(T["platformVaultTokenAccount"]) \in TokenAccount
    BY <1>45, OtherWhere, PlaceKinds
  <2>2. Seated(Mut("platformVaultTokenAccount", TokenAccount,
          {Held("globalConfig", "platformVault")}), T, args)
    BY <2>1, KnownSeated
  <2>3. DisputesA!VaultRule("platformVaultTokenAccount")
          = Mut("platformVaultTokenAccount", TokenAccount, {Held("globalConfig", "platformVault")})
    BY DEF VaultRule, DisputesA!VaultRule, Mut, DisputesA!Mut, Rule, DisputesA!Rule,
      TokenAccount, DisputesA!TokenAccount, Held, DisputesA!Held, Derivation,
      DisputesA!Derivation, Field, DisputesA!Field
  <2> QED BY <2>2, <2>3
<1>46. ASSUME T["usdcMint"] = Mint
       PROVE  P(DisputesA!MutMintRule("usdcMint"))
  <2>1. /\ At(T, args, "usdcMint", Held("globalConfig", "usdcMint"))
        /\ Type(T["usdcMint"]) \in MintType
    BY <1>46, OtherWhere, PlaceKinds
  <2>2. Seated(Mut("usdcMint", MintType, {Held("globalConfig", "usdcMint")}), T, args)
    BY <2>1, KnownSeated
  <2>3. DisputesA!MutMintRule("usdcMint")
          = Mut("usdcMint", MintType, {Held("globalConfig", "usdcMint")})
    BY DEF MutMintRule, DisputesA!MutMintRule, Mut, DisputesA!Mut, Rule, DisputesA!Rule,
      MintType, DisputesA!MintType, Held, DisputesA!Held, Derivation, DisputesA!Derivation,
      Field, DisputesA!Field
  <2> QED BY <2>2, <2>3
<1>47. ASSUME T["treasuryVault"] = TreasuryVault
       PROVE  P(DisputesA!Mut("treasuryVault", DisputesA!TokenAccount,
                {DisputesA!Held("configTreasury", "treasuryVault")}))
  <2>1. /\ At(T, args, "treasuryVault", Held("configTreasury", "treasuryVault"))
        /\ Type(T["treasuryVault"]) \in TokenAccount
    BY <1>47, OtherWhere, PlaceKinds
  <2>2. Seated(Mut("treasuryVault", TokenAccount, {Held("configTreasury", "treasuryVault")}), T,
          args)
    BY <2>1, KnownSeated
  <2>3. DisputesA!Mut("treasuryVault", DisputesA!TokenAccount,
          {DisputesA!Held("configTreasury", "treasuryVault")})
                  = Mut("treasuryVault", TokenAccount, {Held("configTreasury", "treasuryVault")})
    BY DEF Mut, DisputesA!Mut, Rule, DisputesA!Rule, TokenAccount, DisputesA!TokenAccount,
      Held, DisputesA!Held, Derivation, DisputesA!Derivation, Field, DisputesA!Field
  <2> QED BY <2>2, <2>3
<1>48. ASSUME T["treasuryPda"] = Address("treasury", <<Lit("treasury")>>)
       PROVE  P(DisputesA!Unchecked("treasuryPda", {DisputesA!TreasuryPda}))
  <2>1. At(T, args, "treasuryPda", TreasuryPda)
    BY <1>48, OtherWhere DEF TreasuryPda
  <2>2. Seated(Unchecked("treasuryPda", {TreasuryPda}), T, args)
    BY <2>1, FreeSeated
  <2>3. DisputesA!Unchecked("treasuryPda", {DisputesA!TreasuryPda})
          = Unchecked("treasuryPda", {TreasuryPda})
    BY DEF Unchecked, DisputesA!Unchecked, Rule, DisputesA!Rule, AnyType, DisputesA!AnyType,
      TreasuryPda, DisputesA!TreasuryPda, Derivation, DisputesA!Derivation, Lit,
      DisputesA!Lit
  <2> QED BY <2>2, <2>3
<1>49. ASSUME T["configTreasury"] = Address("treasury", <<Lit("treasury_config")>>)
       PROVE  P(DisputesA!Ro("configTreasury", DisputesA!TreasuryConfigAcc,
                {DisputesA!TreasuryConfigPda}))
  <2>1. /\ At(T, args, "configTreasury", TreasuryConfigPda)
        /\ Type(T["configTreasury"]) \in TreasuryConfigAcc
    BY <1>49, OtherWhere, PlaceKinds DEF TreasuryConfigPda
  <2>2. Seated(Ro("configTreasury", TreasuryConfigAcc, {TreasuryConfigPda}), T, args)
    BY <2>1, KnownSeated
  <2>3. DisputesA!Ro("configTreasury", DisputesA!TreasuryConfigAcc, {DisputesA!TreasuryConfigPda})
          = Ro("configTreasury", TreasuryConfigAcc, {TreasuryConfigPda})
    BY DEF Ro, DisputesA!Ro, Rule, DisputesA!Rule, TreasuryConfigAcc,
      DisputesA!TreasuryConfigAcc, TreasuryConfigPda, DisputesA!TreasuryConfigPda,
      Derivation, DisputesA!Derivation, Lit, DisputesA!Lit
  <2> QED BY <2>2, <2>3
<1>50. ASSUME T["staykeTreasuryProgram"] = Deployed("treasury")
       PROVE  P(DisputesA!ProgramRule("staykeTreasuryProgram", "treasury"))
  <2>1. At(T, args, "staykeTreasuryProgram", Fixed("treasury"))
    BY <1>50, OtherWhere
  <2>2. Seated(Unchecked("staykeTreasuryProgram", {Fixed("treasury")}), T, args)
    BY <2>1, FreeSeated
  <2>3. DisputesA!ProgramRule("staykeTreasuryProgram", "treasury")
          = Unchecked("staykeTreasuryProgram", {Fixed("treasury")})
    BY DEF ProgramRule, DisputesA!ProgramRule, Unchecked, DisputesA!Unchecked, Rule,
      DisputesA!Rule, AnyType, DisputesA!AnyType, Fixed, DisputesA!Fixed, Derivation,
      DisputesA!Derivation
  <2> QED BY <2>2, <2>3
<1>51. ASSUME T["tokenProgram"] = Deployed("token")
       PROVE  P(DisputesA!TokenRule)
  <2>1. At(T, args, "tokenProgram", Fixed("token"))
    BY <1>51, OtherWhere
  <2>2. Seated(Unchecked("tokenProgram", {Fixed("token")}), T, args)
    BY <2>1, FreeSeated
  <2>3. DisputesA!TokenRule = Unchecked("tokenProgram", {Fixed("token")})
    BY DEF TokenRule, DisputesA!TokenRule, ProgramRule, DisputesA!ProgramRule, Unchecked,
      DisputesA!Unchecked, Rule, DisputesA!Rule, AnyType, DisputesA!AnyType, Fixed,
      DisputesA!Fixed, Derivation, DisputesA!Derivation
  <2> QED BY <2>2, <2>3
<1>52. ASSUME T["treasuryPda"] = Address("treasury", <<Lit("treasury")>>)
       PROVE  Q(DisputesC!Default("treasuryPda", DisputesC!TreasuryAuthority))
  <2>1. At(T, args, "treasuryPda", TreasuryPda)
    BY <1>52, OtherWhere DEF TreasuryPda
  <2>2. DisputesC!Default("treasuryPda", DisputesC!TreasuryAuthority)
          = [account |-> "treasuryPda", from |-> TreasuryPda]
    BY DEF DisputesC!Default, DisputesC!TreasuryAuthority, DisputesC!Derivation,
      DisputesC!Lit, TreasuryPda, Derivation, Lit
  <2>3. /\ "treasuryPda" \notin Bottom
        /\ Reads(TreasuryPda) \subseteq Bottom \cup Middle \cup {"booking"}
        /\ "treasuryPda" = "booking" => Reads(TreasuryPda) \subseteq Bottom \cup Middle
        /\ "treasuryPda" \in Middle => Reads(TreasuryPda) \subseteq Bottom
    BY ReadsOf DEF Bottom, Middle, TreasuryPda
  <2> QED BY <2>1, <2>2, <2>3, SureDefault
<1>53. ASSUME T["configTreasury"] = Address("treasury", <<Lit("treasury_config")>>)
       PROVE  Q(DisputesC!Default("configTreasury", DisputesC!TreasuryConfig))
  <2>1. At(T, args, "configTreasury", TreasuryConfigPda)
    BY <1>53, OtherWhere DEF TreasuryConfigPda
  <2>2. DisputesC!Default("configTreasury", DisputesC!TreasuryConfig)
          = [account |-> "configTreasury", from |-> TreasuryConfigPda]
    BY DEF DisputesC!Default, DisputesC!TreasuryConfig, DisputesC!Derivation, DisputesC!Lit,
      TreasuryConfigPda, Derivation, Lit
  <2>3. /\ "configTreasury" \notin Bottom
        /\ Reads(TreasuryConfigPda) \subseteq Bottom \cup Middle \cup {"booking"}
        /\ "configTreasury" = "booking" => Reads(TreasuryConfigPda) \subseteq Bottom \cup Middle
        /\ "configTreasury" \in Middle => Reads(TreasuryConfigPda) \subseteq Bottom
    BY ReadsOf DEF Bottom, Middle, TreasuryConfigPda
  <2> QED BY <2>1, <2>2, <2>3, SureDefault
<1>54. ASSUME T["staykeTreasuryProgram"] = Deployed("treasury")
       PROVE  Q(DisputesC!Default("staykeTreasuryProgram", DisputesC!Fixed("treasury")))
  <2>1. At(T, args, "staykeTreasuryProgram", Fixed("treasury"))
    BY <1>54, OtherWhere
  <2>2. DisputesC!Default("staykeTreasuryProgram", DisputesC!Fixed("treasury"))
          = [account |-> "staykeTreasuryProgram", from |-> Fixed("treasury")]
    BY DEF DisputesC!Default, DisputesC!Derivation, DisputesC!Fixed, Fixed, Derivation
  <2>3. /\ "staykeTreasuryProgram" \notin Bottom
        /\ Reads(Fixed("treasury")) \subseteq Bottom \cup Middle \cup {"booking"}
        /\ "staykeTreasuryProgram"
             = "booking" => Reads(Fixed("treasury")) \subseteq Bottom \cup Middle
        /\ "staykeTreasuryProgram" \in Middle => Reads(Fixed("treasury")) \subseteq Bottom
    BY ReadsOf DEF Bottom, Middle
  <2> QED BY <2>1, <2>2, <2>3, SureDefault
<1>55. ASSUME T["tokenProgram"] = Deployed("token")
       PROVE  Q(DisputesC!Default("tokenProgram", DisputesC!Fixed("token")))
  <2>1. At(T, args, "tokenProgram", Fixed("token"))
    BY <1>55, OtherWhere
  <2>2. DisputesC!Default("tokenProgram", DisputesC!Fixed("token"))
          = [account |-> "tokenProgram", from |-> Fixed("token")]
    BY DEF DisputesC!Default, DisputesC!Derivation, DisputesC!Fixed, Fixed, Derivation
  <2>3. /\ "tokenProgram" \notin Bottom
        /\ Reads(Fixed("token")) \subseteq Bottom \cup Middle \cup {"booking"}
        /\ "tokenProgram" = "booking" => Reads(Fixed("token")) \subseteq Bottom \cup Middle
        /\ "tokenProgram" \in Middle => Reads(Fixed("token")) \subseteq Bottom
    BY ReadsOf DEF Bottom, Middle
  <2> QED BY <2>1, <2>2, <2>3, SureDefault
<1>56. P(DisputesA!MutSigns("initiator", {}))
  <2>1. Seated(MutSigns("initiator", {}), T, args)
    BY FreeSeated
  <2>2. DisputesA!MutSigns("initiator", {}) = MutSigns("initiator", {})
    BY DEF MutSigns, DisputesA!MutSigns, Rule, DisputesA!Rule, AnyType, DisputesA!AnyType
  <2> QED BY <2>1, <2>2
<1> HIDE DEF P, Q
<1>57. Apt("addAdmin", DisputesC!AddAdmin, DisputesC!AddAdminParse, DisputesA!AddAdmin)
  <2> DEFINE N == DisputesC!AddAdminParse
         M == Means("disputes", "addAdmin", stay, as)
         L == DisputesA!AddAdmin
         D == DisputesC!AddAdmin.defaults
  <2>1. /\ 1 \in DOMAIN N /\ N[1] = "admin"
        /\ 2 \in DOMAIN N /\ N[2] = "disputeConfig"
    BY DEF DisputesC!AddAdminParse
  <2>2. \A i \in DOMAIN N : N[i] \in PlacedNames \cup {"payer"}
    BY SMTT(60) DEF DisputesC!AddAdminParse, PlacedNames, OwnPlaces, SharedNames
  <2> HIDE DEF N
  <2>3. ASSUME as \in Roles("addAdmin"), Agree(T, N, M)
        PROVE  /\ \A i \in DOMAIN L : P(L[i])
               /\ \A i \in DOMAIN D : S("addAdmin", D[i])
    <3>0. MeantAt(M, "disputes", "addAdmin", stay, as)
      BY MeansPlaces
    <3> HIDE DEF M
    <3>1. as = "guest"
      BY <2>3 DEF Roles, PartyOps, HostOps
    <3>2. /\ T["admin"] = M["admin"]
          /\ T["disputeConfig"] = M["disputeConfig"]
      BY <2>1, <2>3 DEF Agree
    <3>4. /\ M["admin"] = Root
          /\ M["disputeConfig"] = Address("disputes", <<Lit("dispute_config")>>)
      BY <3>0 DEF MeantAt
    <3>5. /\ T["admin"] = Root
          /\ T["disputeConfig"] = Address("disputes", <<Lit("dispute_config")>>)
      BY <3>2, <3>4
    <3>6. /\ P(DisputesA!Signs("admin", {}))
          /\ P(DisputesA!Mut("disputeConfig", DisputesA!DisputeConfig,
               {DisputesA!DisputeConfigPda}))
      BY <3>5, <1>2, <1>3
    <3>7. \A i \in DOMAIN L : P(L[i])
      BY <3>6, SMTT(60) DEF DisputesA!AddAdmin
    <3>8. /\ Q(DisputesC!Default("disputeConfig", DisputesC!FindDisputeConfigPda))
      BY <3>5, <1>4
    <3>9. \A i \in DOMAIN D : S("addAdmin", D[i])
      BY <3>8, SMTT(60) DEF DisputesC!AddAdmin, DisputesC!Builder
    <3> QED BY <3>7, <3>9
  <2> QED BY <2>2, <2>3 DEF N, M, D
<1>58. Apt("closeDispute", DisputesC!CloseDispute, DisputesC!CloseDisputeParse,
        DisputesA!CloseDispute)
  <2> DEFINE N == DisputesC!CloseDisputeParse
         M == Means("disputes", "closeDispute", stay, as)
         L == DisputesA!CloseDispute
         D == DisputesC!CloseDispute.defaults
  <2>1. /\ 1 \in DOMAIN N /\ N[1] = "dispute"
        /\ 2 \in DOMAIN N /\ N[2] = "booking"
        /\ 3 \in DOMAIN N /\ N[3] = "guestProfile"
        /\ 4 \in DOMAIN N /\ N[4] = "hostProfile"
        /\ 5 \in DOMAIN N /\ N[5] = "openerWallet"
        /\ 6 \in DOMAIN N /\ N[6] = "globalConfig"
        /\ 7 \in DOMAIN N /\ N[7] = "cpiAuthority"
        /\ 8 \in DOMAIN N /\ N[8] = "staykeCoreProgram"
        /\ 9 \in DOMAIN N /\ N[9] = "staykeEscrowProgram"
    BY DEF DisputesC!CloseDisputeParse
  <2>2. \A i \in DOMAIN N : N[i] \in PlacedNames \cup {"payer"}
    BY SMTT(60) DEF DisputesC!CloseDisputeParse, PlacedNames, OwnPlaces, SharedNames
  <2> HIDE DEF N
  <2>3. ASSUME as \in Roles("closeDispute"), Agree(T, N, M)
        PROVE  /\ \A i \in DOMAIN L : P(L[i])
               /\ \A i \in DOMAIN D : S("closeDispute", D[i])
    <3>0. MeantAt(M, "disputes", "closeDispute", stay, as)
      BY MeansPlaces
    <3> HIDE DEF M
    <3>1. as = "guest" \/ as = "host"
      BY <2>3 DEF Roles, PartyOps, HostOps
    <3>2. /\ T["dispute"] = M["dispute"]
          /\ T["booking"] = M["booking"]
          /\ T["guestProfile"] = M["guestProfile"]
          /\ T["hostProfile"] = M["hostProfile"]
          /\ T["openerWallet"] = M["openerWallet"]
          /\ T["globalConfig"] = M["globalConfig"]
          /\ T["cpiAuthority"] = M["cpiAuthority"]
          /\ T["staykeCoreProgram"] = M["staykeCoreProgram"]
          /\ T["staykeEscrowProgram"] = M["staykeEscrowProgram"]
      BY <2>1, <2>3 DEF Agree
    <3>4. CASE as = "guest"
      <4>1. ActorOf(stay, as) = GuestOf(stay)
        BY <3>4, <1>1
      <4>2. /\ M["dispute"] = Disputed(StayBooking(stay))
            /\ M["booking"] = StayBooking(stay)
            /\ M["guestProfile"] = Profiled(GuestOf(stay))
            /\ M["hostProfile"] = Profiled(HostOf(stay))
            /\ M["openerWallet"] = ActorOf(stay, as)
            /\ M["globalConfig"] = Address("config", <<Lit("global_config")>>)
            /\ M["cpiAuthority"] = Address("disputes", <<Lit("cpi_authority")>>)
            /\ M["staykeCoreProgram"] = Deployed("core")
            /\ M["staykeEscrowProgram"] = Deployed("escrow")
        BY <3>0 DEF MeantAt
      <4>3. /\ T["dispute"] = Disputed(StayBooking(stay))
            /\ T["booking"] = StayBooking(stay)
            /\ T["guestProfile"] = Profiled(GuestOf(stay))
            /\ T["hostProfile"] = Profiled(HostOf(stay))
            /\ T["openerWallet"] = GuestOf(stay)
            /\ T["globalConfig"] = Address("config", <<Lit("global_config")>>)
            /\ T["cpiAuthority"] = Address("disputes", <<Lit("cpi_authority")>>)
            /\ T["staykeCoreProgram"] = Deployed("core")
            /\ T["staykeEscrowProgram"] = Deployed("escrow")
        BY <3>2, <4>1, <4>2
      <4>4. /\ P(DisputesA!Closed("dispute", DisputesA!DisputeAccount,
                 {DisputesA!DisputeOf("booking")}))
            /\ P(DisputesA!BookingRule)
            /\ P(DisputesA!PartyRule("guestProfile", "guest"))
            /\ P(DisputesA!PartyRule("hostProfile", "host"))
            /\ P(DisputesA!OneOf({DisputesA!Held("guestProfile", "authority"),
                 DisputesA!Held("hostProfile", "authority")},
                         DisputesA!Mut("openerWallet", DisputesA!SignerType, {})))
            /\ P(DisputesA!GlobalConfigRule)
            /\ P(DisputesA!AuthorityRule)
            /\ P(DisputesA!CoreProgramRule)
            /\ P(DisputesA!EscrowProgramRule)
        BY <4>3, <1>5, <1>6, <1>7, <1>8, <1>9, <1>10, <1>11, <1>12, <1>13
      <4>5. \A i \in DOMAIN L : P(L[i])
        BY <4>4, SMTT(60) DEF DisputesA!CloseDispute
      <4>6. /\ Q(DisputesC!Default("dispute", DisputesC!FindDisputePda("booking")))
            /\ Q(DisputesC!Default("globalConfig", DisputesC!GlobalConfig))
            /\ Q(DisputesC!Default("cpiAuthority", DisputesC!FindCpiAuthorityPda))
            /\ Q(DisputesC!Default("staykeCoreProgram", DisputesC!Fixed("core")))
            /\ Q(DisputesC!Default("staykeEscrowProgram", DisputesC!Fixed("escrow")))
        BY <4>3, <1>14, <1>15, <1>16, <1>17, <1>18
      <4>7. \A i \in DOMAIN D : S("closeDispute", D[i])
        BY <4>6, SMTT(60) DEF DisputesC!CloseDispute, DisputesC!Builder
      <4> QED BY <4>5, <4>7
    <3>5. CASE as = "host"
      <4>1. ActorOf(stay, as) = HostOf(stay)
        BY <3>5, <1>1
      <4>2. /\ M["dispute"] = Disputed(StayBooking(stay))
            /\ M["booking"] = StayBooking(stay)
            /\ M["guestProfile"] = Profiled(GuestOf(stay))
            /\ M["hostProfile"] = Profiled(HostOf(stay))
            /\ M["openerWallet"] = ActorOf(stay, as)
            /\ M["globalConfig"] = Address("config", <<Lit("global_config")>>)
            /\ M["cpiAuthority"] = Address("disputes", <<Lit("cpi_authority")>>)
            /\ M["staykeCoreProgram"] = Deployed("core")
            /\ M["staykeEscrowProgram"] = Deployed("escrow")
        BY <3>0 DEF MeantAt
      <4>3. /\ T["dispute"] = Disputed(StayBooking(stay))
            /\ T["booking"] = StayBooking(stay)
            /\ T["guestProfile"] = Profiled(GuestOf(stay))
            /\ T["hostProfile"] = Profiled(HostOf(stay))
            /\ T["openerWallet"] = HostOf(stay)
            /\ T["globalConfig"] = Address("config", <<Lit("global_config")>>)
            /\ T["cpiAuthority"] = Address("disputes", <<Lit("cpi_authority")>>)
            /\ T["staykeCoreProgram"] = Deployed("core")
            /\ T["staykeEscrowProgram"] = Deployed("escrow")
        BY <3>2, <4>1, <4>2
      <4>4. /\ P(DisputesA!Closed("dispute", DisputesA!DisputeAccount,
                 {DisputesA!DisputeOf("booking")}))
            /\ P(DisputesA!BookingRule)
            /\ P(DisputesA!PartyRule("guestProfile", "guest"))
            /\ P(DisputesA!PartyRule("hostProfile", "host"))
            /\ P(DisputesA!OneOf({DisputesA!Held("guestProfile", "authority"),
                 DisputesA!Held("hostProfile", "authority")},
                         DisputesA!Mut("openerWallet", DisputesA!SignerType, {})))
            /\ P(DisputesA!GlobalConfigRule)
            /\ P(DisputesA!AuthorityRule)
            /\ P(DisputesA!CoreProgramRule)
            /\ P(DisputesA!EscrowProgramRule)
        BY <4>3, <1>5, <1>6, <1>7, <1>8, <1>19, <1>10, <1>11, <1>12, <1>13
      <4>5. \A i \in DOMAIN L : P(L[i])
        BY <4>4, SMTT(60) DEF DisputesA!CloseDispute
      <4>6. /\ Q(DisputesC!Default("dispute", DisputesC!FindDisputePda("booking")))
            /\ Q(DisputesC!Default("globalConfig", DisputesC!GlobalConfig))
            /\ Q(DisputesC!Default("cpiAuthority", DisputesC!FindCpiAuthorityPda))
            /\ Q(DisputesC!Default("staykeCoreProgram", DisputesC!Fixed("core")))
            /\ Q(DisputesC!Default("staykeEscrowProgram", DisputesC!Fixed("escrow")))
        BY <4>3, <1>14, <1>15, <1>16, <1>17, <1>18
      <4>7. \A i \in DOMAIN D : S("closeDispute", D[i])
        BY <4>6, SMTT(60) DEF DisputesC!CloseDispute, DisputesC!Builder
      <4> QED BY <4>5, <4>7
    <3> QED BY <3>1, <3>4, <3>5
  <2> QED BY <2>2, <2>3 DEF N, M, D
<1>59. Apt("deleteAdmin", DisputesC!DeleteAdmin, DisputesC!DeleteAdminParse, DisputesA!DeleteAdmin)
  <2> DEFINE N == DisputesC!DeleteAdminParse
         M == Means("disputes", "deleteAdmin", stay, as)
         L == DisputesA!DeleteAdmin
         D == DisputesC!DeleteAdmin.defaults
  <2>1. /\ 1 \in DOMAIN N /\ N[1] = "admin"
        /\ 2 \in DOMAIN N /\ N[2] = "disputeConfig"
    BY DEF DisputesC!DeleteAdminParse
  <2>2. \A i \in DOMAIN N : N[i] \in PlacedNames \cup {"payer"}
    BY SMTT(60) DEF DisputesC!DeleteAdminParse, PlacedNames, OwnPlaces, SharedNames
  <2> HIDE DEF N
  <2>3. ASSUME as \in Roles("deleteAdmin"), Agree(T, N, M)
        PROVE  /\ \A i \in DOMAIN L : P(L[i])
               /\ \A i \in DOMAIN D : S("deleteAdmin", D[i])
    <3>0. MeantAt(M, "disputes", "deleteAdmin", stay, as)
      BY MeansPlaces
    <3> HIDE DEF M
    <3>1. as = "guest"
      BY <2>3 DEF Roles, PartyOps, HostOps
    <3>2. /\ T["admin"] = M["admin"]
          /\ T["disputeConfig"] = M["disputeConfig"]
      BY <2>1, <2>3 DEF Agree
    <3>4. /\ M["admin"] = Root
          /\ M["disputeConfig"] = Address("disputes", <<Lit("dispute_config")>>)
      BY <3>0 DEF MeantAt
    <3>5. /\ T["admin"] = Root
          /\ T["disputeConfig"] = Address("disputes", <<Lit("dispute_config")>>)
      BY <3>2, <3>4
    <3>6. /\ P(DisputesA!Signs("admin", {}))
          /\ P(DisputesA!Mut("disputeConfig", DisputesA!DisputeConfig,
               {DisputesA!DisputeConfigPda}))
      BY <3>5, <1>2, <1>3
    <3>7. \A i \in DOMAIN L : P(L[i])
      BY <3>6, SMTT(60) DEF DisputesA!DeleteAdmin
    <3>8. /\ Q(DisputesC!Default("disputeConfig", DisputesC!FindDisputeConfigPda))
      BY <3>5, <1>4
    <3>9. \A i \in DOMAIN D : S("deleteAdmin", D[i])
      BY <3>8, SMTT(60) DEF DisputesC!DeleteAdmin, DisputesC!Builder
    <3> QED BY <3>7, <3>9
  <2> QED BY <2>2, <2>3 DEF N, M, D
<1>60. Apt("escalateDispute", DisputesC!EscalateDispute, DisputesC!EscalateDisputeParse,
        DisputesA!EscalateDispute)
  <2> DEFINE N == DisputesC!EscalateDisputeParse
         M == Means("disputes", "escalateDispute", stay, as)
         L == DisputesA!EscalateDispute
         D == DisputesC!EscalateDispute.defaults
  <2>1. /\ 1 \in DOMAIN N /\ N[1] = "dispute"
    BY DEF DisputesC!EscalateDisputeParse
  <2>2. \A i \in DOMAIN N : N[i] \in PlacedNames \cup {"payer"}
    BY SMTT(60) DEF DisputesC!EscalateDisputeParse, PlacedNames, OwnPlaces, SharedNames
  <2> HIDE DEF N
  <2>3. ASSUME as \in Roles("escalateDispute"), Agree(T, N, M)
        PROVE  /\ \A i \in DOMAIN L : P(L[i])
               /\ \A i \in DOMAIN D : S("escalateDispute", D[i])
    <3>0. MeantAt(M, "disputes", "escalateDispute", stay, as)
      BY MeansPlaces
    <3> HIDE DEF M
    <3>1. as = "guest"
      BY <2>3 DEF Roles, PartyOps, HostOps
    <3>2. /\ T["dispute"] = M["dispute"]
      BY <2>1, <2>3 DEF Agree
    <3>4. /\ M["dispute"] = Disputed(StayBooking(stay))
      BY <3>0 DEF MeantAt
    <3>5. /\ T["dispute"] = Disputed(StayBooking(stay))
      BY <3>2, <3>4
    <3>6. /\ P(DisputesA!Mut("dispute", DisputesA!DisputeAccount, {DisputesA!DisputeBy("dispute")}))
      BY <3>5, <1>20
    <3>7. \A i \in DOMAIN L : P(L[i])
      BY <3>6, SMTT(60) DEF DisputesA!EscalateDispute
    <3>8. \A i \in DOMAIN D : S("escalateDispute", D[i])
      BY SMTT(60) DEF DisputesC!EscalateDispute, DisputesC!Builder
    <3> QED BY <3>7, <3>8
  <2> QED BY <2>2, <2>3 DEF N, M, D
<1>61. Apt("initializeConfig", DisputesC!InitializeConfig, DisputesC!InitializeConfigParse,
        DisputesA!InitializeConfig)
  <2> DEFINE N == DisputesC!InitializeConfigParse
         M == Means("disputes", "initializeConfig", stay, as)
         L == DisputesA!InitializeConfig
         D == DisputesC!InitializeConfig.defaults
  <2>1. /\ 1 \in DOMAIN N /\ N[1] = "authority"
        /\ 2 \in DOMAIN N /\ N[2] = "config"
        /\ 3 \in DOMAIN N /\ N[3] = "systemProgram"
    BY DEF DisputesC!InitializeConfigParse
  <2>2. \A i \in DOMAIN N : N[i] \in PlacedNames \cup {"payer"}
    BY SMTT(60) DEF DisputesC!InitializeConfigParse, PlacedNames, OwnPlaces, SharedNames
  <2> HIDE DEF N
  <2>3. ASSUME as \in Roles("initializeConfig"), Agree(T, N, M)
        PROVE  /\ \A i \in DOMAIN L : P(L[i])
               /\ \A i \in DOMAIN D : S("initializeConfig", D[i])
    <3>0. MeantAt(M, "disputes", "initializeConfig", stay, as)
      BY MeansPlaces
    <3> HIDE DEF M
    <3>1. as = "guest"
      BY <2>3 DEF Roles, PartyOps, HostOps
    <3>2. /\ T["authority"] = M["authority"]
          /\ T["config"] = M["config"]
          /\ T["systemProgram"] = M["systemProgram"]
      BY <2>1, <2>3 DEF Agree
    <3>3. ConfigOf("disputes")
            = Address("disputes", <<Lit("dispute_config")>>) /\ "initializeConfig" \in RootOps
      BY DEF ConfigOf, RootOps
    <3>4. M["authority"] = Root
      BY <3>3, <3>0 DEF MeantAt
    <3>5. /\ M["config"] = Address("disputes", <<Lit("dispute_config")>>)
          /\ M["systemProgram"] = Deployed("system")
      BY <3>3, <3>0 DEF MeantAt
    <3>6. /\ T["authority"] = Root
          /\ T["config"] = Address("disputes", <<Lit("dispute_config")>>)
          /\ T["systemProgram"] = Deployed("system")
      BY <3>2, <3>4, <3>5
    <3>7. /\ P(DisputesA!MutSigns("authority", {}))
          /\ P(DisputesA!New("config", DisputesA!DisputeConfig, {DisputesA!DisputeConfigPda}))
          /\ P(DisputesA!SystemRule)
      BY <3>6, <1>21, <1>22, <1>23
    <3>8. \A i \in DOMAIN L : P(L[i])
      BY <3>7, SMTT(60) DEF DisputesA!InitializeConfig
    <3>9. /\ Q(DisputesC!Default("config", DisputesC!FindDisputeConfigPda))
          /\ Q(DisputesC!Default("systemProgram", DisputesC!Fixed("system")))
      BY <3>6, <1>24, <1>25
    <3>10. \A i \in DOMAIN D : S("initializeConfig", D[i])
      BY <3>9, SMTT(60) DEF DisputesC!InitializeConfig, DisputesC!Builder
    <3> QED BY <3>8, <3>10
  <2> QED BY <2>2, <2>3 DEF N, M, D
<1>62. Apt("linkEvidente", DisputesC!LinkEvidente, DisputesC!LinkEvidenteParse,
        DisputesA!LinkEvidence)
  <2> DEFINE N == DisputesC!LinkEvidenteParse
         M == Means("disputes", "linkEvidente", stay, as)
         L == DisputesA!LinkEvidence
         D == DisputesC!LinkEvidente.defaults
  <2>1. /\ 1 \in DOMAIN N /\ N[1] = "signer"
        /\ 2 \in DOMAIN N /\ N[2] = "dispute"
        /\ 3 \in DOMAIN N /\ N[3] = "booking"
        /\ 4 \in DOMAIN N /\ N[4] = "userProfile"
    BY DEF DisputesC!LinkEvidenteParse
  <2>2. \A i \in DOMAIN N : N[i] \in PlacedNames \cup {"payer"}
    BY SMTT(60) DEF DisputesC!LinkEvidenteParse, PlacedNames, OwnPlaces, SharedNames
  <2> HIDE DEF N
  <2>3. ASSUME as \in Roles("linkEvidente"), Agree(T, N, M)
        PROVE  /\ \A i \in DOMAIN L : P(L[i])
               /\ \A i \in DOMAIN D : S("linkEvidente", D[i])
    <3>0. MeantAt(M, "disputes", "linkEvidente", stay, as)
      BY MeansPlaces
    <3> HIDE DEF M
    <3>1. as = "guest"
      BY <2>3 DEF Roles, PartyOps, HostOps
    <3>2. /\ T["signer"] = M["signer"]
          /\ T["dispute"] = M["dispute"]
          /\ T["booking"] = M["booking"]
          /\ T["userProfile"] = M["userProfile"]
      BY <2>1, <2>3 DEF Agree
    <3>4. ActorOf(stay, as) = GuestOf(stay)
      BY <3>1, <1>1
    <3>5. /\ M["signer"] = ActorOf(stay, as)
          /\ M["dispute"] = Disputed(StayBooking(stay))
          /\ M["booking"] = StayBooking(stay)
          /\ M["userProfile"] = Profiled(ActorOf(stay, as))
      BY <3>0 DEF MeantAt
    <3>6. /\ T["signer"] = GuestOf(stay)
          /\ T["dispute"] = Disputed(StayBooking(stay))
          /\ T["booking"] = StayBooking(stay)
          /\ T["userProfile"] = Profiled(GuestOf(stay))
      BY <3>2, <3>4, <3>5
    <3>7. /\ P(DisputesA!Signs("signer", {}))
          /\ P(DisputesA!Ro("dispute", DisputesA!DisputeAccount, {DisputesA!DisputeOf("booking")}))
          /\ P(DisputesA!Ro("booking", DisputesA!Booking, {DisputesA!BookingBy("booking")}))
          /\ P(DisputesA!OneOf({DisputesA!Held("booking", "guest"),
               DisputesA!Held("booking", "host")},
                       DisputesA!Ro("userProfile", DisputesA!UserProfile,
                               {DisputesA!ProfileOf("signer")})))
      BY <3>6, <1>26, <1>27, <1>28, <1>29
    <3>8. \A i \in DOMAIN L : P(L[i])
      BY <3>7, SMTT(60) DEF DisputesA!LinkEvidence
    <3>9. /\ Q(DisputesC!Default("dispute", DisputesC!FindDisputePda("booking")))
          /\ Q(DisputesC!Default("userProfile", DisputesC!UserProfileOf("signer")))
      BY <3>6, <1>14, <1>30
    <3>10. \A i \in DOMAIN D : S("linkEvidente", D[i])
      BY <3>9, SMTT(60) DEF DisputesC!LinkEvidente, DisputesC!Builder
    <3> QED BY <3>8, <3>10
  <2> QED BY <2>2, <2>3 DEF N, M, D
<1>63. Apt("openDispute", DisputesC!OpenDispute, DisputesC!OpenDisputeParse, DisputesA!OpenDispute)
  <2> DEFINE N == DisputesC!OpenDisputeParse
         M == Means("disputes", "openDispute", stay, as)
         L == DisputesA!OpenDispute
         D == DisputesC!OpenDispute.defaults
  <2>1. /\ 2 \in DOMAIN N /\ N[2] = "initiator"
        /\ 3 \in DOMAIN N /\ N[3] = "initiatorProfile"
        /\ 4 \in DOMAIN N /\ N[4] = "booking"
        /\ 5 \in DOMAIN N /\ N[5] = "dispute"
        /\ 6 \in DOMAIN N /\ N[6] = "cpiAuthority"
        /\ 7 \in DOMAIN N /\ N[7] = "globalConfig"
        /\ 8 \in DOMAIN N /\ N[8] = "staykeEscrowProgram"
        /\ 9 \in DOMAIN N /\ N[9] = "systemProgram"
    BY DEF DisputesC!OpenDisputeParse
  <2>2. \A i \in DOMAIN N : N[i] \in PlacedNames \cup {"payer"}
    BY SMTT(60) DEF DisputesC!OpenDisputeParse, PlacedNames, OwnPlaces, SharedNames
  <2> HIDE DEF N
  <2>3. ASSUME as \in Roles("openDispute"), Agree(T, N, M)
        PROVE  /\ \A i \in DOMAIN L : P(L[i])
               /\ \A i \in DOMAIN D : S("openDispute", D[i])
    <3>0. MeantAt(M, "disputes", "openDispute", stay, as)
      BY MeansPlaces
    <3> HIDE DEF M
    <3>1. as = "guest" \/ as = "host"
      BY <2>3 DEF Roles, PartyOps, HostOps
    <3>2. /\ T["initiator"] = M["initiator"]
          /\ T["initiatorProfile"] = M["initiatorProfile"]
          /\ T["booking"] = M["booking"]
          /\ T["dispute"] = M["dispute"]
          /\ T["cpiAuthority"] = M["cpiAuthority"]
          /\ T["globalConfig"] = M["globalConfig"]
          /\ T["staykeEscrowProgram"] = M["staykeEscrowProgram"]
          /\ T["systemProgram"] = M["systemProgram"]
      BY <2>1, <2>3 DEF Agree
    <3>4. CASE as = "guest"
      <4>1. ActorOf(stay, as) = GuestOf(stay)
        BY <3>4, <1>1
      <4>2. /\ M["initiator"] = ActorOf(stay, as)
            /\ M["initiatorProfile"] = Profiled(ActorOf(stay, as))
            /\ M["booking"] = StayBooking(stay)
            /\ M["dispute"] = Disputed(StayBooking(stay))
            /\ M["cpiAuthority"] = Address("disputes", <<Lit("cpi_authority")>>)
            /\ M["globalConfig"] = Address("config", <<Lit("global_config")>>)
            /\ M["staykeEscrowProgram"] = Deployed("escrow")
            /\ M["systemProgram"] = Deployed("system")
        BY <3>0 DEF MeantAt
      <4>3. /\ T["initiator"] = GuestOf(stay)
            /\ T["initiatorProfile"] = Profiled(GuestOf(stay))
            /\ T["booking"] = StayBooking(stay)
            /\ T["dispute"] = Disputed(StayBooking(stay))
            /\ T["cpiAuthority"] = Address("disputes", <<Lit("cpi_authority")>>)
            /\ T["globalConfig"] = Address("config", <<Lit("global_config")>>)
            /\ T["staykeEscrowProgram"] = Deployed("escrow")
            /\ T["systemProgram"] = Deployed("system")
        BY <3>2, <4>1, <4>2
      <4>4. /\ P(DisputesA!MutSigns("payer", {}))
            /\ P(DisputesA!Signs("initiator", {}))
            /\ P(DisputesA!OneOf({DisputesA!Held("booking", "guest"),
                 DisputesA!Held("booking", "host")},
                         DisputesA!Ro("initiatorProfile", DisputesA!UserProfile,
                                 {DisputesA!ProfileOf("initiator")})))
            /\ P(DisputesA!BookingRule)
            /\ P(DisputesA!New("dispute", DisputesA!DisputeAccount,
                 {DisputesA!DisputeOf("booking")}))
            /\ P(DisputesA!AuthorityRule)
            /\ P(DisputesA!GlobalConfigRule)
            /\ P(DisputesA!EscrowProgramRule)
            /\ P(DisputesA!SystemRule)
        BY <4>3, <1>31, <1>32, <1>33, <1>6, <1>34, <1>11, <1>10, <1>13, <1>23
      <4>5. \A i \in DOMAIN L : P(L[i])
        BY <4>4, SMTT(60) DEF DisputesA!OpenDispute
      <4>6. /\ Q(DisputesC!Default("initiatorProfile", DisputesC!UserProfileOf("initiator")))
            /\ Q(DisputesC!Default("dispute", DisputesC!FindDisputePda("booking")))
            /\ Q(DisputesC!Default("cpiAuthority", DisputesC!FindCpiAuthorityPda))
            /\ Q(DisputesC!Default("globalConfig", DisputesC!GlobalConfig))
            /\ Q(DisputesC!Default("staykeEscrowProgram", DisputesC!Fixed("escrow")))
            /\ Q(DisputesC!Default("systemProgram", DisputesC!Fixed("system")))
        BY <4>3, <1>35, <1>14, <1>16, <1>15, <1>18, <1>25
      <4>7. \A i \in DOMAIN D : S("openDispute", D[i])
        BY <4>6, SMTT(60) DEF DisputesC!OpenDispute, DisputesC!Builder
      <4> QED BY <4>5, <4>7
    <3>5. CASE as = "host"
      <4>1. ActorOf(stay, as) = HostOf(stay)
        BY <3>5, <1>1
      <4>2. /\ M["initiator"] = ActorOf(stay, as)
            /\ M["initiatorProfile"] = Profiled(ActorOf(stay, as))
            /\ M["booking"] = StayBooking(stay)
            /\ M["dispute"] = Disputed(StayBooking(stay))
            /\ M["cpiAuthority"] = Address("disputes", <<Lit("cpi_authority")>>)
            /\ M["globalConfig"] = Address("config", <<Lit("global_config")>>)
            /\ M["staykeEscrowProgram"] = Deployed("escrow")
            /\ M["systemProgram"] = Deployed("system")
        BY <3>0 DEF MeantAt
      <4>3. /\ T["initiator"] = HostOf(stay)
            /\ T["initiatorProfile"] = Profiled(HostOf(stay))
            /\ T["booking"] = StayBooking(stay)
            /\ T["dispute"] = Disputed(StayBooking(stay))
            /\ T["cpiAuthority"] = Address("disputes", <<Lit("cpi_authority")>>)
            /\ T["globalConfig"] = Address("config", <<Lit("global_config")>>)
            /\ T["staykeEscrowProgram"] = Deployed("escrow")
            /\ T["systemProgram"] = Deployed("system")
        BY <3>2, <4>1, <4>2
      <4>4. /\ P(DisputesA!MutSigns("payer", {}))
            /\ P(DisputesA!Signs("initiator", {}))
            /\ P(DisputesA!OneOf({DisputesA!Held("booking", "guest"),
                 DisputesA!Held("booking", "host")},
                         DisputesA!Ro("initiatorProfile", DisputesA!UserProfile,
                                 {DisputesA!ProfileOf("initiator")})))
            /\ P(DisputesA!BookingRule)
            /\ P(DisputesA!New("dispute", DisputesA!DisputeAccount,
                 {DisputesA!DisputeOf("booking")}))
            /\ P(DisputesA!AuthorityRule)
            /\ P(DisputesA!GlobalConfigRule)
            /\ P(DisputesA!EscrowProgramRule)
            /\ P(DisputesA!SystemRule)
        BY <4>3, <1>31, <1>32, <1>36, <1>6, <1>34, <1>11, <1>10, <1>13, <1>23
      <4>5. \A i \in DOMAIN L : P(L[i])
        BY <4>4, SMTT(60) DEF DisputesA!OpenDispute
      <4>6. /\ Q(DisputesC!Default("initiatorProfile", DisputesC!UserProfileOf("initiator")))
            /\ Q(DisputesC!Default("dispute", DisputesC!FindDisputePda("booking")))
            /\ Q(DisputesC!Default("cpiAuthority", DisputesC!FindCpiAuthorityPda))
            /\ Q(DisputesC!Default("globalConfig", DisputesC!GlobalConfig))
            /\ Q(DisputesC!Default("staykeEscrowProgram", DisputesC!Fixed("escrow")))
            /\ Q(DisputesC!Default("systemProgram", DisputesC!Fixed("system")))
        BY <4>3, <1>37, <1>14, <1>16, <1>15, <1>18, <1>25
      <4>7. \A i \in DOMAIN D : S("openDispute", D[i])
        BY <4>6, SMTT(60) DEF DisputesC!OpenDispute, DisputesC!Builder
      <4> QED BY <4>5, <4>7
    <3> QED BY <3>1, <3>4, <3>5
  <2> QED BY <2>2, <2>3 DEF N, M, D
<1>64. \A rules \in {DisputesA!ResolveDispute, DisputesA!ResolveWithoutFault} :
         Apt("resolveDispute", DisputesC!ResolveDispute, DisputesC!ResolveDisputeParse, rules)
  <2> DEFINE N == DisputesC!ResolveDisputeParse
         M == Means("disputes", "resolveDispute", stay, as)
         L == DisputesA!ResolveDispute
         F == DisputesA!ResolveWithoutFault
         D == DisputesC!ResolveDispute.defaults
  <2>1. /\ 1 \in DOMAIN N /\ N[1] = "admin"
        /\ 2 \in DOMAIN N /\ N[2] = "config"
        /\ 3 \in DOMAIN N /\ N[3] = "dispute"
        /\ 4 \in DOMAIN N /\ N[4] = "booking"
        /\ 5 \in DOMAIN N /\ N[5] = "hostProfile"
        /\ 6 \in DOMAIN N /\ N[6] = "guestProfile"
        /\ 7 \in DOMAIN N /\ N[7] = "guiltyReputation"
        /\ 8 \in DOMAIN N /\ N[8] = "globalConfig"
        /\ 9 \in DOMAIN N /\ N[9] = "cpiAuthority"
        /\ 10 \in DOMAIN N /\ N[10] = "escrowTokenAccount"
        /\ 11 \in DOMAIN N /\ N[11] = "hostTokenAccount"
        /\ 12 \in DOMAIN N /\ N[12] = "guestTokenAccount"
        /\ 13 \in DOMAIN N /\ N[13] = "platformVaultTokenAccount"
        /\ 14 \in DOMAIN N /\ N[14] = "usdcMint"
        /\ 15 \in DOMAIN N /\ N[15] = "treasuryVault"
        /\ 16 \in DOMAIN N /\ N[16] = "treasuryPda"
        /\ 17 \in DOMAIN N /\ N[17] = "configTreasury"
        /\ 18 \in DOMAIN N /\ N[18] = "staykeCoreProgram"
        /\ 19 \in DOMAIN N /\ N[19] = "staykeTreasuryProgram"
        /\ 20 \in DOMAIN N /\ N[20] = "staykeEscrowProgram"
        /\ 21 \in DOMAIN N /\ N[21] = "tokenProgram"
    BY DEF DisputesC!ResolveDisputeParse
  <2>2. \A i \in DOMAIN N : N[i] \in PlacedNames \cup {"payer"}
    BY SMTT(60) DEF DisputesC!ResolveDisputeParse, PlacedNames, OwnPlaces, SharedNames
  <2> HIDE DEF N
  <2>3. ASSUME as \in Roles("resolveDispute"), Agree(T, N, M)
        PROVE  /\ \A i \in DOMAIN L : P(L[i])
               /\ \A i \in DOMAIN F : P(F[i])
               /\ \A i \in DOMAIN D : S("resolveDispute", D[i])
    <3>0. MeantAt(M, "disputes", "resolveDispute", stay, as)
      BY MeansPlaces
    <3> HIDE DEF M
    <3>1. as = "guest"
      BY <2>3 DEF Roles, PartyOps, HostOps
    <3>2. /\ T["admin"] = M["admin"]
          /\ T["config"] = M["config"]
          /\ T["dispute"] = M["dispute"]
          /\ T["booking"] = M["booking"]
          /\ T["hostProfile"] = M["hostProfile"]
          /\ T["guestProfile"] = M["guestProfile"]
          /\ T["guiltyReputation"] = M["guiltyReputation"]
          /\ T["globalConfig"] = M["globalConfig"]
          /\ T["cpiAuthority"] = M["cpiAuthority"]
          /\ T["escrowTokenAccount"] = M["escrowTokenAccount"]
          /\ T["hostTokenAccount"] = M["hostTokenAccount"]
          /\ T["guestTokenAccount"] = M["guestTokenAccount"]
          /\ T["platformVaultTokenAccount"] = M["platformVaultTokenAccount"]
          /\ T["usdcMint"] = M["usdcMint"]
          /\ T["treasuryVault"] = M["treasuryVault"]
          /\ T["treasuryPda"] = M["treasuryPda"]
          /\ T["configTreasury"] = M["configTreasury"]
          /\ T["staykeCoreProgram"] = M["staykeCoreProgram"]
          /\ T["staykeTreasuryProgram"] = M["staykeTreasuryProgram"]
          /\ T["staykeEscrowProgram"] = M["staykeEscrowProgram"]
          /\ T["tokenProgram"] = M["tokenProgram"]
      BY <2>1, <2>3 DEF Agree
    <3>3. ConfigOf("disputes") = Address("disputes", <<Lit("dispute_config")>>)
      BY DEF ConfigOf
    <3>4. ActorOf(stay, as) = GuestOf(stay)
      BY <3>1, <1>1
    <3>5. /\ M["admin"] = Root
          /\ M["config"] = Address("disputes", <<Lit("dispute_config")>>)
          /\ M["dispute"] = Disputed(StayBooking(stay))
          /\ M["booking"] = StayBooking(stay)
          /\ M["hostProfile"] = Profiled(HostOf(stay))
          /\ M["guestProfile"] = Profiled(GuestOf(stay))
          /\ M["guiltyReputation"] = Reputed(ActorOf(stay, as))
          /\ M["globalConfig"] = Address("config", <<Lit("global_config")>>)
          /\ M["cpiAuthority"] = Address("disputes", <<Lit("cpi_authority")>>)
          /\ M["escrowTokenAccount"] = MoneyOf(StayBooking(stay))
          /\ M["hostTokenAccount"] = TokensOf(HostOf(stay))
          /\ M["guestTokenAccount"] = TokensOf(GuestOf(stay))
          /\ M["platformVaultTokenAccount"] = PlatformVault
          /\ M["usdcMint"] = Mint
          /\ M["treasuryVault"] = TreasuryVault
          /\ M["treasuryPda"] = Address("treasury", <<Lit("treasury")>>)
          /\ M["configTreasury"] = Address("treasury", <<Lit("treasury_config")>>)
          /\ M["staykeCoreProgram"] = Deployed("core")
          /\ M["staykeTreasuryProgram"] = Deployed("treasury")
          /\ M["staykeEscrowProgram"] = Deployed("escrow")
          /\ M["tokenProgram"] = Deployed("token")
      BY <3>3, <3>0 DEF MeantAt
    <3>6. /\ T["admin"] = Root
          /\ T["config"] = Address("disputes", <<Lit("dispute_config")>>)
          /\ T["dispute"] = Disputed(StayBooking(stay))
          /\ T["booking"] = StayBooking(stay)
          /\ T["hostProfile"] = Profiled(HostOf(stay))
          /\ T["guestProfile"] = Profiled(GuestOf(stay))
          /\ T["guiltyReputation"] = Reputed(GuestOf(stay))
          /\ T["globalConfig"] = Address("config", <<Lit("global_config")>>)
          /\ T["cpiAuthority"] = Address("disputes", <<Lit("cpi_authority")>>)
          /\ T["escrowTokenAccount"] = MoneyOf(StayBooking(stay))
          /\ T["hostTokenAccount"] = TokensOf(HostOf(stay))
          /\ T["guestTokenAccount"] = TokensOf(GuestOf(stay))
          /\ T["platformVaultTokenAccount"] = PlatformVault
          /\ T["usdcMint"] = Mint
          /\ T["treasuryVault"] = TreasuryVault
          /\ T["treasuryPda"] = Address("treasury", <<Lit("treasury")>>)
          /\ T["configTreasury"] = Address("treasury", <<Lit("treasury_config")>>)
          /\ T["staykeCoreProgram"] = Deployed("core")
          /\ T["staykeTreasuryProgram"] = Deployed("treasury")
          /\ T["staykeEscrowProgram"] = Deployed("escrow")
          /\ T["tokenProgram"] = Deployed("token")
      BY <3>2, <3>4, <3>5
    <3>7. /\ P(DisputesA!MutSigns("admin", {}))
          /\ P(DisputesA!DisputeConfigRule("config"))
          /\ P(DisputesA!Mut("dispute", DisputesA!DisputeAccount, {DisputesA!DisputeOf("booking")}))
          /\ P(DisputesA!BookingRule)
          /\ P(DisputesA!PartyRule("hostProfile", "host"))
          /\ P(DisputesA!PartyRule("guestProfile", "guest"))
          /\ P(DisputesA!OneOf({DisputesA!ReputationBy("guestProfile"),
               DisputesA!ReputationBy("hostProfile")},
                       DisputesA!Mut("guiltyReputation", DisputesA!ReputationProfile,
                               {DisputesA!ReputationBy("guiltyReputation")})))
          /\ P(DisputesA!GlobalConfigRule)
          /\ P(DisputesA!AuthorityRule)
          /\ P(DisputesA!Closed("escrowTokenAccount", DisputesA!TokenAccount,
               {DisputesA!EscrowTokensOf("booking")}))
          /\ P(DisputesA!Mut("hostTokenAccount", DisputesA!TokenAccount,
               {DisputesA!TokensBy("hostProfile")}))
          /\ P(DisputesA!Mut("guestTokenAccount", DisputesA!TokenAccount,
               {DisputesA!TokensBy("guestProfile")}))
          /\ P(DisputesA!VaultRule("platformVaultTokenAccount"))
          /\ P(DisputesA!MutMintRule("usdcMint"))
          /\ P(DisputesA!Mut("treasuryVault", DisputesA!TokenAccount,
               {DisputesA!Held("configTreasury", "treasuryVault")}))
          /\ P(DisputesA!Unchecked("treasuryPda", {DisputesA!TreasuryPda}))
          /\ P(DisputesA!Ro("configTreasury", DisputesA!TreasuryConfigAcc,
               {DisputesA!TreasuryConfigPda}))
          /\ P(DisputesA!CoreProgramRule)
          /\ P(DisputesA!ProgramRule("staykeTreasuryProgram", "treasury"))
          /\ P(DisputesA!EscrowProgramRule)
          /\ P(DisputesA!TokenRule)
      BY <3>6, <1>38, <1>39, <1>40, <1>6, <1>8, <1>7, <1>41, <1>10, <1>11, <1>42, <1>43,
        <1>44, <1>45, <1>46, <1>47, <1>48, <1>49, <1>12, <1>50, <1>13, <1>51
    <3>8. \A i \in DOMAIN L : P(L[i])
      BY <3>7, SMTT(60) DEF DisputesA!ResolveDispute, DisputesA!ResolveDisputeWith,
        DisputesA!GuiltyReputation
    <3>11. /\ P(DisputesA!GuiltyReputation)
           /\ P(DisputesA!Mut("escrowTokenAccount", DisputesA!TokenAccount, {}))
      BY <3>6, <1>67, <1>68
    <3>12. \A i \in DOMAIN F : P(F[i])
      BY <3>7, <3>11, SMTT(60) DEF DisputesA!ResolveWithoutFault, DisputesA!ResolveDisputeWith
    <3>9. /\ Q(DisputesC!Default("config", DisputesC!FindDisputeConfigPda))
          /\ Q(DisputesC!Default("dispute", DisputesC!FindDisputePda("booking")))
          /\ Q(DisputesC!Default("globalConfig", DisputesC!GlobalConfig))
          /\ Q(DisputesC!Default("cpiAuthority", DisputesC!FindCpiAuthorityPda))
          /\ Q(DisputesC!Default("treasuryPda", DisputesC!TreasuryAuthority))
          /\ Q(DisputesC!Default("configTreasury", DisputesC!TreasuryConfig))
          /\ Q(DisputesC!Default("staykeCoreProgram", DisputesC!Fixed("core")))
          /\ Q(DisputesC!Default("staykeTreasuryProgram", DisputesC!Fixed("treasury")))
          /\ Q(DisputesC!Default("staykeEscrowProgram", DisputesC!Fixed("escrow")))
          /\ Q(DisputesC!Default("tokenProgram", DisputesC!Fixed("token")))
      BY <3>6, <1>24, <1>14, <1>15, <1>16, <1>52, <1>53, <1>17, <1>54, <1>18, <1>55
    <3>10. \A i \in DOMAIN D : S("resolveDispute", D[i])
      BY <3>9, SMTT(60) DEF DisputesC!ResolveDispute, DisputesC!Builder
    <3> QED BY <3>8, <3>10, <3>12
  <2> QED BY <2>2, <2>3 DEF N, M, D
<1>65. Apt("solveDisputeBeforeAdmin", DisputesC!SolveDisputeBeforeAdmin,
        DisputesC!SolveDisputeBeforeAdminParse, DisputesA!SolveDisputeBeforeAdmin)
  <2> DEFINE N == DisputesC!SolveDisputeBeforeAdminParse
         M == Means("disputes", "solveDisputeBeforeAdmin", stay, as)
         L == DisputesA!SolveDisputeBeforeAdmin
         D == DisputesC!SolveDisputeBeforeAdmin.defaults
  <2>1. /\ 1 \in DOMAIN N /\ N[1] = "initiator"
        /\ 2 \in DOMAIN N /\ N[2] = "initiatorProfile"
        /\ 3 \in DOMAIN N /\ N[3] = "dispute"
        /\ 4 \in DOMAIN N /\ N[4] = "booking"
        /\ 5 \in DOMAIN N /\ N[5] = "cpiAuthority"
        /\ 6 \in DOMAIN N /\ N[6] = "globalConfig"
        /\ 7 \in DOMAIN N /\ N[7] = "staykeEscrowProgram"
    BY DEF DisputesC!SolveDisputeBeforeAdminParse
  <2>2. \A i \in DOMAIN N : N[i] \in PlacedNames \cup {"payer"}
    BY SMTT(60) DEF DisputesC!SolveDisputeBeforeAdminParse, PlacedNames, OwnPlaces, SharedNames
  <2> HIDE DEF N
  <2>3. ASSUME as \in Roles("solveDisputeBeforeAdmin"), Agree(T, N, M)
        PROVE  /\ \A i \in DOMAIN L : P(L[i])
               /\ \A i \in DOMAIN D : S("solveDisputeBeforeAdmin", D[i])
    <3>0. MeantAt(M, "disputes", "solveDisputeBeforeAdmin", stay, as)
      BY MeansPlaces
    <3> HIDE DEF M
    <3>1. as = "guest" \/ as = "host"
      BY <2>3 DEF Roles, PartyOps, HostOps
    <3>2. /\ T["initiator"] = M["initiator"]
          /\ T["initiatorProfile"] = M["initiatorProfile"]
          /\ T["dispute"] = M["dispute"]
          /\ T["booking"] = M["booking"]
          /\ T["cpiAuthority"] = M["cpiAuthority"]
          /\ T["globalConfig"] = M["globalConfig"]
          /\ T["staykeEscrowProgram"] = M["staykeEscrowProgram"]
      BY <2>1, <2>3 DEF Agree
    <3>4. CASE as = "guest"
      <4>1. ActorOf(stay, as) = GuestOf(stay)
        BY <3>4, <1>1
      <4>2. /\ M["initiator"] = ActorOf(stay, as)
            /\ M["initiatorProfile"] = Profiled(ActorOf(stay, as))
            /\ M["dispute"] = Disputed(StayBooking(stay))
            /\ M["booking"] = StayBooking(stay)
            /\ M["cpiAuthority"] = Address("disputes", <<Lit("cpi_authority")>>)
            /\ M["globalConfig"] = Address("config", <<Lit("global_config")>>)
            /\ M["staykeEscrowProgram"] = Deployed("escrow")
        BY <3>0 DEF MeantAt
      <4>3. /\ T["initiator"] = GuestOf(stay)
            /\ T["initiatorProfile"] = Profiled(GuestOf(stay))
            /\ T["dispute"] = Disputed(StayBooking(stay))
            /\ T["booking"] = StayBooking(stay)
            /\ T["cpiAuthority"] = Address("disputes", <<Lit("cpi_authority")>>)
            /\ T["globalConfig"] = Address("config", <<Lit("global_config")>>)
            /\ T["staykeEscrowProgram"] = Deployed("escrow")
        BY <3>2, <4>1, <4>2
      <4>4. /\ P(DisputesA!MutSigns("initiator", {}))
            /\ P(DisputesA!OneOf({DisputesA!Held("booking", "guest"),
                 DisputesA!Held("booking", "host")},
                         DisputesA!Ro("initiatorProfile", DisputesA!UserProfile,
                                 {DisputesA!ProfileOf("initiator")})))
            /\ P(DisputesA!Mut("dispute", DisputesA!DisputeAccount,
                 {DisputesA!DisputeBy("dispute")}))
            /\ P(DisputesA!BookingRule)
            /\ P(DisputesA!AuthorityRule)
            /\ P(DisputesA!GlobalConfigRule)
            /\ P(DisputesA!EscrowProgramRule)
        BY <4>3, <1>56, <1>33, <1>20, <1>6, <1>11, <1>10, <1>13
      <4>5. \A i \in DOMAIN L : P(L[i])
        BY <4>4, SMTT(60) DEF DisputesA!SolveDisputeBeforeAdmin
      <4>6. /\ Q(DisputesC!Default("initiatorProfile", DisputesC!UserProfileOf("initiator")))
            /\ Q(DisputesC!Default("cpiAuthority", DisputesC!FindCpiAuthorityPda))
            /\ Q(DisputesC!Default("globalConfig", DisputesC!GlobalConfig))
            /\ Q(DisputesC!Default("staykeEscrowProgram", DisputesC!Fixed("escrow")))
        BY <4>3, <1>35, <1>16, <1>15, <1>18
      <4>7. \A i \in DOMAIN D : S("solveDisputeBeforeAdmin", D[i])
        BY <4>6, SMTT(60) DEF DisputesC!SolveDisputeBeforeAdmin, DisputesC!Builder
      <4> QED BY <4>5, <4>7
    <3>5. CASE as = "host"
      <4>1. ActorOf(stay, as) = HostOf(stay)
        BY <3>5, <1>1
      <4>2. /\ M["initiator"] = ActorOf(stay, as)
            /\ M["initiatorProfile"] = Profiled(ActorOf(stay, as))
            /\ M["dispute"] = Disputed(StayBooking(stay))
            /\ M["booking"] = StayBooking(stay)
            /\ M["cpiAuthority"] = Address("disputes", <<Lit("cpi_authority")>>)
            /\ M["globalConfig"] = Address("config", <<Lit("global_config")>>)
            /\ M["staykeEscrowProgram"] = Deployed("escrow")
        BY <3>0 DEF MeantAt
      <4>3. /\ T["initiator"] = HostOf(stay)
            /\ T["initiatorProfile"] = Profiled(HostOf(stay))
            /\ T["dispute"] = Disputed(StayBooking(stay))
            /\ T["booking"] = StayBooking(stay)
            /\ T["cpiAuthority"] = Address("disputes", <<Lit("cpi_authority")>>)
            /\ T["globalConfig"] = Address("config", <<Lit("global_config")>>)
            /\ T["staykeEscrowProgram"] = Deployed("escrow")
        BY <3>2, <4>1, <4>2
      <4>4. /\ P(DisputesA!MutSigns("initiator", {}))
            /\ P(DisputesA!OneOf({DisputesA!Held("booking", "guest"),
                 DisputesA!Held("booking", "host")},
                         DisputesA!Ro("initiatorProfile", DisputesA!UserProfile,
                                 {DisputesA!ProfileOf("initiator")})))
            /\ P(DisputesA!Mut("dispute", DisputesA!DisputeAccount,
                 {DisputesA!DisputeBy("dispute")}))
            /\ P(DisputesA!BookingRule)
            /\ P(DisputesA!AuthorityRule)
            /\ P(DisputesA!GlobalConfigRule)
            /\ P(DisputesA!EscrowProgramRule)
        BY <4>3, <1>56, <1>36, <1>20, <1>6, <1>11, <1>10, <1>13
      <4>5. \A i \in DOMAIN L : P(L[i])
        BY <4>4, SMTT(60) DEF DisputesA!SolveDisputeBeforeAdmin
      <4>6. /\ Q(DisputesC!Default("initiatorProfile", DisputesC!UserProfileOf("initiator")))
            /\ Q(DisputesC!Default("cpiAuthority", DisputesC!FindCpiAuthorityPda))
            /\ Q(DisputesC!Default("globalConfig", DisputesC!GlobalConfig))
            /\ Q(DisputesC!Default("staykeEscrowProgram", DisputesC!Fixed("escrow")))
        BY <4>3, <1>37, <1>16, <1>15, <1>18
      <4>7. \A i \in DOMAIN D : S("solveDisputeBeforeAdmin", D[i])
        BY <4>6, SMTT(60) DEF DisputesC!SolveDisputeBeforeAdmin, DisputesC!Builder
      <4> QED BY <4>5, <4>7
    <3> QED BY <3>1, <3>4, <3>5
  <2> QED BY <2>2, <2>3 DEF N, M, D
<1> HIDE DEF Apt
<1>66. \A op \in Ops("disputes") : \A rules \in DisputesTables(op) :
        Apt(op, DisputesC!Plugin[op], DisputesC!Parsers[op], rules)
  BY <1>57, <1>58, <1>59, <1>60, <1>61, <1>62, <1>63, <1>64, <1>65 DEF Ops, Demands,
    DisputesTables, DisputesA!Rules, DisputesC!Plugin, DisputesC!Parsers
<1> QED BY <1>66 DEF Apt, P, Q, S, Sound
=============================================================================
