-------------------------- MODULE ClientStayProofs --------------------------
(***************************************************************************)
(* An instruction that a program accepts is about one stay, for any stays, *)
(* callers and number of sessions.  The rules of the programs are sorted   *)
(* by what ties their account to the booking of the instruction: nothing,  *)
(* the profiles the booking names, the booking's own address, or the       *)
(* owner of one of those profiles.  Only a creation has no booking to      *)
(* start from: there the address of the new one tells.                     *)
(***************************************************************************)
EXTENDS ClientRuleProofs

-----------------------------------------------------------------------------
(***************************************************************************)
(* Whose stay an account is of, by the rule that demands it.               *)
(***************************************************************************)
StayTypes ==
  UserProfile \cup ReputationProfile \cup Listing \cup BookingDays \cup DisputeAccount
    \cup {<<"escrow", "escrow">>, <<"tokens", "">>}

\* Of no stay: a wallet, a program, an account of the platform or a booking.
Aloof(rule) ==
  \/ rule.signer
  \/ rule.life \in {"old", "closed"} /\ rule.type \cap StayTypes = {}
  \/ \E d \in rule.at :
       \/ d.program = "program"
       \/ d \in {CpiAuthority("escrow"), CpiAuthority("disputes"), TreasuryPda,
                 Held("globalConfig", "platformVault"), Held("treasuryConfig", "treasuryVault"),
                 Held("configTreasury", "treasuryVault")}

\* The booking's guest or host, or its money, dispute, days or listing.
OfParty(rule) ==
  /\ rule.life = "old" /\ rule.type = UserProfile
  /\ \/ \E role \in {"guest", "host"} : Held("booking", role) \in rule.at
     \/ rule.oneOf # {} /\ rule.oneOf \subseteq {Held("booking", "guest"), Held("booking", "host")}
OfBooking(rule) ==
  \/ \E d \in rule.at : d \in {EscrowTokensOf("booking"), DisputeOf("booking"),
                               DaysBy("booking"), NextDaysBy("booking")}
  \/ rule.life = "old" /\ rule.type = Listing /\ Held("booking", "property") \in rule.at

\* What belongs to the owner of one of the profiles.
Belongs(d, profiles) == \E p \in profiles : d \in {ReputationBy(p), TokensBy(p)}
OfOwner(rule, profiles) ==
  \/ \E d \in rule.at : Belongs(d, profiles)
  \/ rule.oneOf # {} /\ \A d \in rule.oneOf : Belongs(d, profiles)

Clear(rule) == Aloof(rule) \/ OfParty(rule) \/ OfBooking(rule)

Bound(op, rule, profiles) ==
  \/ Clear(rule)
  \/ OfOwner(rule, profiles)
  \/ <<op, rule.name>> \in LeftFree
  \/ rule.name = "treasuryPda" /\ op \in {"hostCancelBooking", "hostCancelBookingCrossYear"}

\* The booking itself, which is there.
IsStay(rule) ==
  rule.name = "booking" /\ rule.life \in {"old", "closed"} /\ rule.type = Booking

Joined(op, rules, profiles) ==
  /\ \E i \in DOMAIN rules : IsStay(rules[i])
  /\ \A p \in profiles : \E i \in DOMAIN rules : rules[i].name = p /\ OfParty(rules[i])
  /\ \A i \in DOMAIN rules : Bound(op, rules[i], profiles)

\* The types apart.
LEMMA TypesApart ==
  /\ <<"core", "user_profile">>[1] = "core" /\ <<"core", "user_profile">>[2] = "user_profile"
  /\ <<"core", "reputation_profile">>[1] = "core"
  /\ <<"core", "reputation_profile">>[2] = "reputation_profile"
  /\ <<"core", "listing">>[1] = "core" /\ <<"core", "listing">>[2] = "listing"
  /\ <<"escrow", "booking_days">>[1] = "escrow" /\ <<"escrow", "booking_days">>[2] = "booking_days"
  /\ <<"escrow", "escrow">>[1] = "escrow" /\ <<"escrow", "escrow">>[2] = "escrow"
  /\ <<"disputes", "dispute">>[1] = "disputes" /\ <<"disputes", "dispute">>[2] = "dispute"
  /\ <<"tokens", "">>[1] = "tokens" /\ <<"tokens", "">>[2] = ""
OBVIOUS

\* No type of a stay is of the configuration, the treasury or a wallet, nor a booking.
LEMMA TypesOfStays ==
  \A t \in StayTypes :
    /\ t[1] \in {"core", "escrow", "disputes", "tokens"}
    /\ t[2] \notin {"cpi_authority", "booking", "dispute_config"}
<1>1. StayTypes = {<<"core", "user_profile">>, <<"core", "reputation_profile">>,
                   <<"core", "listing">>, <<"escrow", "booking_days">>, <<"disputes", "dispute">>,
                   <<"escrow", "escrow">>, <<"tokens", "">>}
  BY DEF StayTypes, UserProfile, ReputationProfile, Listing, BookingDays, DisputeAccount
<1>2. \A t \in StayTypes :
        \/ t = <<"core", "user_profile">> \/ t = <<"core", "reputation_profile">>
        \/ t = <<"core", "listing">> \/ t = <<"escrow", "booking_days">>
        \/ t = <<"disputes", "dispute">> \/ t = <<"escrow", "escrow">> \/ t = <<"tokens", "">>
  BY <1>1, Zenon
<1> QED BY <1>2, TypesApart, Zenon

\* By the type of the account.
LEMMA StayByType ==
  ASSUME NEW b, NEW a
  PROVE  /\ Type(a) = <<"core", "user_profile">> => (OfStay(b, a) <=> a \in Parties(b))
         /\ Type(a) = <<"core", "reputation_profile">> =>
              (OfStay(b, a) <=> Seed(a, 2) \in Wallets(b))
         /\ Type(a) = <<"core", "listing">> => (OfStay(b, a) <=> a = Data(b, "property"))
         /\ Type(a) = <<"escrow", "booking_days">> =>
              (OfStay(b, a) <=> Seed(a, 2) = Data(b, "property"))
         /\ Type(a) = <<"escrow", "escrow">> => (OfStay(b, a) <=> Seed(a, 2) = b)
         /\ Type(a) = <<"disputes", "dispute">> => (OfStay(b, a) <=> Seed(a, 2) = b)
         /\ Type(a) = <<"tokens", "">> => (OfStay(b, a) <=> Seed(a, 1) \in Wallets(b))
<1> DEFINE t == Type(a)
<1>1. /\ <<"core", "user_profile">> # <<"core", "reputation_profile">>
      /\ <<"core", "user_profile">> # <<"core", "listing">>
      /\ <<"core", "user_profile">> # <<"escrow", "booking_days">>
      /\ <<"core", "user_profile">> # <<"escrow", "escrow">>
      /\ <<"core", "user_profile">> # <<"disputes", "dispute">>
      /\ <<"core", "user_profile">> # <<"tokens", "">>
      /\ <<"core", "reputation_profile">> # <<"core", "listing">>
      /\ <<"core", "reputation_profile">> # <<"escrow", "booking_days">>
      /\ <<"core", "reputation_profile">> # <<"escrow", "escrow">>
      /\ <<"core", "reputation_profile">> # <<"disputes", "dispute">>
      /\ <<"core", "reputation_profile">> # <<"tokens", "">>
      /\ <<"core", "listing">> # <<"escrow", "booking_days">>
      /\ <<"core", "listing">> # <<"escrow", "escrow">>
      /\ <<"core", "listing">> # <<"disputes", "dispute">>
      /\ <<"core", "listing">> # <<"tokens", "">>
      /\ <<"escrow", "booking_days">> # <<"escrow", "escrow">>
      /\ <<"escrow", "booking_days">> # <<"disputes", "dispute">>
      /\ <<"escrow", "booking_days">> # <<"tokens", "">>
      /\ <<"escrow", "escrow">> # <<"disputes", "dispute">>
      /\ <<"escrow", "escrow">> # <<"tokens", "">>
      /\ <<"disputes", "dispute">> # <<"tokens", "">>
  BY TypesApart, Zenon
<1>2. OfStay(b, a) =
        CASE t = <<"core", "user_profile">> -> a \in Parties(b)
          [] t = <<"core", "reputation_profile">> -> Seed(a, 2) \in Wallets(b)
          [] t = <<"core", "listing">> -> a = Data(b, "property")
          [] t = <<"escrow", "booking_days">> -> Seed(a, 2) = Data(b, "property")
          [] t = <<"escrow", "escrow">> -> Seed(a, 2) = b
          [] t = <<"disputes", "dispute">> -> Seed(a, 2) = b
          [] t = <<"tokens", "">> -> Seed(a, 1) \in Wallets(b)
          [] OTHER -> TRUE
  BY DEF OfStay, UserProfile, ReputationProfile, Listing, BookingDays, DisputeAccount
<1> HIDE DEF t
<1>3. ASSUME t = <<"core", "user_profile">>
      PROVE  OfStay(b, a) <=> a \in Parties(b)
  BY <1>1, <1>2, <1>3
<1>4. ASSUME t = <<"core", "reputation_profile">>
      PROVE  OfStay(b, a) <=> Seed(a, 2) \in Wallets(b)
  BY <1>1, <1>2, <1>4
<1>5. ASSUME t = <<"core", "listing">>
      PROVE  OfStay(b, a) <=> a = Data(b, "property")
  BY <1>1, <1>2, <1>5
<1>6. ASSUME t = <<"escrow", "booking_days">>
      PROVE  OfStay(b, a) <=> Seed(a, 2) = Data(b, "property")
  BY <1>1, <1>2, <1>6
<1>7. ASSUME t = <<"escrow", "escrow">>
      PROVE  OfStay(b, a) <=> Seed(a, 2) = b
  BY <1>1, <1>2, <1>7
<1>8. ASSUME t = <<"disputes", "dispute">>
      PROVE  OfStay(b, a) <=> Seed(a, 2) = b
  BY <1>1, <1>2, <1>8
<1>9. ASSUME t = <<"tokens", "">>
      PROVE  OfStay(b, a) <=> Seed(a, 1) \in Wallets(b)
  BY <1>1, <1>2, <1>9
<1> QED BY <1>3, <1>4, <1>5, <1>6, <1>7, <1>8, <1>9 DEF t

\* An account of any other type is of every stay.
LEMMA OtherStay == \A b, a : Type(a) \notin StayTypes => OfStay(b, a)
BY DEF OfStay, StayTypes

\* What passes such a rule is of every stay: its type, or its program, tells.
LEMMA AloofStay ==
  ASSUME NEW rule, NEW a, NEW b, NEW accounts, NEW args, NEW living, Aloof(rule),
         Lives(rule, a, living), rule.signer => a.program = "wallet",
         \A d \in rule.at : a = Derive(d, accounts, args)
  PROVE  OfStay(b, a)
<1>1. Type(a)[1] = a.program
  BY DEF Type
<1>2. a.program \notin {"core", "escrow", "disputes", "tokens"} => OfStay(b, a)
  BY <1>1, OtherStay, TypesOfStays
<1>3. CASE rule.signer
  BY <1>2, <1>3
<1>4. CASE rule.life \in {"old", "closed"} /\ rule.type \cap StayTypes = {}
  <2>1. Type(a) \in rule.type
    BY <1>4 DEF Lives
  <2> QED BY <1>4, <2>1, OtherStay
<1>5. CASE \E d \in rule.at : d.program = "program"
  <2>1. PICK d \in rule.at : d.program = "program"
    BY <1>5
  <2>2. a.program = "program"
    BY <2>1 DEF Derive, Address
  <2> QED BY <1>2, <2>2
<1>6. CASE \E p \in {"escrow", "disputes"} : CpiAuthority(p) \in rule.at
  <2>1. PICK p \in {"escrow", "disputes"} : CpiAuthority(p) \in rule.at
    BY <1>6
  <2> DEFINE d == CpiAuthority(p)
  <2>2. d.program = p /\ DOMAIN d.seeds = {1} /\ d.seeds[1] = Lit("cpi_authority")
    BY DEF CpiAuthority, Derivation
  <2>3. a = Derive(d, accounts, args)
    BY <2>1
  <2> HIDE DEF d
  <2>4. Type(a) = <<d.program, "cpi_authority">>
    BY <2>1, <2>2, <2>3, DerivedType
  <2>5. <<d.program, "cpi_authority">>[2] = "cpi_authority"
    OBVIOUS
  <2> QED BY <2>4, <2>5, OtherStay, TypesOfStays
<1>7. CASE TreasuryPda \in rule.at
  <2>1. a.program = "treasury"
    BY <1>7 DEF TreasuryPda, Derivation, Derive, Address
  <2> QED BY <1>2, <2>1
<1>8. CASE \E x \in {"globalConfig", "treasuryConfig", "configTreasury"} :
             \E field \in {"platformVault", "treasuryVault"} : Held(x, field) \in rule.at
  <2>1. PICK x \in {"globalConfig", "treasuryConfig", "configTreasury"},
             field \in {"platformVault", "treasuryVault"} : Held(x, field) \in rule.at
    BY <1>8
  <2>2. a = Data(accounts[x], field)
    BY <2>1 DEF Held, Derivation, Field, Derive
  <2>3. a \in {PlatformVault, TreasuryVault}
    BY <2>1, <2>2 DEF Data
  <2>4. a.program \in {"config", "treasury"}
    BY <2>3 DEF PlatformVault, TreasuryVault, Address
  <2> QED BY <1>2, <2>4
<1> QED BY <1>3, <1>4, <1>5, <1>6, <1>7, <1>8 DEF Aloof

\* A profile the booking holds is its guest's or its host's.
LEMMA PartyStay ==
  ASSUME NEW rule, NEW a, NEW accounts, NEW args, NEW living, OfParty(rule),
         Lives(rule, a, living), \A d \in rule.at : a = Derive(d, accounts, args),
         rule.oneOf # {} => \E d \in rule.oneOf : a = Derive(d, accounts, args)
  PROVE  /\ a \in Parties(accounts["booking"])
         /\ OfStay(accounts["booking"], a)
<1> DEFINE b == accounts["booking"]
<1>1. \A role : Derive(Held("booking", role), accounts, args) = Data(b, role)
  BY DEF Held, Derivation, Field, Derive
<1>2. a = Data(b, "guest") \/ a = Data(b, "host")
  BY <1>1 DEF OfParty
<1>3. a \in Parties(b)
  BY <1>2 DEF Parties
<1>4. Type(a) \in UserProfile
  BY DEF OfParty, Lives
<1> QED BY <1>3, <1>4, StayByType DEF UserProfile

\* What is derived from the booking, or held in it, is of its stay.
LEMMA BookingStay ==
  ASSUME NEW rule, NEW a, NEW accounts, NEW args, NEW living, OfBooking(rule),
         Lives(rule, a, living), \A d \in rule.at : a = Derive(d, accounts, args)
  PROVE  OfStay(accounts["booking"], a)
<1> DEFINE b == accounts["booking"]
<1> USE DEF UserProfile, ReputationProfile, Listing, BookingDays, DisputeAccount
<1>1. CASE EscrowTokensOf("booking") \in rule.at
  <2>1. a = MoneyOf(b)
    BY <1>1, MoneyDerived
  <2>2. Type(a) = <<"escrow", "escrow">> /\ a.seeds[2][2] = b
    BY <2>1, MoneyType DEF IsMoney
  <2> QED BY <2>2, StayByType DEF Seed
<1>2. CASE DisputeOf("booking") \in rule.at
  <2> DEFINE d == DisputeOf("booking")
  <2>1. /\ d.program = "disputes" /\ DOMAIN d.seeds = {1, 2} /\ d.seeds[1] = Lit("dispute")
        /\ d.seeds[2] = <<"key", "booking">>
    BY DEF DisputeOf, Derivation, Key
  <2> HIDE DEF d
  <2>2. a = Derive(d, accounts, args)
    BY <1>2 DEF d
  <2>3. Type(a) = <<"disputes", "dispute">>
    BY <2>1, <2>2, DerivedType
  <2>4. a.seeds[2] = <<"key", b>>
    BY <2>1, <2>2 DEF Derive, Address, SeedValue
  <2>5. Seed(a, 2) = b
    BY <2>4 DEF Seed
  <2> QED BY <2>3, <2>5, StayByType
<1>3. CASE \E e \in {"year", "nextYear"} :
             DaysOf(Field("key", "booking", "property"), Field(e, "booking", "checkIn")) \in rule.at
  <2>0. PICK e \in {"year", "nextYear"} :
             DaysOf(Field("key", "booking", "property"), Field(e, "booking", "checkIn")) \in rule.at
    BY <1>3
  <2> DEFINE d == DaysOf(Field("key", "booking", "property"), Field(e, "booking", "checkIn"))
  <2>1. /\ d.program = "escrow" /\ DOMAIN d.seeds = 1..3 /\ d.seeds[1] = Lit("booking_days")
        /\ d.seeds[2] = <<"field", "key", "booking", "property">>
        /\ d.seeds[3] = <<"field", e, "booking", "checkIn">>
    BY DEF DaysOf, Derivation, Field
  <2>2. a = Derive(d, accounts, args)
    BY <2>0
  <2> HIDE DEF d
  <2>3. /\ a.program = "escrow" /\ DOMAIN a.seeds = 1..3
        /\ \A i \in 1..3 : a.seeds[i] = SeedValue(d.seeds[i], accounts, args)
    BY <2>1, <2>2 DEF Derive, Address
  <2>4. a.seeds[1] = Lit("booking_days")
    <3>1. SeedValue(Lit("booking_days"), accounts, args) = Lit("booking_days")
      BY DEF SeedValue, Lit
    <3> QED BY <2>1, <2>3, <3>1
  <2>5. a.seeds[2] = <<"key", Data(b, "property")>>
    <3>1. SeedValue(d.seeds[2], accounts, args) = Encode("key", Data(b, "property"))
      BY <2>1 DEF SeedValue
    <3> QED BY <2>3, <3>1 DEF Encode
  <2>6. a.seeds[3][1] = "u32"
    <3>1. SeedValue(d.seeds[3], accounts, args) = Encode(e, Data(b, "checkIn"))
      BY <2>1 DEF SeedValue
    <3> QED BY <2>0, <2>3, <3>1 DEF Encode
  <2>7. Type(a) = <<"escrow", "booking_days">>
    BY <2>3, <2>4, <2>5, <2>6, LiteralIs
  <2>8. Seed(a, 2) = Data(b, "property")
    BY <2>5 DEF Seed
  <2> QED BY <2>7, <2>8, StayByType
<1>4. CASE rule.life = "old" /\ rule.type = Listing /\ Held("booking", "property") \in rule.at
  <2>1. a = Data(b, "property")
    BY <1>4 DEF Held, Derivation, Field, Derive
  <2>2. Type(a) \in Listing
    BY <1>4 DEF Lives
  <2> QED BY <2>1, <2>2, StayByType
<1> QED BY <1>1, <1>2, <1>3, <1>4 DEF OfBooking, DaysBy, NextDaysBy

\* What is derived from the owner of a party's profile is of the stay.
LEMMA OwnerStay ==
  ASSUME NEW b, NEW accounts, NEW args, NEW d, NEW profiles, Belongs(d, profiles),
         \A p \in profiles : accounts[p] \in Parties(b)
  PROVE  OfStay(b, Derive(d, accounts, args))
<1> DEFINE a == Derive(d, accounts, args)
<1> USE DEF UserProfile, ReputationProfile, Listing, BookingDays, DisputeAccount
<1>1. PICK p \in profiles : d \in {ReputationBy(p), TokensBy(p)}
  BY DEF Belongs
<1> DEFINE owner == Data(accounts[p], "authority")
<1>2. owner \in Wallets(b)
  BY <1>1 DEF Wallets
<1>3. SeedValue(Field("key", p, "authority"), accounts, args) = <<"key", owner>>
  <2>1. SeedValue(Field("key", p, "authority"), accounts, args) = Encode("key", owner)
    BY DEF SeedValue, Field
  <2> QED BY <2>1 DEF Encode
<1> HIDE DEF owner
<1>4. CASE d = ReputationBy(p)
  <2>1. /\ d.program = "core" /\ DOMAIN d.seeds = {1, 2}
        /\ d.seeds[1] = Lit("reputation_profile") /\ d.seeds[2] = Field("key", p, "authority")
    BY <1>4 DEF ReputationBy, Derivation
  <2>2. /\ a.program = "core" /\ DOMAIN a.seeds = {1, 2}
        /\ \A i \in {1, 2} : a.seeds[i] = SeedValue(d.seeds[i], accounts, args)
    BY <2>1 DEF Derive, Address
  <2> HIDE DEF a
  <2>3. a.seeds[1] = Lit("reputation_profile") /\ a.seeds[2] = <<"key", owner>>
    <3>1. SeedValue(Lit("reputation_profile"), accounts, args) = Lit("reputation_profile")
      BY DEF SeedValue, Lit
    <3> QED BY <1>3, <2>1, <2>2, <3>1
  <2>4. Type(a) = <<"core", "reputation_profile">>
    BY <2>2, <2>3, LiteralIs
  <2>5. Seed(a, 2) = owner
    BY <2>3 DEF Seed
  <2>6. OfStay(b, a)
    BY <1>2, <2>4, <2>5, StayByType
  <2> QED BY <2>6 DEF a
<1>5. CASE d = TokensBy(p)
  <2>1. /\ d.program = "tokens" /\ DOMAIN d.seeds = {1} /\ d.seeds[1] = Field("key", p, "authority")
    BY <1>5 DEF TokensBy, Derivation
  <2>2. a.program = "tokens" /\ DOMAIN a.seeds = {1} /\ a.seeds[1] = <<"key", owner>>
    BY <1>3, <2>1 DEF Derive, Address
  <2> HIDE DEF a
  <2>3. {i \in DOMAIN a.seeds : a.seeds[i][1] = "lit"} = {}
    BY <2>2
  <2>4. Type(a) = <<"tokens", "">>
    BY <2>2, <2>3 DEF Type, Literal
  <2>5. Seed(a, 1) = owner
    BY <2>2 DEF Seed
  <2>6. OfStay(b, a)
    BY <1>2, <2>4, <2>5, StayByType
  <2> QED BY <2>6 DEF a
<1> QED BY <1>1, <1>4, <1>5

\* What the rules bind to the booking is of its stay.
LEMMA JoinedStay ==
  ASSUME NEW op, NEW rules, NEW profiles, NEW accounts, NEW args, NEW living,
         Joined(op, rules, profiles), Meets(rules, accounts, args, living),
         NEW i \in DOMAIN rules, <<op, rules[i].name>> \notin LeftFree,
         rules[i].name = "treasuryPda" =>
           op \notin {"hostCancelBooking", "hostCancelBookingCrossYear"}
  PROVE  OfStay(accounts["booking"], accounts[rules[i].name])
<1> DEFINE b == accounts["booking"]
<1> DEFINE a(j) == accounts[rules[j].name]
<1>1. ASSUME NEW j \in DOMAIN rules
      PROVE  /\ Lives(rules[j], a(j), living)
             /\ rules[j].signer => a(j).program = "wallet"
             /\ \A d \in rules[j].at : a(j) = Derive(d, accounts, args)
             /\ rules[j].oneOf # {} => \E d \in rules[j].oneOf : a(j) = Derive(d, accounts, args)
  BY DEF Meets
<1>2. ASSUME NEW p \in profiles
      PROVE  accounts[p] \in Parties(b)
  <2>1. PICK j \in DOMAIN rules : rules[j].name = p /\ OfParty(rules[j])
    BY DEF Joined
  <2> QED BY <1>1, <2>1, PartyStay
<1>3. CASE Aloof(rules[i])
  BY <1>1, <1>3, AloofStay
<1>4. CASE OfParty(rules[i])
  BY <1>1, <1>4, PartyStay
<1>5. CASE OfBooking(rules[i])
  BY <1>1, <1>5, BookingStay
<1>6. CASE OfOwner(rules[i], profiles)
  <2>1. PICK d : Belongs(d, profiles) /\ a(i) = Derive(d, accounts, args)
    BY <1>1, <1>6 DEF OfOwner
  <2>2. OfStay(b, Derive(d, accounts, args))
    BY <1>2, <2>1, OwnerStay
  <2> QED BY <2>1, <2>2
<1> QED BY <1>3, <1>4, <1>5, <1>6 DEF Joined, Bound, Clear

-----------------------------------------------------------------------------
(***************************************************************************)
(* The tables of the programs: each rule of an instruction about a booking *)
(* is of one of these kinds.                                               *)
(***************************************************************************)
\* Two lists of the same rules, joined.
LEMMA Joining == \A X : \A s, t \in Seq(X) : s \o t \in Seq(X)
OBVIOUS

\* Types that are of no stay.
LEMMA StaylessTypes ==
  \A type \in {Booking, GlobalConfigAcc, MintType, TreasuryConfigAcc, DisputeConfig, SignerType} :
    type \cap StayTypes = {}
<1>1. /\ <<"escrow", "booking">>[2] = "booking" /\ <<"config", "global_config">>[1] = "config"
      /\ <<"mint", "">>[1] = "mint" /\ <<"treasury", "treasury_config">>[1] = "treasury"
      /\ <<"disputes", "dispute_config">>[2] = "dispute_config" /\ <<"wallet", "">>[1] = "wallet"
  OBVIOUS
<1>2. \A t \in StayTypes :
        t \notin {<<"escrow", "booking">>, <<"config", "global_config">>, <<"mint", "">>,
                 <<"treasury", "treasury_config">>, <<"disputes", "dispute_config">>,
                 <<"wallet", "">>}
  BY <1>1, TypesOfStays, Zenon
<1> QED BY <1>2
  DEF Booking, GlobalConfigAcc, MintType, TreasuryConfigAcc, DisputeConfig, SignerType

\* Every rule of an instruction about a booking has its place, in the tables of
\* the escrow and of the disputes: the instructions one by one.
LEMMA EscrowJoined ==
  \A op \in Ops("escrow") \ {"createBooking", "createBookingCrossYear",
                           "cpiResolveDisputeTransfer", "cpiUpdateBookingStatus",
                             "initializeEscrow"} :
    \E profiles : Joined(op, EscrowA!Rules[op], profiles)
<1>1. \A n, at : Aloof(EscrowA!Signs(n, at)) /\ Aloof(EscrowA!MutSigns(n, at))
                 /\ Aloof(EscrowA!CreditedSigns(n, at))
  BY DEF Aloof, EscrowA!Signs, EscrowA!MutSigns, EscrowA!CreditedSigns, EscrowA!Rule
<1>2. /\ EscrowA!Booking \cap StayTypes = {}
      /\ EscrowA!GlobalConfigAcc \cap StayTypes = {}
      /\ EscrowA!MintType \cap StayTypes = {}
      /\ EscrowA!TreasuryConfigAcc \cap StayTypes = {}
  BY StaylessTypes DEF Booking, EscrowA!Booking, GlobalConfigAcc, EscrowA!GlobalConfigAcc,
       MintType, EscrowA!MintType, TreasuryConfigAcc, EscrowA!TreasuryConfigAcc
<1>3. \A type : type \cap StayTypes = {} =>
        \A n, at : Aloof(EscrowA!Ro(n, type, at)) /\ Aloof(EscrowA!Mut(n, type, at))
                     /\ Aloof(EscrowA!Closed(n, type, at))
  BY DEF Aloof, EscrowA!Ro, EscrowA!Mut, EscrowA!Closed, EscrowA!Rule
<1>4. /\ Aloof(EscrowA!GlobalConfigRule)
      /\ Aloof(EscrowA!BookingRule)
      /\ \A n : Aloof(EscrowA!MutMintRule(n))
      /\ \A n : Aloof(EscrowA!MintRule(n))
  BY <1>2, <1>3 DEF EscrowA!GlobalConfigRule, EscrowA!BookingRule, EscrowA!MutMintRule,
       EscrowA!MintRule
<1>5. \A n, p : Aloof(EscrowA!ProgramRule(n, p))
  BY DEF Aloof, EscrowA!ProgramRule, EscrowA!Unchecked, EscrowA!Rule, EscrowA!Fixed,
       EscrowA!Derivation
<1>6. Aloof(EscrowA!SystemRule) /\ Aloof(EscrowA!TokenRule) /\ Aloof(EscrowA!CoreProgramRule)
  BY <1>5 DEF EscrowA!SystemRule, EscrowA!TokenRule, EscrowA!CoreProgramRule
<1>7. \A n, t : \A d \in {EscrowA!CpiAuthority("escrow"), EscrowA!CpiAuthority("disputes"),
                  EscrowA!TreasuryPda,
                      EscrowA!Held("globalConfig", "platformVault"),
                      EscrowA!Held("treasuryConfig", "treasuryVault"),
                      EscrowA!Held("configTreasury", "treasuryVault")} :
        Aloof(EscrowA!Mut(n, t, {d})) /\ Aloof(EscrowA!Unchecked(n, {d}))
  BY DEF Aloof, EscrowA!Mut, EscrowA!Unchecked, EscrowA!Rule, CpiAuthority,
       EscrowA!CpiAuthority, TreasuryPda, EscrowA!TreasuryPda, Held, EscrowA!Held,
       Derivation, EscrowA!Derivation, Field, EscrowA!Field, Lit, EscrowA!Lit
<1>8. Aloof(EscrowA!AuthorityRule) /\ \A n : Aloof(EscrowA!VaultRule(n))
  BY <1>7 DEF EscrowA!AuthorityRule, EscrowA!VaultRule
<1>9. \A n, d : \A role \in {"guest", "host"} :
        /\ OfParty(EscrowA!Ro(n, EscrowA!UserProfile, {d, EscrowA!Held("booking", role)}))
        /\ OfParty(EscrowA!Mut(n, EscrowA!UserProfile, {d, EscrowA!Held("booking", role)}))
  BY DEF OfParty, EscrowA!Ro, EscrowA!Mut, EscrowA!Rule, UserProfile, EscrowA!UserProfile,
       Held, EscrowA!Held, Derivation, EscrowA!Derivation, Field, EscrowA!Field
<1>10. \A n : \A role \in {"guest", "host"} :
        /\ OfParty(EscrowA!PartyRule(n, role)) /\ EscrowA!PartyRule(n, role).name = n
        /\ OfParty(EscrowA!MutPartyRule(n, role)) /\ EscrowA!MutPartyRule(n, role).name = n
  BY <1>9 DEF EscrowA!PartyRule, EscrowA!MutPartyRule, EscrowA!Ro, EscrowA!Mut, EscrowA!Rule
<1>11. \A n, t : \A d \in {EscrowA!EscrowTokensOf("booking"), EscrowA!DaysBy("booking"),
                   EscrowA!NextDaysBy("booking")} :
        OfBooking(EscrowA!Mut(n, t, {d})) /\ OfBooking(EscrowA!Closed(n, t, {d}))
  BY DEF OfBooking, EscrowA!Mut, EscrowA!Closed, EscrowA!Rule, EscrowTokensOf,
       EscrowA!EscrowTokensOf, DaysBy, EscrowA!DaysBy, NextDaysBy, EscrowA!NextDaysBy,
       DaysOf, EscrowA!DaysOf, Derivation, EscrowA!Derivation, Lit, EscrowA!Lit, Key,
       EscrowA!Key, Field, EscrowA!Field
<1>12. OfBooking(EscrowA!OwnTokensRule) /\ OfBooking(EscrowA!DaysRule)
         /\ OfBooking(EscrowA!NextDaysRule)
  BY <1>11 DEF EscrowA!OwnTokensRule, EscrowA!DaysRule, EscrowA!NextDaysRule
<1>13. \A n, d : OfBooking(EscrowA!Mut(n, EscrowA!Listing, {EscrowA!Held("booking",
                   "property"), d}))
  BY DEF OfBooking, EscrowA!Mut, EscrowA!Rule, Listing, EscrowA!Listing, Held,
       EscrowA!Held, Derivation, EscrowA!Derivation, Field, EscrowA!Field
<1>14. \A p : EscrowA!ReputationBy(p) = ReputationBy(p) /\ EscrowA!TokensBy(p) = TokensBy(p)
  BY DEF ReputationBy, EscrowA!ReputationBy, TokensBy, EscrowA!TokensBy, Derivation,
       EscrowA!Derivation, Lit, EscrowA!Lit, Field, EscrowA!Field
<1>15. \A n, t, profiles : \A p \in profiles :
        /\ OfOwner(EscrowA!Mut(n, t, {EscrowA!ReputationBy(p)}), profiles)
        /\ OfOwner(EscrowA!Mut(n, t, {EscrowA!TokensBy(p)}), profiles)
  BY <1>14 DEF OfOwner, Belongs, EscrowA!Mut, EscrowA!Rule
<1>16. \A n, profiles : \A p \in profiles : OfOwner(EscrowA!TokensRule(n, p), profiles)
  BY <1>15 DEF EscrowA!TokensRule
<1>17. /\ \A n, at : Clear(EscrowA!Signs(n, at)) /\ Clear(EscrowA!MutSigns(n, at))
                       /\ Clear(EscrowA!CreditedSigns(n, at))
       /\ Clear(EscrowA!BookingRule) /\ Clear(EscrowA!GlobalConfigRule)
            /\ Clear(EscrowA!AuthorityRule)
       /\ Clear(EscrowA!TokenRule) /\ Clear(EscrowA!SystemRule)
            /\ Clear(EscrowA!CoreProgramRule)
       /\ Clear(EscrowA!DaysRule) /\ Clear(EscrowA!NextDaysRule) /\ Clear(EscrowA!OwnTokensRule)
       /\ \A n : Clear(EscrowA!MintRule(n)) /\ Clear(EscrowA!MutMintRule(n))
                   /\ Clear(EscrowA!VaultRule(n))
       /\ \A n, p : Clear(EscrowA!ProgramRule(n, p))
       /\ \A n : /\ Clear(EscrowA!PartyRule(n, "guest")) /\ Clear(EscrowA!PartyRule(n, "host"))
               /\ Clear(EscrowA!MutPartyRule(n, "guest"))
                    /\ Clear(EscrowA!MutPartyRule(n, "host"))
  BY <1>1, <1>4, <1>5, <1>6, <1>8, <1>10, <1>12, Zenon DEF Clear
<1>18. /\ Clear(EscrowA!Closed("booking", EscrowA!Booking, {EscrowA!BookingBy("booking")}))
       /\ Clear(EscrowA!Ro("hostProfile", EscrowA!UserProfile, {EscrowA!ProfileOf("host"),
            EscrowA!Held("booking", "host")}))
       /\ Clear(EscrowA!Ro("guestProfile", EscrowA!UserProfile, {EscrowA!ProfileOf("guest"),
            EscrowA!Held("booking", "guest")}))
       /\ Clear(EscrowA!Ro("treasuryConfig", EscrowA!TreasuryConfigAcc,
            {EscrowA!TreasuryConfigPda}))
       /\ Clear(EscrowA!Mut("treasuryVault", EscrowA!TokenAccount,
            {EscrowA!Held("treasuryConfig", "treasuryVault")}))
       /\ Clear(EscrowA!Mut("listing", EscrowA!Listing, {EscrowA!Held("booking", "property"),
            EscrowA!SameListing("hostProfile", "listing")}))
  BY <1>2, <1>3, <1>7, <1>9, <1>13 DEF Clear
<1>19. /\ EscrowA!Ro("hostProfile", EscrowA!UserProfile,
            {EscrowA!ProfileBy("hostProfile")}).name = "hostProfile"
       /\ EscrowA!Unchecked("treasuryPda", {}).name = "treasuryPda"
  BY DEF EscrowA!Ro, EscrowA!Unchecked, EscrowA!Rule
<1>20. /\ \A op, rule, profiles : Clear(rule) \/ OfOwner(rule, profiles) => Bound(op, rule,
                                    profiles)
       /\ \A profiles : Bound("bookingStarts", EscrowA!Ro("hostProfile", EscrowA!UserProfile,
                          {EscrowA!ProfileBy("hostProfile")}), profiles)
       /\ \A profiles : Bound("hostCancelBooking", EscrowA!Unchecked("treasuryPda", {}),
                          profiles)
       /\ \A profiles : Bound("hostCancelBookingCrossYear", EscrowA!Unchecked("treasuryPda",
                          {}), profiles)
  BY <1>19 DEF Bound, LeftFree
<1>21. \A at : /\ IsStay(EscrowA!Mut("booking", EscrowA!Booking, at))
              /\ IsStay(EscrowA!Closed("booking", EscrowA!Booking, at))
              /\ IsStay(EscrowA!Ro("booking", EscrowA!Booking, at))
  BY DEF IsStay, EscrowA!Mut, EscrowA!Closed, EscrowA!Ro, EscrowA!Rule, Booking,
       EscrowA!Booking
<1>22. IsStay(EscrowA!BookingRule)
  BY <1>21 DEF EscrowA!BookingRule
<1> HIDE DEF Aloof, OfParty, OfBooking, OfOwner, Clear, IsStay
<1>23. Joined("bookingCompletes", EscrowA!BookingCompletes, {})
  <2> DEFINE L == EscrowA!BookingCompletes
         Tied(rule) == Bound("bookingCompletes", rule, {})
  <2>1. 2 \in DOMAIN L /\ IsStay(L[2])
    BY <1>21, <1>22 DEF EscrowA!BookingCompletes
  <2>2. \A rule : Clear(rule) => Tied(rule)
    BY <1>20
  <2>3. \A i \in DOMAIN L : Tied(L[i])
    BY SMTT(60), <1>17, <1>18, <2>2
    DEF EscrowA!BookingCompletes
  <2> QED BY <2>1, <2>3 DEF Joined
<1>24. Joined("bookingStarts", EscrowA!BookingStarts, {})
  <2> DEFINE L == EscrowA!BookingStarts
         Tied(rule) == Bound("bookingStarts", rule, {})
  <2>1. 2 \in DOMAIN L /\ IsStay(L[2])
    BY <1>21, <1>22 DEF EscrowA!BookingStarts
  <2>2. /\ \A rule : Clear(rule) => Tied(rule)
        /\ Tied(EscrowA!Ro("hostProfile", EscrowA!UserProfile,
             {EscrowA!ProfileBy("hostProfile")}))
    BY <1>20
  <2>3. \A i \in DOMAIN L : Tied(L[i])
    BY SMTT(60), <1>17, <1>18, <2>2
    DEF EscrowA!BookingStarts
  <2> QED BY <2>1, <2>3 DEF Joined
<1>25. Joined("expireBooking", EscrowA!ExpireBooking, {"guest"})
  <2> DEFINE L == EscrowA!ExpireBooking
         N == {"guest"}
         Tied(rule) == Bound("expireBooking", rule, N)
  <2>1. 3 \in DOMAIN L /\ IsStay(L[3])
    BY <1>21, <1>22 DEF EscrowA!ExpireBooking, EscrowA!ExpireBookingWith
  <2>2. /\ 2 \in DOMAIN L /\ L[2].name = "guest" /\ OfParty(L[2])
    BY <1>10 DEF EscrowA!ExpireBooking, EscrowA!ExpireBookingWith
  <2>3. /\ \A n : OfOwner(EscrowA!TokensRule(n, "guest"), N)
    BY <1>15, <1>16
  <2>4. /\ \A rule : Clear(rule) => Tied(rule)
        /\ \A n : Tied(EscrowA!TokensRule(n, "guest"))
    BY <1>20, <2>3
  <2>5. \A i \in DOMAIN L : Tied(L[i])
    BY SMTT(60), <1>17, <1>18, <2>4
    DEF EscrowA!ExpireBooking, EscrowA!ExpireBookingWith
  <2> QED BY <2>1, <2>2, <2>5 DEF Joined
<1>26. Joined("expireBookingCrossYear", EscrowA!ExpireBookingCrossYear, {"guest"})
  <2> DEFINE L == EscrowA!ExpireBookingCrossYear
         N == {"guest"}
         Tied(rule) == Bound("expireBookingCrossYear", rule, N)
  <2>1. 3 \in DOMAIN L /\ IsStay(L[3])
    BY <1>21, <1>22 DEF EscrowA!ExpireBookingCrossYear, EscrowA!ExpireBookingWith
  <2>2. /\ 2 \in DOMAIN L /\ L[2].name = "guest" /\ OfParty(L[2])
    BY <1>10 DEF EscrowA!ExpireBookingCrossYear, EscrowA!ExpireBookingWith
  <2>3. /\ \A n : OfOwner(EscrowA!TokensRule(n, "guest"), N)
    BY <1>15, <1>16
  <2>4. /\ \A rule : Clear(rule) => Tied(rule)
        /\ \A n : Tied(EscrowA!TokensRule(n, "guest"))
    BY <1>20, <2>3
  <2>5. \A i \in DOMAIN L : Tied(L[i])
    BY SMTT(60), <1>17, <1>18, <2>4
    DEF EscrowA!ExpireBookingCrossYear, EscrowA!ExpireBookingWith
  <2> QED BY <2>1, <2>2, <2>5 DEF Joined
<1>27. Joined("guestCancelBooking", EscrowA!GuestCancelBooking, {"guestProfile", "hostProfile"})
  <2> DEFINE L == EscrowA!GuestCancelBooking
         N == {"guestProfile", "hostProfile"}
         Tied(rule) == Bound("guestCancelBooking", rule, N)
  <2>1. 5 \in DOMAIN L /\ IsStay(L[5])
    BY <1>21, <1>22 DEF EscrowA!GuestCancelBooking, EscrowA!GuestCancelBookingWith
  <2>2. /\ 2 \in DOMAIN L /\ L[2].name = "guestProfile" /\ OfParty(L[2])
        /\ 3 \in DOMAIN L /\ L[3].name = "hostProfile" /\ OfParty(L[3])
    BY <1>10 DEF EscrowA!GuestCancelBooking, EscrowA!GuestCancelBookingWith
  <2>3. /\ \A n : OfOwner(EscrowA!TokensRule(n, "guestProfile"), N)
        /\ \A n : OfOwner(EscrowA!TokensRule(n, "hostProfile"), N)
        /\ OfOwner(EscrowA!Mut("guestReputation", EscrowA!ReputationProfile,
             {EscrowA!ReputationBy("guestProfile")}), N)
        /\ OfOwner(EscrowA!Mut("hostReputation", EscrowA!ReputationProfile,
             {EscrowA!ReputationBy("hostProfile")}), N)
    BY <1>15, <1>16
  <2>4. /\ \A rule : Clear(rule) => Tied(rule)
        /\ \A n : Tied(EscrowA!TokensRule(n, "guestProfile"))
        /\ \A n : Tied(EscrowA!TokensRule(n, "hostProfile"))
        /\ Tied(EscrowA!Mut("guestReputation", EscrowA!ReputationProfile,
             {EscrowA!ReputationBy("guestProfile")}))
        /\ Tied(EscrowA!Mut("hostReputation", EscrowA!ReputationProfile,
             {EscrowA!ReputationBy("hostProfile")}))
    BY <1>20, <2>3
  <2>5. \A i \in DOMAIN L : Tied(L[i])
    <3> DEFINE X == {EscrowA!MutSigns("caller", {EscrowA!Held("guestProfile", "authority")}),
                     EscrowA!PartyRule("guestProfile", "guest"),
                     EscrowA!PartyRule("hostProfile", "host"),
                     EscrowA!Mut("guestReputation", EscrowA!ReputationProfile,
                       {EscrowA!ReputationBy("guestProfile")}),
                     EscrowA!BookingRule, EscrowA!DaysRule, EscrowA!GlobalConfigRule,
                     EscrowA!OwnTokensRule,
                     EscrowA!TokensRule("guestTokenAccount", "guestProfile"),
                     EscrowA!TokensRule("hostTokenAccount", "hostProfile"),
                     EscrowA!VaultRule("platformVault"), EscrowA!MutMintRule("mint"),
                     EscrowA!AuthorityRule, EscrowA!CoreProgramRule, EscrowA!TokenRule}
    <3>1. \A rule \in X : Tied(rule)
      BY SMTT(60), <1>17, <1>18, <2>4
    <3>2. <<EscrowA!MutSigns("caller", {EscrowA!Held("guestProfile", "authority")}),
             EscrowA!PartyRule("guestProfile", "guest"),
             EscrowA!PartyRule("hostProfile", "host"),
             EscrowA!Mut("guestReputation", EscrowA!ReputationProfile,
               {EscrowA!ReputationBy("guestProfile")}),
             EscrowA!BookingRule>> \in Seq(X)
      OBVIOUS
    <3>3. <<EscrowA!DaysRule>> \in Seq(X)
      OBVIOUS
    <3>4. <<EscrowA!GlobalConfigRule, EscrowA!OwnTokensRule,
             EscrowA!TokensRule("guestTokenAccount", "guestProfile"),
             EscrowA!TokensRule("hostTokenAccount", "hostProfile"),
             EscrowA!VaultRule("platformVault"), EscrowA!MutMintRule("mint"),
             EscrowA!AuthorityRule, EscrowA!CoreProgramRule, EscrowA!TokenRule>> \in Seq(X)
      OBVIOUS
    <3> HIDE DEF X
    <3>5. L \in Seq(X)
      BY <3>2, <3>3, <3>4, Joining DEF EscrowA!GuestCancelBooking,
        EscrowA!GuestCancelBookingWith
    <3> QED BY <3>1, <3>5
  <2> QED BY <2>1, <2>2, <2>5 DEF Joined
<1>28. Joined("guestCancelBookingCrossYear", EscrowA!GuestCancelBookingCrossYear,
         {"guestProfile", "hostProfile"})
  <2> DEFINE L == EscrowA!GuestCancelBookingCrossYear
         N == {"guestProfile", "hostProfile"}
         Tied(rule) == Bound("guestCancelBookingCrossYear", rule, N)
  <2>1. 5 \in DOMAIN L /\ IsStay(L[5])
    BY <1>21, <1>22 DEF EscrowA!GuestCancelBookingCrossYear, EscrowA!GuestCancelBookingWith
  <2>2. /\ 2 \in DOMAIN L /\ L[2].name = "guestProfile" /\ OfParty(L[2])
        /\ 3 \in DOMAIN L /\ L[3].name = "hostProfile" /\ OfParty(L[3])
    BY <1>10 DEF EscrowA!GuestCancelBookingCrossYear, EscrowA!GuestCancelBookingWith
  <2>3. /\ \A n : OfOwner(EscrowA!TokensRule(n, "guestProfile"), N)
        /\ \A n : OfOwner(EscrowA!TokensRule(n, "hostProfile"), N)
        /\ OfOwner(EscrowA!Mut("guestReputation", EscrowA!ReputationProfile,
             {EscrowA!ReputationBy("guestProfile")}), N)
        /\ OfOwner(EscrowA!Mut("hostReputation", EscrowA!ReputationProfile,
             {EscrowA!ReputationBy("hostProfile")}), N)
    BY <1>15, <1>16
  <2>4. /\ \A rule : Clear(rule) => Tied(rule)
        /\ \A n : Tied(EscrowA!TokensRule(n, "guestProfile"))
        /\ \A n : Tied(EscrowA!TokensRule(n, "hostProfile"))
        /\ Tied(EscrowA!Mut("guestReputation", EscrowA!ReputationProfile,
             {EscrowA!ReputationBy("guestProfile")}))
        /\ Tied(EscrowA!Mut("hostReputation", EscrowA!ReputationProfile,
             {EscrowA!ReputationBy("hostProfile")}))
    BY <1>20, <2>3
  <2>5. \A i \in DOMAIN L : Tied(L[i])
    <3> DEFINE X == {EscrowA!MutSigns("caller", {EscrowA!Held("guestProfile", "authority")}),
                     EscrowA!PartyRule("guestProfile", "guest"),
                     EscrowA!PartyRule("hostProfile", "host"),
                     EscrowA!Mut("guestReputation", EscrowA!ReputationProfile,
                       {EscrowA!ReputationBy("guestProfile")}),
                     EscrowA!BookingRule, EscrowA!DaysRule, EscrowA!NextDaysRule,
                     EscrowA!GlobalConfigRule, EscrowA!OwnTokensRule,
                     EscrowA!TokensRule("guestTokenAccount", "guestProfile"),
                     EscrowA!TokensRule("hostTokenAccount", "hostProfile"),
                     EscrowA!VaultRule("platformVault"), EscrowA!MutMintRule("mint"),
                     EscrowA!AuthorityRule, EscrowA!CoreProgramRule, EscrowA!TokenRule}
    <3>1. \A rule \in X : Tied(rule)
      BY SMTT(60), <1>17, <1>18, <2>4
    <3>2. <<EscrowA!MutSigns("caller", {EscrowA!Held("guestProfile", "authority")}),
             EscrowA!PartyRule("guestProfile", "guest"),
             EscrowA!PartyRule("hostProfile", "host"),
             EscrowA!Mut("guestReputation", EscrowA!ReputationProfile,
               {EscrowA!ReputationBy("guestProfile")}),
             EscrowA!BookingRule>> \in Seq(X)
      OBVIOUS
    <3>3. <<EscrowA!DaysRule, EscrowA!NextDaysRule>> \in Seq(X)
      OBVIOUS
    <3>4. <<EscrowA!GlobalConfigRule, EscrowA!OwnTokensRule,
             EscrowA!TokensRule("guestTokenAccount", "guestProfile"),
             EscrowA!TokensRule("hostTokenAccount", "hostProfile"),
             EscrowA!VaultRule("platformVault"), EscrowA!MutMintRule("mint"),
             EscrowA!AuthorityRule, EscrowA!CoreProgramRule, EscrowA!TokenRule>> \in Seq(X)
      OBVIOUS
    <3> HIDE DEF X
    <3>5. L \in Seq(X)
      BY <3>2, <3>3, <3>4, Joining DEF EscrowA!GuestCancelBookingCrossYear,
        EscrowA!GuestCancelBookingWith
    <3> QED BY <3>1, <3>5
  <2> QED BY <2>1, <2>2, <2>5 DEF Joined
<1>29. Joined("guestReview", EscrowA!GuestReview, {"hostProfile"})
  <2> DEFINE L == EscrowA!GuestReview
         N == {"hostProfile"}
         Tied(rule) == Bound("guestReview", rule, N)
  <2>1. 6 \in DOMAIN L /\ IsStay(L[6])
    BY <1>21, <1>22 DEF EscrowA!GuestReview
  <2>2. /\ 3 \in DOMAIN L /\ L[3].name = "hostProfile" /\ OfParty(L[3])
    BY <1>10 DEF EscrowA!GuestReview
  <2>3. /\ \A n : OfOwner(EscrowA!TokensRule(n, "hostProfile"), N)
        /\ OfOwner(EscrowA!Mut("hostReputation", EscrowA!ReputationProfile,
             {EscrowA!ReputationBy("hostProfile")}), N)
    BY <1>15, <1>16
  <2>4. /\ \A rule : Clear(rule) => Tied(rule)
        /\ \A n : Tied(EscrowA!TokensRule(n, "hostProfile"))
        /\ Tied(EscrowA!Mut("hostReputation", EscrowA!ReputationProfile,
             {EscrowA!ReputationBy("hostProfile")}))
    BY <1>20, <2>3
  <2>5. \A i \in DOMAIN L : Tied(L[i])
    BY SMTT(60), <1>17, <1>18, <2>4
    DEF EscrowA!GuestReview
  <2> QED BY <2>1, <2>2, <2>5 DEF Joined
<1>30. Joined("hostAcceptBooking", EscrowA!HostAcceptBooking, {})
  <2> DEFINE L == EscrowA!HostAcceptBooking
         Tied(rule) == Bound("hostAcceptBooking", rule, {})
  <2>1. 4 \in DOMAIN L /\ IsStay(L[4])
    BY <1>21, <1>22 DEF EscrowA!HostAcceptBooking
  <2>2. \A rule : Clear(rule) => Tied(rule)
    BY <1>20
  <2>3. \A i \in DOMAIN L : Tied(L[i])
    BY SMTT(60), <1>17, <1>18, <2>2
    DEF EscrowA!HostAcceptBooking
  <2> QED BY <2>1, <2>3 DEF Joined
<1>31. Joined("hostCancelBooking", EscrowA!HostCancelBooking, {"guestProfile", "hostProfile"})
  <2> DEFINE L == EscrowA!HostCancelBooking
         N == {"guestProfile", "hostProfile"}
         Tied(rule) == Bound("hostCancelBooking", rule, N)
  <2>1. 5 \in DOMAIN L /\ IsStay(L[5])
    BY <1>21, <1>22 DEF EscrowA!HostCancelBooking, EscrowA!HostCancelBookingWith
  <2>2. /\ 2 \in DOMAIN L /\ L[2].name = "guestProfile" /\ OfParty(L[2])
        /\ 3 \in DOMAIN L /\ L[3].name = "hostProfile" /\ OfParty(L[3])
    BY <1>10 DEF EscrowA!HostCancelBooking, EscrowA!HostCancelBookingWith
  <2>3. /\ \A n : OfOwner(EscrowA!TokensRule(n, "guestProfile"), N)
        /\ \A n : OfOwner(EscrowA!TokensRule(n, "hostProfile"), N)
        /\ OfOwner(EscrowA!Mut("guestReputation", EscrowA!ReputationProfile,
             {EscrowA!ReputationBy("guestProfile")}), N)
        /\ OfOwner(EscrowA!Mut("hostReputation", EscrowA!ReputationProfile,
             {EscrowA!ReputationBy("hostProfile")}), N)
    BY <1>15, <1>16
  <2>4. /\ \A rule : Clear(rule) => Tied(rule)
        /\ \A n : Tied(EscrowA!TokensRule(n, "guestProfile"))
        /\ \A n : Tied(EscrowA!TokensRule(n, "hostProfile"))
        /\ Tied(EscrowA!Mut("guestReputation", EscrowA!ReputationProfile,
             {EscrowA!ReputationBy("guestProfile")}))
        /\ Tied(EscrowA!Mut("hostReputation", EscrowA!ReputationProfile,
             {EscrowA!ReputationBy("hostProfile")}))
        /\ Tied(EscrowA!Unchecked("treasuryPda", {}))
    BY <1>20, <2>3
  <2>5. \A i \in DOMAIN L : Tied(L[i])
    <3> DEFINE X == {EscrowA!MutSigns("caller", {EscrowA!Held("hostProfile", "authority")}),
                     EscrowA!PartyRule("guestProfile", "guest"),
                     EscrowA!MutPartyRule("hostProfile", "host"),
                     EscrowA!Mut("hostReputation", EscrowA!ReputationProfile,
                       {EscrowA!ReputationBy("hostProfile")}),
                     EscrowA!BookingRule, EscrowA!DaysRule, EscrowA!GlobalConfigRule,
                     EscrowA!OwnTokensRule,
                     EscrowA!TokensRule("guestTokenAccount", "guestProfile"),
                     EscrowA!MutMintRule("mint"), EscrowA!AuthorityRule,
                     EscrowA!Ro("treasuryConfig", EscrowA!TreasuryConfigAcc,
                       {EscrowA!TreasuryConfigPda}),
                     EscrowA!Mut("treasuryVault", EscrowA!TokenAccount,
                       {EscrowA!Held("treasuryConfig", "treasuryVault")}),
                     EscrowA!Unchecked("treasuryPda", {}), EscrowA!CoreProgramRule,
                     EscrowA!ProgramRule("staykeTreasuryProgram", "treasury"),
                     EscrowA!TokenRule}
    <3>1. \A rule \in X : Tied(rule)
      BY SMTT(60), <1>17, <1>18, <2>4
    <3>2. <<EscrowA!MutSigns("caller", {EscrowA!Held("hostProfile", "authority")}),
             EscrowA!PartyRule("guestProfile", "guest"),
             EscrowA!MutPartyRule("hostProfile", "host"),
             EscrowA!Mut("hostReputation", EscrowA!ReputationProfile,
               {EscrowA!ReputationBy("hostProfile")}),
             EscrowA!BookingRule>> \in Seq(X)
      OBVIOUS
    <3>3. <<EscrowA!DaysRule>> \in Seq(X)
      OBVIOUS
    <3>4. <<EscrowA!GlobalConfigRule, EscrowA!OwnTokensRule,
             EscrowA!TokensRule("guestTokenAccount", "guestProfile"),
             EscrowA!MutMintRule("mint"), EscrowA!AuthorityRule,
             EscrowA!Ro("treasuryConfig", EscrowA!TreasuryConfigAcc,
               {EscrowA!TreasuryConfigPda}),
             EscrowA!Mut("treasuryVault", EscrowA!TokenAccount, {EscrowA!Held("treasuryConfig",
               "treasuryVault")}),
             EscrowA!Unchecked("treasuryPda", {}), EscrowA!CoreProgramRule,
             EscrowA!ProgramRule("staykeTreasuryProgram", "treasury"),
               EscrowA!TokenRule>> \in Seq(X)
      OBVIOUS
    <3> HIDE DEF X
    <3>5. L \in Seq(X)
      BY <3>2, <3>3, <3>4, Joining DEF EscrowA!HostCancelBooking, EscrowA!HostCancelBookingWith
    <3> QED BY <3>1, <3>5
  <2> QED BY <2>1, <2>2, <2>5 DEF Joined
<1>32. Joined("hostCancelBookingCrossYear", EscrowA!HostCancelBookingCrossYear,
         {"guestProfile", "hostProfile"})
  <2> DEFINE L == EscrowA!HostCancelBookingCrossYear
         N == {"guestProfile", "hostProfile"}
         Tied(rule) == Bound("hostCancelBookingCrossYear", rule, N)
  <2>1. 5 \in DOMAIN L /\ IsStay(L[5])
    BY <1>21, <1>22 DEF EscrowA!HostCancelBookingCrossYear, EscrowA!HostCancelBookingWith
  <2>2. /\ 2 \in DOMAIN L /\ L[2].name = "guestProfile" /\ OfParty(L[2])
        /\ 3 \in DOMAIN L /\ L[3].name = "hostProfile" /\ OfParty(L[3])
    BY <1>10 DEF EscrowA!HostCancelBookingCrossYear, EscrowA!HostCancelBookingWith
  <2>3. /\ \A n : OfOwner(EscrowA!TokensRule(n, "guestProfile"), N)
        /\ \A n : OfOwner(EscrowA!TokensRule(n, "hostProfile"), N)
        /\ OfOwner(EscrowA!Mut("guestReputation", EscrowA!ReputationProfile,
             {EscrowA!ReputationBy("guestProfile")}), N)
        /\ OfOwner(EscrowA!Mut("hostReputation", EscrowA!ReputationProfile,
             {EscrowA!ReputationBy("hostProfile")}), N)
    BY <1>15, <1>16
  <2>4. /\ \A rule : Clear(rule) => Tied(rule)
        /\ \A n : Tied(EscrowA!TokensRule(n, "guestProfile"))
        /\ \A n : Tied(EscrowA!TokensRule(n, "hostProfile"))
        /\ Tied(EscrowA!Mut("guestReputation", EscrowA!ReputationProfile,
             {EscrowA!ReputationBy("guestProfile")}))
        /\ Tied(EscrowA!Mut("hostReputation", EscrowA!ReputationProfile,
             {EscrowA!ReputationBy("hostProfile")}))
        /\ Tied(EscrowA!Unchecked("treasuryPda", {}))
    BY <1>20, <2>3
  <2>5. \A i \in DOMAIN L : Tied(L[i])
    <3> DEFINE X == {EscrowA!MutSigns("caller", {EscrowA!Held("hostProfile", "authority")}),
                     EscrowA!PartyRule("guestProfile", "guest"),
                     EscrowA!MutPartyRule("hostProfile", "host"),
                     EscrowA!Mut("hostReputation", EscrowA!ReputationProfile,
                       {EscrowA!ReputationBy("hostProfile")}),
                     EscrowA!BookingRule, EscrowA!DaysRule, EscrowA!NextDaysRule,
                     EscrowA!GlobalConfigRule, EscrowA!OwnTokensRule,
                     EscrowA!TokensRule("guestTokenAccount", "guestProfile"),
                     EscrowA!MutMintRule("mint"), EscrowA!AuthorityRule,
                     EscrowA!Ro("treasuryConfig", EscrowA!TreasuryConfigAcc,
                       {EscrowA!TreasuryConfigPda}),
                     EscrowA!Mut("treasuryVault", EscrowA!TokenAccount,
                       {EscrowA!Held("treasuryConfig", "treasuryVault")}),
                     EscrowA!Unchecked("treasuryPda", {}), EscrowA!CoreProgramRule,
                     EscrowA!ProgramRule("staykeTreasuryProgram", "treasury"),
                     EscrowA!TokenRule}
    <3>1. \A rule \in X : Tied(rule)
      BY SMTT(60), <1>17, <1>18, <2>4
    <3>2. <<EscrowA!MutSigns("caller", {EscrowA!Held("hostProfile", "authority")}),
             EscrowA!PartyRule("guestProfile", "guest"),
             EscrowA!MutPartyRule("hostProfile", "host"),
             EscrowA!Mut("hostReputation", EscrowA!ReputationProfile,
               {EscrowA!ReputationBy("hostProfile")}),
             EscrowA!BookingRule>> \in Seq(X)
      OBVIOUS
    <3>3. <<EscrowA!DaysRule, EscrowA!NextDaysRule>> \in Seq(X)
      OBVIOUS
    <3>4. <<EscrowA!GlobalConfigRule, EscrowA!OwnTokensRule,
             EscrowA!TokensRule("guestTokenAccount", "guestProfile"),
             EscrowA!MutMintRule("mint"), EscrowA!AuthorityRule,
             EscrowA!Ro("treasuryConfig", EscrowA!TreasuryConfigAcc,
               {EscrowA!TreasuryConfigPda}),
             EscrowA!Mut("treasuryVault", EscrowA!TokenAccount, {EscrowA!Held("treasuryConfig",
               "treasuryVault")}),
             EscrowA!Unchecked("treasuryPda", {}), EscrowA!CoreProgramRule,
             EscrowA!ProgramRule("staykeTreasuryProgram", "treasury"),
               EscrowA!TokenRule>> \in Seq(X)
      OBVIOUS
    <3> HIDE DEF X
    <3>5. L \in Seq(X)
      BY <3>2, <3>3, <3>4, Joining DEF EscrowA!HostCancelBookingCrossYear,
        EscrowA!HostCancelBookingWith
    <3> QED BY <3>1, <3>5
  <2> QED BY <2>1, <2>2, <2>5 DEF Joined
<1>33. Joined("hostRejectBooking", EscrowA!HostRejectBooking, {"guest"})
  <2> DEFINE L == EscrowA!HostRejectBooking
         N == {"guest"}
         Tied(rule) == Bound("hostRejectBooking", rule, N)
  <2>1. 5 \in DOMAIN L /\ IsStay(L[5])
    BY <1>21, <1>22 DEF EscrowA!HostRejectBooking, EscrowA!Rejection
  <2>2. /\ 4 \in DOMAIN L /\ L[4].name = "guest" /\ OfParty(L[4])
    BY <1>10 DEF EscrowA!HostRejectBooking, EscrowA!Rejection
  <2>3. /\ \A n : OfOwner(EscrowA!TokensRule(n, "guest"), N)
    BY <1>15, <1>16
  <2>4. /\ \A rule : Clear(rule) => Tied(rule)
        /\ \A n : Tied(EscrowA!TokensRule(n, "guest"))
    BY <1>20, <2>3
  <2>5. \A i \in DOMAIN L : Tied(L[i])
    <3> DEFINE X == {EscrowA!CreditedSigns("payer", {}), EscrowA!Signs("host", {}),
                     EscrowA!Ro("hostProfile", EscrowA!UserProfile, {EscrowA!ProfileOf("host"),
                       EscrowA!Held("booking", "host")}),
                     EscrowA!PartyRule("guest", "guest"),
                     EscrowA!Closed("booking", EscrowA!Booking, {EscrowA!BookingBy("booking")}),
                     EscrowA!DaysRule, EscrowA!GlobalConfigRule, EscrowA!OwnTokensRule,
                     EscrowA!TokensRule("guestTokenAccount", "guest"),
                     EscrowA!MintRule("mint"), EscrowA!TokenRule}
    <3>1. \A rule \in X : Tied(rule)
      BY SMTT(60), <1>17, <1>18, <2>4
    <3>2. <<EscrowA!CreditedSigns("payer", {})>> \in Seq(X)
      OBVIOUS
    <3>3. <<EscrowA!Signs("host", {}),
             EscrowA!Ro("hostProfile", EscrowA!UserProfile, {EscrowA!ProfileOf("host"),
               EscrowA!Held("booking", "host")}),
             EscrowA!PartyRule("guest", "guest"),
             EscrowA!Closed("booking", EscrowA!Booking,
               {EscrowA!BookingBy("booking")})>> \in Seq(X)
      OBVIOUS
    <3>4. <<EscrowA!DaysRule>> \in Seq(X)
      OBVIOUS
    <3>5. <<EscrowA!GlobalConfigRule, EscrowA!OwnTokensRule,
             EscrowA!TokensRule("guestTokenAccount", "guest"), EscrowA!MintRule("mint"),
             EscrowA!TokenRule>> \in Seq(X)
      OBVIOUS
    <3> HIDE DEF X
    <3>6. EscrowA!Rejection(<<EscrowA!DaysRule>>) \in Seq(X)
      BY <3>3, <3>4, <3>5, Joining DEF EscrowA!Rejection
    <3>7. L \in Seq(X)
      BY <3>2, <3>6, Joining DEF EscrowA!HostRejectBooking
    <3> QED BY <3>1, <3>7
  <2> QED BY <2>1, <2>2, <2>5 DEF Joined
<1>34. Joined("hostRejectBookingCrossYear", EscrowA!HostRejectBookingCrossYear, {"guest"})
  <2> DEFINE L == EscrowA!HostRejectBookingCrossYear
         N == {"guest"}
         Tied(rule) == Bound("hostRejectBookingCrossYear", rule, N)
  <2>1. 5 \in DOMAIN L /\ IsStay(L[5])
    BY <1>21, <1>22 DEF EscrowA!HostRejectBookingCrossYear, EscrowA!Rejection
  <2>2. /\ 4 \in DOMAIN L /\ L[4].name = "guest" /\ OfParty(L[4])
    BY <1>10 DEF EscrowA!HostRejectBookingCrossYear, EscrowA!Rejection
  <2>3. /\ \A n : OfOwner(EscrowA!TokensRule(n, "guest"), N)
    BY <1>15, <1>16
  <2>4. /\ \A rule : Clear(rule) => Tied(rule)
        /\ \A n : Tied(EscrowA!TokensRule(n, "guest"))
    BY <1>20, <2>3
  <2>5. \A i \in DOMAIN L : Tied(L[i])
    <3> DEFINE X == {EscrowA!MutSigns("payer", {}), EscrowA!Signs("host", {}),
                     EscrowA!Ro("hostProfile", EscrowA!UserProfile, {EscrowA!ProfileOf("host"),
                       EscrowA!Held("booking", "host")}),
                     EscrowA!PartyRule("guest", "guest"),
                     EscrowA!Closed("booking", EscrowA!Booking, {EscrowA!BookingBy("booking")}),
                     EscrowA!DaysRule, EscrowA!NextDaysRule, EscrowA!GlobalConfigRule,
                     EscrowA!OwnTokensRule,
                     EscrowA!TokensRule("guestTokenAccount", "guest"),
                     EscrowA!MintRule("mint"), EscrowA!TokenRule}
    <3>1. \A rule \in X : Tied(rule)
      BY SMTT(60), <1>17, <1>18, <2>4
    <3>2. <<EscrowA!MutSigns("payer", {})>> \in Seq(X)
      OBVIOUS
    <3>3. <<EscrowA!Signs("host", {}),
             EscrowA!Ro("hostProfile", EscrowA!UserProfile, {EscrowA!ProfileOf("host"),
               EscrowA!Held("booking", "host")}),
             EscrowA!PartyRule("guest", "guest"),
             EscrowA!Closed("booking", EscrowA!Booking,
               {EscrowA!BookingBy("booking")})>> \in Seq(X)
      OBVIOUS
    <3>4. <<EscrowA!DaysRule, EscrowA!NextDaysRule>> \in Seq(X)
      OBVIOUS
    <3>5. <<EscrowA!GlobalConfigRule, EscrowA!OwnTokensRule,
             EscrowA!TokensRule("guestTokenAccount", "guest"), EscrowA!MintRule("mint"),
             EscrowA!TokenRule>> \in Seq(X)
      OBVIOUS
    <3> HIDE DEF X
    <3>6. EscrowA!Rejection(<<EscrowA!DaysRule, EscrowA!NextDaysRule>>) \in Seq(X)
      BY <3>3, <3>4, <3>5, Joining DEF EscrowA!Rejection
    <3>7. L \in Seq(X)
      BY <3>2, <3>6, Joining DEF EscrowA!HostRejectBookingCrossYear
    <3> QED BY <3>1, <3>7
  <2> QED BY <2>1, <2>2, <2>5 DEF Joined
<1>35. Joined("hostReview", EscrowA!HostReview, {"guestProfile"})
  <2> DEFINE L == EscrowA!HostReview
         N == {"guestProfile"}
         Tied(rule) == Bound("hostReview", rule, N)
  <2>1. 5 \in DOMAIN L /\ IsStay(L[5])
    BY <1>21, <1>22 DEF EscrowA!HostReview
  <2>2. /\ 3 \in DOMAIN L /\ L[3].name = "guestProfile" /\ OfParty(L[3])
    BY <1>10 DEF EscrowA!HostReview
  <2>3. /\ \A n : OfOwner(EscrowA!TokensRule(n, "guestProfile"), N)
        /\ OfOwner(EscrowA!Mut("guestReputation", EscrowA!ReputationProfile,
             {EscrowA!ReputationBy("guestProfile")}), N)
    BY <1>15, <1>16
  <2>4. /\ \A rule : Clear(rule) => Tied(rule)
        /\ \A n : Tied(EscrowA!TokensRule(n, "guestProfile"))
        /\ Tied(EscrowA!Mut("guestReputation", EscrowA!ReputationProfile,
             {EscrowA!ReputationBy("guestProfile")}))
    BY <1>20, <2>3
  <2>5. \A i \in DOMAIN L : Tied(L[i])
    BY SMTT(60), <1>17, <1>18, <2>4
    DEF EscrowA!HostReview
  <2> QED BY <2>1, <2>2, <2>5 DEF Joined
<1>36. Joined("releaseFunds", EscrowA!ReleaseFunds, {"hostProfile"})
  <2> DEFINE L == EscrowA!ReleaseFunds
         N == {"hostProfile"}
         Tied(rule) == Bound("releaseFunds", rule, N)
  <2>1. 4 \in DOMAIN L /\ IsStay(L[4])
    BY <1>21, <1>22 DEF EscrowA!ReleaseFunds
  <2>2. /\ 3 \in DOMAIN L /\ L[3].name = "hostProfile" /\ OfParty(L[3])
    BY <1>10 DEF EscrowA!ReleaseFunds
  <2>3. /\ \A n : OfOwner(EscrowA!TokensRule(n, "hostProfile"), N)
        /\ OfOwner(EscrowA!Mut("hostReputation", EscrowA!ReputationProfile,
             {EscrowA!ReputationBy("hostProfile")}), N)
    BY <1>15, <1>16
  <2>4. /\ \A rule : Clear(rule) => Tied(rule)
        /\ \A n : Tied(EscrowA!TokensRule(n, "hostProfile"))
        /\ Tied(EscrowA!Mut("hostReputation", EscrowA!ReputationProfile,
             {EscrowA!ReputationBy("hostProfile")}))
    BY <1>20, <2>3
  <2>5. \A i \in DOMAIN L : Tied(L[i])
    BY SMTT(60), <1>17, <1>18, <2>4
    DEF EscrowA!ReleaseFunds
  <2> QED BY <2>1, <2>2, <2>5 DEF Joined
<1> HIDE DEF Joined
<1> QED BY <1>23, <1>24, <1>25, <1>26, <1>27, <1>28, <1>29, <1>30, <1>31, <1>32, <1>33,
       <1>34, <1>35, <1>36
  DEF Ops, Demands, EscrowA!Rules

LEMMA DisputesJoined ==
  /\ \A op \in Ops("disputes") \ {"addAdmin", "deleteAdmin", "escalateDispute",
                                  "initializeConfig"} :
       \E profiles : Joined(op, DisputesA!Rules[op], profiles)
  /\ Joined("resolveWithoutFault", DisputesA!ResolveWithoutFault, {"guestProfile", "hostProfile"})
<1>1. \A n, at : Aloof(DisputesA!Signs(n, at)) /\ Aloof(DisputesA!MutSigns(n, at))
  BY DEF Aloof, DisputesA!Signs, DisputesA!MutSigns, DisputesA!Rule
<1>2. /\ DisputesA!Booking \cap StayTypes = {}
      /\ DisputesA!GlobalConfigAcc \cap StayTypes = {}
      /\ DisputesA!MintType \cap StayTypes = {}
      /\ DisputesA!TreasuryConfigAcc \cap StayTypes = {}
      /\ DisputesA!DisputeConfig \cap StayTypes = {}
      /\ DisputesA!SignerType \cap StayTypes = {}
  BY StaylessTypes DEF Booking, DisputesA!Booking, GlobalConfigAcc,
       DisputesA!GlobalConfigAcc, MintType, DisputesA!MintType, TreasuryConfigAcc,
       DisputesA!TreasuryConfigAcc, DisputeConfig, DisputesA!DisputeConfig, SignerType,
       DisputesA!SignerType
<1>3. \A type : type \cap StayTypes = {} =>
        \A n, at : Aloof(DisputesA!Ro(n, type, at)) /\ Aloof(DisputesA!Mut(n, type, at))
                     /\ Aloof(DisputesA!Closed(n, type, at))
  BY DEF Aloof, DisputesA!Ro, DisputesA!Mut, DisputesA!Closed, DisputesA!Rule
<1>4. /\ Aloof(DisputesA!GlobalConfigRule)
      /\ Aloof(DisputesA!BookingRule)
      /\ \A n : Aloof(DisputesA!MutMintRule(n))
      /\ \A n : Aloof(DisputesA!DisputeConfigRule(n))
  BY <1>2, <1>3 DEF DisputesA!GlobalConfigRule, DisputesA!BookingRule,
       DisputesA!MutMintRule, DisputesA!DisputeConfigRule
<1>5. \A n, p : Aloof(DisputesA!ProgramRule(n, p))
  BY DEF Aloof, DisputesA!ProgramRule, DisputesA!Unchecked, DisputesA!Rule,
       DisputesA!Fixed, DisputesA!Derivation
<1>6. Aloof(DisputesA!SystemRule) /\ Aloof(DisputesA!TokenRule)
        /\ Aloof(DisputesA!CoreProgramRule) /\ Aloof(DisputesA!EscrowProgramRule)
  BY <1>5 DEF DisputesA!SystemRule, DisputesA!TokenRule, DisputesA!CoreProgramRule,
       DisputesA!EscrowProgramRule
<1>7. \A n, t : \A d \in {DisputesA!CpiAuthority("escrow"), DisputesA!CpiAuthority("disputes"),
                  DisputesA!TreasuryPda,
                      DisputesA!Held("globalConfig", "platformVault"),
                      DisputesA!Held("treasuryConfig", "treasuryVault"),
                      DisputesA!Held("configTreasury", "treasuryVault")} :
        Aloof(DisputesA!Mut(n, t, {d})) /\ Aloof(DisputesA!Unchecked(n, {d}))
  BY DEF Aloof, DisputesA!Mut, DisputesA!Unchecked, DisputesA!Rule, CpiAuthority,
       DisputesA!CpiAuthority, TreasuryPda, DisputesA!TreasuryPda, Held, DisputesA!Held,
       Derivation, DisputesA!Derivation, Field, DisputesA!Field, Lit, DisputesA!Lit
<1>8. Aloof(DisputesA!AuthorityRule) /\ \A n : Aloof(DisputesA!VaultRule(n))
  BY <1>7 DEF DisputesA!AuthorityRule, DisputesA!VaultRule
<1>9. \A n, d : \A role \in {"guest", "host"} :
        /\ OfParty(DisputesA!Ro(n, DisputesA!UserProfile, {d, DisputesA!Held("booking", role)}))
        /\ OfParty(DisputesA!Mut(n, DisputesA!UserProfile, {d, DisputesA!Held("booking",
             role)}))
  BY DEF OfParty, DisputesA!Ro, DisputesA!Mut, DisputesA!Rule, UserProfile,
       DisputesA!UserProfile, Held, DisputesA!Held, Derivation, DisputesA!Derivation,
       Field, DisputesA!Field
<1>10. \A n : \A role \in {"guest", "host"} :
        OfParty(DisputesA!PartyRule(n, role)) /\ DisputesA!PartyRule(n, role).name = n
  BY <1>9 DEF DisputesA!PartyRule, DisputesA!Mut, DisputesA!Rule
<1>11. \A n, t : \A d \in {DisputesA!EscrowTokensOf("booking"),
                   DisputesA!DisputeOf("booking")} :
        /\ OfBooking(DisputesA!Mut(n, t, {d})) /\ OfBooking(DisputesA!Closed(n, t, {d}))
        /\ OfBooking(DisputesA!New(n, t, {d})) /\ OfBooking(DisputesA!Ro(n, t, {d}))
  BY DEF OfBooking, DisputesA!Mut, DisputesA!Closed, DisputesA!New, DisputesA!Ro,
       DisputesA!Rule, EscrowTokensOf, DisputesA!EscrowTokensOf, DisputeOf,
       DisputesA!DisputeOf, Derivation, DisputesA!Derivation, Lit, DisputesA!Lit, Key,
       DisputesA!Key
<1>12. \A n, at : OfParty(DisputesA!OneOf({DisputesA!Held("booking", "guest"),
                    DisputesA!Held("booking", "host")},
                          DisputesA!Ro(n, DisputesA!UserProfile, at)))
  BY DEF OfParty, DisputesA!OneOf, DisputesA!Ro, DisputesA!Rule, UserProfile,
       DisputesA!UserProfile, Held, DisputesA!Held, Derivation, DisputesA!Derivation,
       Field, DisputesA!Field
<1>13. \A ds, rule : Aloof(rule) => Aloof(DisputesA!OneOf(ds, rule))
  BY DEF Aloof, DisputesA!OneOf
<1>14. DisputesA!Mut("dispute", DisputesA!DisputeAccount,
         {DisputesA!DisputeBy("dispute")}).name = "dispute"
  BY DEF DisputesA!Mut, DisputesA!Rule
<1>15. \A p : DisputesA!ReputationBy(p) = ReputationBy(p) /\ DisputesA!TokensBy(p) = TokensBy(p)
  BY DEF ReputationBy, DisputesA!ReputationBy, TokensBy, DisputesA!TokensBy, Derivation,
       DisputesA!Derivation, Lit, DisputesA!Lit, Field, DisputesA!Field
<1>16. \A n, t, profiles : \A p \in profiles :
        /\ OfOwner(DisputesA!Mut(n, t, {DisputesA!ReputationBy(p)}), profiles)
        /\ OfOwner(DisputesA!Mut(n, t, {DisputesA!TokensBy(p)}), profiles)
  BY <1>15 DEF OfOwner, Belongs, DisputesA!Mut, DisputesA!Rule
<1>17. \A profiles : \A p, q \in profiles : \A rule :
        OfOwner(DisputesA!OneOf({DisputesA!ReputationBy(p), DisputesA!ReputationBy(q)}, rule),
          profiles)
  BY <1>15 DEF OfOwner, Belongs, DisputesA!OneOf
<1>18. /\ \A n, at : Clear(DisputesA!Signs(n, at)) /\ Clear(DisputesA!MutSigns(n, at))
       /\ Clear(DisputesA!BookingRule) /\ Clear(DisputesA!GlobalConfigRule)
            /\ Clear(DisputesA!AuthorityRule)
       /\ Clear(DisputesA!TokenRule) /\ Clear(DisputesA!SystemRule)
            /\ Clear(DisputesA!CoreProgramRule)
       /\ Clear(DisputesA!EscrowProgramRule)
       /\ \A n : Clear(DisputesA!DisputeConfigRule(n)) /\ Clear(DisputesA!MutMintRule(n))
                   /\ Clear(DisputesA!VaultRule(n))
       /\ \A n, p : Clear(DisputesA!ProgramRule(n, p))
       /\ \A n : Clear(DisputesA!PartyRule(n, "guest")) /\ Clear(DisputesA!PartyRule(n, "host"))
  BY <1>1, <1>4, <1>5, <1>6, <1>8, <1>10, Zenon DEF Clear
<1>19. /\ Clear(DisputesA!Ro("booking", DisputesA!Booking, {DisputesA!BookingBy("booking")}))
       /\ Clear(DisputesA!Ro("dispute", DisputesA!DisputeAccount,
            {DisputesA!DisputeOf("booking")}))
            /\ Clear(DisputesA!New("dispute", DisputesA!DisputeAccount,
            {DisputesA!DisputeOf("booking")}))
       /\ Clear(DisputesA!Mut("dispute", DisputesA!DisputeAccount,
            {DisputesA!DisputeOf("booking")}))
            /\ Clear(DisputesA!Closed("dispute", DisputesA!DisputeAccount,
            {DisputesA!DisputeOf("booking")}))
       /\ Clear(DisputesA!Closed("escrowTokenAccount", DisputesA!TokenAccount,
            {DisputesA!EscrowTokensOf("booking")}))
       /\ Clear(DisputesA!Ro("configTreasury", DisputesA!TreasuryConfigAcc,
            {DisputesA!TreasuryConfigPda}))
       /\ Clear(DisputesA!Mut("treasuryVault", DisputesA!TokenAccount,
            {DisputesA!Held("configTreasury", "treasuryVault")}))
       /\ Clear(DisputesA!Unchecked("treasuryPda", {DisputesA!TreasuryPda}))
  BY <1>2, <1>3, <1>7, <1>11 DEF Clear
<1>20. Clear(DisputesA!OneOf({DisputesA!Held("guestProfile", "authority"),
         DisputesA!Held("hostProfile", "authority")},
                  DisputesA!Mut("openerWallet", DisputesA!SignerType, {})))
  BY <1>2, <1>3, <1>13 DEF Clear
<1>21. \A n, at : Clear(DisputesA!OneOf({DisputesA!Held("booking", "guest"),
                    DisputesA!Held("booking", "host")},
                          DisputesA!Ro(n, DisputesA!UserProfile, at)))
  BY <1>12 DEF Clear
<1> DEFINE FreeTokens == DisputesA!Mut("escrowTokenAccount", DisputesA!TokenAccount, {})
<1>22. /\ \A op, rule, profiles : Clear(rule) \/ OfOwner(rule, profiles) => Bound(op, rule,
                                    profiles)
       /\ \A profiles : Bound("solveDisputeBeforeAdmin", DisputesA!Mut("dispute",
                          DisputesA!DisputeAccount, {DisputesA!DisputeBy("dispute")}), profiles)
       /\ \A profiles : /\ Bound("resolveWithoutFault", DisputesA!GuiltyReputation, profiles)
                        /\ Bound("resolveWithoutFault", FreeTokens, profiles)
  BY <1>14 DEF Bound, LeftFree, DisputesA!GuiltyReputation, DisputesA!Mut, DisputesA!Rule
<1>23. \A at : /\ IsStay(DisputesA!Mut("booking", DisputesA!Booking, at))
              /\ IsStay(DisputesA!Closed("booking", DisputesA!Booking, at))
              /\ IsStay(DisputesA!Ro("booking", DisputesA!Booking, at))
  BY DEF IsStay, DisputesA!Mut, DisputesA!Closed, DisputesA!Ro, DisputesA!Rule, Booking,
       DisputesA!Booking
<1>24. IsStay(DisputesA!BookingRule)
  BY <1>23 DEF DisputesA!BookingRule
<1> HIDE DEF Aloof, OfParty, OfBooking, OfOwner, Clear, IsStay
<1>25. Joined("closeDispute", DisputesA!CloseDispute, {})
  <2> DEFINE L == DisputesA!CloseDispute
         Tied(rule) == Bound("closeDispute", rule, {})
  <2>1. 2 \in DOMAIN L /\ IsStay(L[2])
    BY <1>23, <1>24 DEF DisputesA!CloseDispute
  <2>2. \A rule : Clear(rule) => Tied(rule)
    BY <1>22
  <2>3. \A i \in DOMAIN L : Tied(L[i])
    BY SMTT(60), <1>18, <1>19, <1>20, <1>21, <2>2
    DEF DisputesA!CloseDispute
  <2> QED BY <2>1, <2>3 DEF Joined
<1>26. Joined("linkEvidente", DisputesA!LinkEvidence, {})
  <2> DEFINE L == DisputesA!LinkEvidence
         Tied(rule) == Bound("linkEvidente", rule, {})
  <2>1. 3 \in DOMAIN L /\ IsStay(L[3])
    BY <1>23, <1>24 DEF DisputesA!LinkEvidence
  <2>2. \A rule : Clear(rule) => Tied(rule)
    BY <1>22
  <2>3. \A i \in DOMAIN L : Tied(L[i])
    BY SMTT(60), <1>18, <1>19, <1>20, <1>21, <2>2
    DEF DisputesA!LinkEvidence
  <2> QED BY <2>1, <2>3 DEF Joined
<1>27. Joined("openDispute", DisputesA!OpenDispute, {})
  <2> DEFINE L == DisputesA!OpenDispute
         Tied(rule) == Bound("openDispute", rule, {})
  <2>1. 4 \in DOMAIN L /\ IsStay(L[4])
    BY <1>23, <1>24 DEF DisputesA!OpenDispute
  <2>2. \A rule : Clear(rule) => Tied(rule)
    BY <1>22
  <2>3. \A i \in DOMAIN L : Tied(L[i])
    BY SMTT(60), <1>18, <1>19, <1>20, <1>21, <2>2
    DEF DisputesA!OpenDispute
  <2> QED BY <2>1, <2>3 DEF Joined
<1>28. Joined("resolveDispute", DisputesA!ResolveDispute, {"guestProfile", "hostProfile"})
  <2> DEFINE L == DisputesA!ResolveDispute
         N == {"guestProfile", "hostProfile"}
         Tied(rule) == Bound("resolveDispute", rule, N)
  <2>1. 4 \in DOMAIN L /\ IsStay(L[4])
    BY <1>23, <1>24 DEF DisputesA!ResolveDispute, DisputesA!ResolveDisputeWith
  <2>2. /\ 6 \in DOMAIN L /\ L[6].name = "guestProfile" /\ OfParty(L[6])
        /\ 5 \in DOMAIN L /\ L[5].name = "hostProfile" /\ OfParty(L[5])
    BY <1>10 DEF DisputesA!ResolveDispute, DisputesA!ResolveDisputeWith
  <2>3. /\ OfOwner(DisputesA!Mut("guestTokenAccount", DisputesA!TokenAccount,
             {DisputesA!TokensBy("guestProfile")}), N)
        /\ OfOwner(DisputesA!Mut("hostTokenAccount", DisputesA!TokenAccount,
             {DisputesA!TokensBy("hostProfile")}), N)
        /\ \A rule : OfOwner(DisputesA!OneOf({DisputesA!ReputationBy("guestProfile"),
                       DisputesA!ReputationBy("hostProfile")}, rule), N)
    BY <1>16, <1>17
  <2>4. /\ \A rule : Clear(rule) => Tied(rule)
        /\ Tied(DisputesA!Mut("guestTokenAccount", DisputesA!TokenAccount,
             {DisputesA!TokensBy("guestProfile")}))
        /\ Tied(DisputesA!Mut("hostTokenAccount", DisputesA!TokenAccount,
             {DisputesA!TokensBy("hostProfile")}))
        /\ \A rule : Tied(DisputesA!OneOf({DisputesA!ReputationBy("guestProfile"),
                       DisputesA!ReputationBy("hostProfile")}, rule))
    BY <1>22, <2>3
  <2>5. \A i \in DOMAIN L : Tied(L[i])
    BY SMTT(60), <1>18, <1>19, <1>20, <1>21, <2>4
    DEF DisputesA!ResolveDispute, DisputesA!ResolveDisputeWith
  <2> QED BY <2>1, <2>2, <2>5 DEF Joined
<1>30. Joined("resolveWithoutFault", DisputesA!ResolveWithoutFault, {"guestProfile", "hostProfile"})
  <2> DEFINE L == DisputesA!ResolveWithoutFault
         N == {"guestProfile", "hostProfile"}
         Tied(rule) == Bound("resolveWithoutFault", rule, N)
  <2>1. 4 \in DOMAIN L /\ IsStay(L[4])
    BY <1>23, <1>24 DEF DisputesA!ResolveWithoutFault, DisputesA!ResolveDisputeWith
  <2>2. /\ 6 \in DOMAIN L /\ L[6].name = "guestProfile" /\ OfParty(L[6])
        /\ 5 \in DOMAIN L /\ L[5].name = "hostProfile" /\ OfParty(L[5])
    BY <1>10 DEF DisputesA!ResolveWithoutFault, DisputesA!ResolveDisputeWith
  <2>3. /\ OfOwner(DisputesA!Mut("guestTokenAccount", DisputesA!TokenAccount,
             {DisputesA!TokensBy("guestProfile")}), N)
        /\ OfOwner(DisputesA!Mut("hostTokenAccount", DisputesA!TokenAccount,
             {DisputesA!TokensBy("hostProfile")}), N)
    BY <1>16, <1>17
  <2>4. /\ \A rule : Clear(rule) => Tied(rule)
        /\ Tied(DisputesA!Mut("guestTokenAccount", DisputesA!TokenAccount,
             {DisputesA!TokensBy("guestProfile")}))
        /\ Tied(DisputesA!Mut("hostTokenAccount", DisputesA!TokenAccount,
             {DisputesA!TokensBy("hostProfile")}))
        /\ Tied(DisputesA!GuiltyReputation) /\ Tied(FreeTokens)
    BY <1>22, <2>3
  <2>5. \A i \in DOMAIN L : Tied(L[i])
    BY SMTT(60), <1>18, <1>19, <1>20, <1>21, <2>4
    DEF DisputesA!ResolveWithoutFault, DisputesA!ResolveDisputeWith
  <2> QED BY <2>1, <2>2, <2>5 DEF Joined
<1>29. Joined("solveDisputeBeforeAdmin", DisputesA!SolveDisputeBeforeAdmin, {})
  <2> DEFINE L == DisputesA!SolveDisputeBeforeAdmin
         Tied(rule) == Bound("solveDisputeBeforeAdmin", rule, {})
  <2>1. 4 \in DOMAIN L /\ IsStay(L[4])
    BY <1>23, <1>24 DEF DisputesA!SolveDisputeBeforeAdmin
  <2>2. /\ \A rule : Clear(rule) => Tied(rule)
        /\ Tied(DisputesA!Mut("dispute", DisputesA!DisputeAccount,
             {DisputesA!DisputeBy("dispute")}))
    BY <1>22
  <2>3. \A i \in DOMAIN L : Tied(L[i])
    BY SMTT(60), <1>18, <1>19, <1>20, <1>21, <2>2
    DEF DisputesA!SolveDisputeBeforeAdmin
  <2> QED BY <2>1, <2>3 DEF Joined
<1> HIDE DEF Joined
<1> QED BY <1>25, <1>26, <1>27, <1>28, <1>29, <1>30
  DEF Ops, Demands, DisputesA!Rules

-----------------------------------------------------------------------------
(***************************************************************************)
(* A booking is created at the address that tells whose stay it is.        *)
(***************************************************************************)
\* What a booking at such an address holds.
LEMMA CreatedHolds ==
  ASSUME NEW accounts, NEW args
  PROVE  LET b == Derive(BookingOf(Key("property"), Key("clientProfile"), Arg("i64", "checkIn")),
                         accounts, args)
         IN /\ IsBooking(b)
            /\ Data(b, "property") = accounts["property"]
            /\ Data(b, "guest") = accounts["clientProfile"]
            /\ Data(b, "host") = Owner(accounts["property"])
<1> DEFINE d == BookingOf(Key("property"), Key("clientProfile"), Arg("i64", "checkIn"))
<1> DEFINE b == Derive(d, accounts, args)
<1>1. /\ d.program = "escrow" /\ DOMAIN d.seeds = 1..4
      /\ d.seeds[2] = <<"key", "property">> /\ d.seeds[3] = <<"key", "clientProfile">>
  BY DEF BookingOf, Derivation, Key
<1>2. IsBooking(b)
  BY StayType
<1> HIDE DEF d
<1>3. b.seeds[2] = SeedValue(d.seeds[2], accounts, args)
      /\ b.seeds[3] = SeedValue(d.seeds[3], accounts, args)
  BY <1>1 DEF Derive, Address
<1> HIDE DEF b
<1>4. b.seeds[2] = <<"key", accounts["property"]>>
  BY <1>1, <1>3 DEF SeedValue
<1>5. b.seeds[3] = <<"key", accounts["clientProfile"]>>
  BY <1>1, <1>3 DEF SeedValue
<1>6. /\ Data(b, "property") = Seed(b, 2) /\ Data(b, "guest") = Seed(b, 3)
      /\ Data(b, "host") = Owner(Seed(b, 2))
  BY DEF Data
<1>7. Seed(b, 2) = accounts["property"] /\ Seed(b, 3) = accounts["clientProfile"]
  BY <1>4, <1>5 DEF Seed
<1> QED BY <1>2, <1>6, <1>7 DEF b, d

\* The owners of a listing and of a profile.
LEMMA ListingOwner ==
  ASSUME NEW accounts, NEW args
  PROVE  Owner(Derive(SameListing("hostProfile", "property"), accounts, args))
           = accounts["hostProfile"]
<1> DEFINE d == SameListing("hostProfile", "property")
<1> DEFINE a == Derive(d, accounts, args)
<1>1. d.program = "core" /\ DOMAIN d.seeds = 1..3 /\ d.seeds[2] = <<"key", "hostProfile">>
  BY DEF SameListing, ListingAt, Derivation, Key
<1> HIDE DEF d
<1>2. a.seeds[2] = SeedValue(d.seeds[2], accounts, args)
  BY <1>1 DEF Derive, Address
<1> HIDE DEF a
<1>3. a.seeds[2] = <<"key", accounts["hostProfile"]>>
  BY <1>1, <1>2 DEF SeedValue
<1>4. Owner(a) = accounts["hostProfile"]
  BY <1>3 DEF Owner, Seed
<1> QED BY <1>4 DEF a, d

\* The profile derived from a wallet belongs to that wallet.
LEMMA ProfileOwner ==
  ASSUME NEW accounts, NEW args
  PROVE  Data(Derive(ProfileOf("client"), accounts, args), "authority") = accounts["client"]
<1> DEFINE d == ProfileOf("client")
<1> DEFINE a == Derive(d, accounts, args)
<1>1. d.program = "core" /\ d.seeds = <<Lit("user_profile"), <<"key", "client">>>>
  BY DEF ProfileOf, Derivation, Key
<1> DEFINE seeds == [i \in DOMAIN d.seeds |-> SeedValue(d.seeds[i], accounts, args)]
<1>2. a.seeds = seeds
  BY <1>1 DEF Derive, Address
<1>3. DOMAIN seeds = 1..2 /\ seeds[2] = SeedValue(<<"key", "client">>, accounts, args)
  BY <1>1
<1>4. Len(seeds) = 2
  BY <1>3
<1> HIDE DEF seeds, a, d
<1>5. a.seeds[2] = <<"key", accounts["client"]>>
  BY <1>2, <1>3 DEF SeedValue
<1>6. Data(a, "authority") = Seed(a, 2)
  BY <1>2, <1>4 DEF Data
<1> QED BY <1>5, <1>6 DEF Seed, a, d

\* What rule asks of the account in its place.
Met(rule, accounts, args, living) ==
  LET a == accounts[rule.name]
  IN /\ Lives(rule, a, living)
     /\ rule.signer => a.program = "wallet"
     /\ \A d \in rule.at : a = Derive(d, accounts, args)
     /\ rule.oneOf # {} => \E d \in rule.oneOf : a = Derive(d, accounts, args)

Creations == {EscrowA!CreateBooking, EscrowA!CreateBookingCrossYear}

\* The rules of a creation: the parties and the listing, what is of no stay,
\* and what is the booking's by where it is.
CreationParts ==
  [client |-> Ro("clientProfile", UserProfile, {ProfileOf("client")}),
   host |-> Ro("hostProfile", UserProfile, {ProfileBy("hostProfile")}),
   booking |-> New("booking", Booking,
                  {BookingOf(Key("property"), Key("clientProfile"), Arg("i64", "checkIn"))}),
   listing |-> Ro("property", Listing, {SameListing("hostProfile", "property")}),
   tokens |-> Mut("clientTokenAccount", TokenAccount, {TokensOfSigner("client")})]
Days(name, year) == Needed(name, BookingDays, {DaysOf(Key("property"), Arg(year, "checkIn"))})

\* The first of three lists comes first.
LEMMA Leading ==
  ASSUME NEW X, NEW s \in Seq(X), NEW t \in Seq(X), NEW u \in Seq(X), NEW i \in 1..Len(s)
  PROVE  i \in DOMAIN ((s \o t) \o u) /\ ((s \o t) \o u)[i] = s[i]
<1>1. s \o t \in Seq(X) /\ Len(s \o t) = Len(s) + Len(t) /\ (s \o t)[i] = s[i]
  OBVIOUS
<1>2. i \in 1..Len(s \o t) /\ Len(s) \in Nat /\ Len(t) \in Nat /\ Len(u) \in Nat
  BY <1>1
<1> DEFINE st == s \o t
<1>3. /\ st \in Seq(X) /\ i \in 1..Len(st) /\ st[i] = s[i]
  BY <1>1, <1>2
<1> HIDE DEF st
<1>4. i \in DOMAIN (st \o u) /\ (st \o u)[i] = st[i]
  BY <1>2, <1>3
<1> QED BY <1>3, <1>4 DEF st

\* The rules of both creations are these, and no others.
LEMMA CreationRules ==
  ASSUME NEW rules \in Creations
  PROVE  /\ \E i \in DOMAIN rules : rules[i] = CreationParts.client
         /\ \E i \in DOMAIN rules : rules[i] = CreationParts.booking
         /\ \E i \in DOMAIN rules : rules[i] = CreationParts.listing
         /\ \A i \in DOMAIN rules :
              \/ Aloof(rules[i]) \/ OfBooking(rules[i])
              \/ \E part \in DOMAIN CreationParts : rules[i] = CreationParts[part]
              \/ \E name : \E year \in {"year", "nextYear"} : rules[i] = Days(name, year)
<1> DEFINE X == {EscrowA!MutSigns("payer", {}), EscrowA!Signs("client", {}),
                 EscrowA!Ro("clientProfile", EscrowA!UserProfile, {EscrowA!ProfileOf("client")}),
                 EscrowA!Ro("hostProfile", EscrowA!UserProfile,
                            {EscrowA!ProfileBy("hostProfile")}),
                 EscrowA!New("booking", EscrowA!Booking,
                   {EscrowA!BookingOf(EscrowA!Key("property"), EscrowA!Key("clientProfile"),
                                      EscrowA!Arg("i64", "checkIn"))}),
                 EscrowA!Ro("property", EscrowA!Listing,
                            {EscrowA!SameListing("hostProfile", "property")}),
                 EscrowA!GlobalConfigRule, EscrowA!SystemRule,
                 EscrowA!BookedDays("bookingDays", "year"),
                 EscrowA!BookedDays("bookingDaysNext", "nextYear"),
                 EscrowA!New("escrowTokenAccount", EscrowA!TokenAccount,
                             {EscrowA!EscrowTokensOf("booking")}),
                 EscrowA!Mut("clientTokenAccount", EscrowA!TokenAccount,
                             {EscrowA!TokensOfSigner("client")}),
                 EscrowA!MintRule("mint"), EscrowA!TokenRule}
<1> DEFINE first == <<EscrowA!MutSigns("payer", {}), EscrowA!Signs("client", {}),
                 EscrowA!Ro("clientProfile", EscrowA!UserProfile, {EscrowA!ProfileOf("client")}),
                 EscrowA!Ro("hostProfile", EscrowA!UserProfile,
                            {EscrowA!ProfileBy("hostProfile")}),
                 EscrowA!New("booking", EscrowA!Booking,
                   {EscrowA!BookingOf(EscrowA!Key("property"), EscrowA!Key("clientProfile"),
                                      EscrowA!Arg("i64", "checkIn"))}),
                 EscrowA!Ro("property", EscrowA!Listing,
                            {EscrowA!SameListing("hostProfile", "property")}),
                 EscrowA!GlobalConfigRule, EscrowA!SystemRule>>
<1> DEFINE last == <<EscrowA!New("escrowTokenAccount", EscrowA!TokenAccount,
                             {EscrowA!EscrowTokensOf("booking")}),
                 EscrowA!Mut("clientTokenAccount", EscrowA!TokenAccount,
                             {EscrowA!TokensOfSigner("client")}),
                 EscrowA!MintRule("mint"), EscrowA!TokenRule>>
<1>1. PICK days \in {<<EscrowA!BookedDays("bookingDays", "year")>>,
                     <<EscrowA!BookedDays("bookingDays", "year"),
                       EscrowA!BookedDays("bookingDaysNext", "nextYear")>>} :
        rules = (first \o days) \o last
  BY DEF Creations, EscrowA!CreateBooking, EscrowA!CreateBookingCrossYear,
       EscrowA!CreateBookingWith
<1>2. first \in Seq(X)
  OBVIOUS
<1>3. /\ EscrowA!BookedDays("bookingDays", "year") \in X
      /\ EscrowA!BookedDays("bookingDaysNext", "nextYear") \in X
  OBVIOUS
<1>4. last \in Seq(X)
  OBVIOUS
<1>5. Len(first) = 8
  OBVIOUS
<1>5a. first[3] = EscrowA!Ro("clientProfile", EscrowA!UserProfile, {EscrowA!ProfileOf("client")})
  OBVIOUS
<1>5c. first[6] = EscrowA!Ro("property", EscrowA!Listing,
                            {EscrowA!SameListing("hostProfile", "property")})
  OBVIOUS
<1>5b. first[5] = EscrowA!New("booking", EscrowA!Booking,
                   {EscrowA!BookingOf(EscrowA!Key("property"), EscrowA!Key("clientProfile"),
                                      EscrowA!Arg("i64", "checkIn"))})
  OBVIOUS
<1> HIDE DEF X, first, last
<1>3a. days \in Seq(X)
  BY <1>1, <1>3
<1>6. first \o days \in Seq(X) /\ rules \in Seq(X)
  BY <1>1, <1>2, <1>3a, <1>4, Joining
<1>7. ASSUME NEW i \in 1..8
      PROVE  i \in DOMAIN rules /\ rules[i] = first[i]
  <2>1. i \in 1..Len(first)
    BY <1>5
  <2>2. /\ i \in DOMAIN ((first \o days) \o last)
        /\ ((first \o days) \o last)[i] = first[i]
    BY <1>2, <1>3a, <1>4, <2>1, Leading
  <2> QED BY <1>1, <2>2
<1>8. /\ EscrowA!Ro("clientProfile", EscrowA!UserProfile, {EscrowA!ProfileOf("client")})
           = CreationParts.client
      /\ EscrowA!Ro("hostProfile", EscrowA!UserProfile, {EscrowA!ProfileBy("hostProfile")})
           = CreationParts.host
      /\ EscrowA!New("booking", EscrowA!Booking,
                   {EscrowA!BookingOf(EscrowA!Key("property"), EscrowA!Key("clientProfile"),
                                      EscrowA!Arg("i64", "checkIn"))})
           = CreationParts.booking
      /\ EscrowA!Ro("property", EscrowA!Listing,
                    {EscrowA!SameListing("hostProfile", "property")})
           = CreationParts.listing
      /\ EscrowA!Mut("clientTokenAccount", EscrowA!TokenAccount,
                     {EscrowA!TokensOfSigner("client")})
           = CreationParts.tokens
  BY DEF CreationParts, Ro, EscrowA!Ro, New, EscrowA!New, Mut, EscrowA!Mut, Rule, EscrowA!Rule,
       UserProfile, EscrowA!UserProfile, Booking, EscrowA!Booking, Listing, EscrowA!Listing,
       TokenAccount, EscrowA!TokenAccount, ProfileOf, EscrowA!ProfileOf, ProfileBy,
       EscrowA!ProfileBy, BookingOf, EscrowA!BookingOf, SameListing, EscrowA!SameListing,
       ListingAt, EscrowA!ListingAt, TokensOfSigner, EscrowA!TokensOfSigner, Derivation,
       EscrowA!Derivation, Lit, EscrowA!Lit, Key, EscrowA!Key, Arg, EscrowA!Arg, Field,
       EscrowA!Field
<1>9. \A name, year : EscrowA!BookedDays(name, year) = Days(name, year)
  BY DEF Days, EscrowA!BookedDays, Needed, EscrowA!Needed, Rule, EscrowA!Rule, BookingDays,
       EscrowA!BookingDays, DaysOf, EscrowA!DaysOf, Derivation, EscrowA!Derivation, Lit,
       EscrowA!Lit, Key, EscrowA!Key, Arg, EscrowA!Arg
<1>10. /\ Aloof(EscrowA!MutSigns("payer", {})) /\ Aloof(EscrowA!Signs("client", {}))
  BY DEF Aloof, EscrowA!MutSigns, EscrowA!Signs, EscrowA!Rule
<1>11. Aloof(EscrowA!GlobalConfigRule) /\ Aloof(EscrowA!MintRule("mint"))
  <2>1. /\ EscrowA!GlobalConfigAcc \cap StayTypes = {} /\ EscrowA!MintType \cap StayTypes = {}
    BY StaylessTypes DEF GlobalConfigAcc, EscrowA!GlobalConfigAcc, MintType, EscrowA!MintType
  <2> QED BY <2>1 DEF Aloof, EscrowA!GlobalConfigRule, EscrowA!MintRule, EscrowA!Ro, EscrowA!Rule
<1>12. Aloof(EscrowA!SystemRule) /\ Aloof(EscrowA!TokenRule)
  BY DEF Aloof, EscrowA!SystemRule, EscrowA!TokenRule, EscrowA!ProgramRule, EscrowA!Unchecked,
       EscrowA!Rule, EscrowA!Fixed, EscrowA!Derivation
<1>13. OfBooking(EscrowA!New("escrowTokenAccount", EscrowA!TokenAccount,
                             {EscrowA!EscrowTokensOf("booking")}))
  BY DEF OfBooking, EscrowA!New, EscrowA!Rule, EscrowTokensOf, EscrowA!EscrowTokensOf,
       Derivation, EscrowA!Derivation, Lit, EscrowA!Lit, Key, EscrowA!Key
<1>14. \A part \in {"client", "host", "booking", "listing", "tokens"} : part \in DOMAIN CreationParts
  BY DEF CreationParts
<1>15. ASSUME NEW rule \in X
       PROVE  \/ Aloof(rule) \/ OfBooking(rule)
              \/ \E part \in DOMAIN CreationParts : rule = CreationParts[part]
              \/ \E name : \E year \in {"year", "nextYear"} : rule = Days(name, year)
  <2> HIDE DEF Aloof, OfBooking, CreationParts
  <2> QED BY <1>8, <1>9, <1>10, <1>11, <1>12, <1>13, <1>14, SMTT(60) DEF X
<1> HIDE DEF Aloof, OfBooking, CreationParts
<1>16. \A i \in DOMAIN rules : rules[i] \in X
  BY <1>6
<1>17. /\ 3 \in DOMAIN rules /\ rules[3] = CreationParts.client
       /\ 5 \in DOMAIN rules /\ rules[5] = CreationParts.booking
       /\ 6 \in DOMAIN rules /\ rules[6] = CreationParts.listing
  BY <1>5a, <1>5b, <1>5c, <1>7, <1>8
<1> QED BY <1>15, <1>16, <1>17

\* The two kinds of rule a creation shares with the other instructions.
LEMMA MetStay ==
  \A rule, accounts, args, living :
    (Aloof(rule) \/ OfBooking(rule)) /\ Met(rule, accounts, args, living)
      => OfStay(accounts["booking"], accounts[rule.name])
<1> SUFFICES ASSUME NEW rule, NEW accounts, NEW args, NEW living,
                    Aloof(rule) \/ OfBooking(rule), Met(rule, accounts, args, living)
             PROVE  OfStay(accounts["booking"], accounts[rule.name])
  OBVIOUS
<1> DEFINE a == accounts[rule.name]
<1>1. /\ Lives(rule, a, living) /\ (rule.signer => a.program = "wallet")
      /\ \A d \in rule.at : a = Derive(d, accounts, args)
  BY DEF Met
<1>2. CASE Aloof(rule)
  BY <1>1, <1>2, AloofStay
<1>3. CASE OfBooking(rule)
  BY <1>1, <1>3, BookingStay
<1> QED BY <1>2, <1>3

\* A creation takes accounts of the new booking's stay.
LEMMA CreationStay ==
  ASSUME NEW rules \in Creations, NEW accounts, NEW args, NEW living,
         Meets(rules, accounts, args, living), NEW i \in DOMAIN rules
  PROVE  /\ OfStay(accounts["booking"], accounts[rules[i].name])
         /\ IsBooking(accounts["booking"])
<1> DEFINE b == accounts["booking"]
<1>1. ASSUME NEW j \in DOMAIN rules
      PROVE  Met(rules[j], accounts, args, living)
  BY DEF Meets, Met
<1>2. /\ Met(CreationParts.client, accounts, args, living)
      /\ Met(CreationParts.booking, accounts, args, living)
      /\ Met(CreationParts.listing, accounts, args, living)
  BY <1>1, CreationRules
<1>3. /\ accounts["clientProfile"] = Derive(ProfileOf("client"), accounts, args)
      /\ Type(accounts["clientProfile"]) \in UserProfile
  BY <1>2 DEF Met, CreationParts, Ro, Rule, Lives
<1>4. b = Derive(BookingOf(Key("property"), Key("clientProfile"), Arg("i64", "checkIn")),
                 accounts, args)
  BY <1>2 DEF Met, CreationParts, New, Rule
<1>5. /\ accounts["property"] = Derive(SameListing("hostProfile", "property"), accounts, args)
      /\ Type(accounts["property"]) \in Listing
  BY <1>2 DEF Met, CreationParts, Ro, Rule, Lives
<1>6. /\ IsBooking(b) /\ Data(b, "property") = accounts["property"]
      /\ Parties(b) = {accounts["clientProfile"], accounts["hostProfile"]}
  <2>1. /\ IsBooking(b) /\ Data(b, "property") = accounts["property"]
        /\ Data(b, "guest") = accounts["clientProfile"]
        /\ Data(b, "host") = Owner(accounts["property"])
    BY <1>4, CreatedHolds
  <2>2. Owner(accounts["property"]) = accounts["hostProfile"]
    BY <1>5, ListingOwner
  <2> QED BY <2>1, <2>2 DEF Parties
<1>7. accounts["client"] \in Wallets(b)
  <2>1. Data(accounts["clientProfile"], "authority") = accounts["client"]
    BY <1>3, ProfileOwner
  <2> QED BY <1>6, <2>1 DEF Wallets
<1> SUFFICES OfStay(b, accounts[rules[i].name])
  BY <1>6
<1>8. CASE Aloof(rules[i]) \/ OfBooking(rules[i])
  <2>1. Met(rules[i], accounts, args, living)
    BY <1>1
  <2> QED BY <1>8, <2>1, MetStay
<1>10. CASE rules[i] = CreationParts.client
  <2>1. rules[i].name = "clientProfile"
    BY <1>10 DEF CreationParts, Ro, Rule
  <2> QED BY <1>3, <1>6, <2>1, StayByType DEF UserProfile
<1>11. CASE rules[i] = CreationParts.host
  <2>1. rules[i].name = "hostProfile" /\ Type(accounts["hostProfile"]) \in UserProfile
    BY <1>1, <1>11 DEF Met, CreationParts, Ro, Rule, Lives
  <2> QED BY <1>6, <2>1, StayByType DEF UserProfile
<1>12. CASE rules[i] = CreationParts.booking
  <2>1. rules[i].name = "booking"
    BY <1>12 DEF CreationParts, New, Rule
  <2>2. <<"escrow", "booking">>[2] = "booking"
    OBVIOUS
  <2> HIDE DEF b
  <2>3. Type(b)[2] = "booking"
    BY <1>6, <2>2, Zenon DEF IsBooking
  <2>4. Type(b) \notin StayTypes
    BY <2>3, TypesOfStays
  <2> QED BY <2>1, <2>4, OtherStay DEF b
<1>13. CASE rules[i] = CreationParts.listing
  <2>1. rules[i].name = "property"
    BY <1>13 DEF CreationParts, Ro, Rule
  <2> QED BY <1>5, <1>6, <2>1, StayByType DEF Listing
<1>14. CASE rules[i] = CreationParts.tokens
  <2> DEFINE a == accounts["clientTokenAccount"]
  <2>1. rules[i].name = "clientTokenAccount"
        /\ a = Derive(TokensOfSigner("client"), accounts, args)
    BY <1>1, <1>14 DEF Met, CreationParts, Mut, Rule
  <2>2. /\ a.program = "tokens" /\ DOMAIN a.seeds = {1}
        /\ a.seeds[1] = <<"key", accounts["client"]>>
    BY <2>1 DEF TokensOfSigner, Derivation, Key, Derive, Address, SeedValue
  <2> HIDE DEF a, b
  <2>3. {j \in DOMAIN a.seeds : a.seeds[j][1] = "lit"} = {}
    BY <2>2
  <2>4. Type(a) = <<"tokens", "">> /\ Seed(a, 1) = accounts["client"]
    BY <2>2, <2>3 DEF Type, Literal, Seed
  <2>5. OfStay(b, a)
    BY <1>7, <2>4, StayByType
  <2> QED BY <2>1, <2>5 DEF a, b
<1>15. CASE \E name : \E year \in {"year", "nextYear"} : rules[i] = Days(name, year)
  <2>0. PICK name : \E year \in {"year", "nextYear"} : rules[i] = Days(name, year)
    BY <1>15
  <2>1. PICK year \in {"year", "nextYear"} : rules[i] = Days(name, year)
    BY <2>0
  <2> DEFINE d == DaysOf(Key("property"), Arg(year, "checkIn"))
  <2> DEFINE a == accounts[name]
  <2>2. rules[i].name = name /\ a = Derive(d, accounts, args)
    BY <1>1, <2>1 DEF Met, Days, Needed, Rule
  <2>3. /\ d.program = "escrow" /\ DOMAIN d.seeds = 1..3 /\ d.seeds[1] = Lit("booking_days")
        /\ d.seeds[2] = <<"key", "property">> /\ d.seeds[3] = <<"arg", year, "checkIn">>
    BY DEF DaysOf, Derivation, Key, Arg
  <2> HIDE DEF d
  <2>4. Type(a) = <<"escrow", "booking_days">>
    BY  <2>2, <2>3, DerivedType
  <2>5. a.seeds[2] = SeedValue(d.seeds[2], accounts, args)
    BY <2>2, <2>3 DEF Derive, Address
  <2> HIDE DEF a, b
  <2>6. a.seeds[2] = <<"key", accounts["property"]>>
    BY <2>3, <2>5 DEF SeedValue
  <2>7. Seed(a, 2) = Data(b, "property")
    BY <1>6, <2>6 DEF Seed
  <2>8. OfStay(b, a)
    BY <2>3, <2>4, <2>7, StayByType
  <2> QED BY <2>2, <2>8 DEF a, b
<1>16. \A part \in DOMAIN CreationParts : part \in {"client", "host", "booking", "listing", "tokens"}
  BY DEF CreationParts
<1>17. \A part \in DOMAIN CreationParts :
         rules[i] = CreationParts[part] => OfStay(b, accounts[rules[i].name])
  BY <1>10, <1>11, <1>12, <1>13, <1>14, <1>16
<1>18. OfStay(b, accounts[rules[i].name])
  BY <1>8, <1>15, <1>17, CreationRules
<1> QED BY <1>6, <1>18

-----------------------------------------------------------------------------
(***************************************************************************)
(* What is about a booking is a creation, an entry for other programs, or  *)
(* joined to its stay.                                                     *)
(***************************************************************************)
NoStay(rules) == \A i \in DOMAIN rules : rules[i].name # "booking"

\* The instructions that have no booking among their accounts.
LEMMA NoStayRules ==
  /\ \A op \in Ops("config") : NoStay(ConfigA!Rules[op])
  /\ \A op \in Ops("core") : NoStay(CoreA!Rules[op])
  /\ \A op \in Ops("treasury") : NoStay(TreasuryA!Rules[op])
  /\ \A op \in {"addAdmin", "deleteAdmin", "escalateDispute", "initializeConfig"} :
       NoStay(DisputesA!Rules[op])
  /\ NoStay(EscrowA!Rules["initializeEscrow"])
<1>1. \A op \in Ops("config") : NoStay(ConfigA!Rules[op])
  <2> USE DEF NoStay, ConfigA!Rule, ConfigA!MutSigns, ConfigA!Signs, ConfigA!New, ConfigA!Ro,
              ConfigA!Mut, ConfigA!Unchecked, ConfigA!SystemRule, ConfigA!TokenRule,
              ConfigA!ProgramRule, ConfigA!GlobalConfigRule, ConfigA!VaultRule
  <2>1. NoStay(ConfigA!InitializeConfig)
    BY DEF ConfigA!InitializeConfig
  <2>2. NoStay(ConfigA!WithdrawFees)
    BY DEF ConfigA!WithdrawFees
  <2> HIDE DEF NoStay
  <2> QED BY <2>1, <2>2 DEF Ops, Demands, ConfigA!Rules
<1>2. \A op \in Ops("core") : NoStay(CoreA!Rules[op])
  <2> USE DEF NoStay, CoreA!Rule, CoreA!MutSigns, CoreA!Signs, CoreA!New, CoreA!Ro, CoreA!Mut,
              CoreA!Unchecked, CoreA!SystemRule, CoreA!ProgramRule, CoreA!GlobalConfigRule,
              CoreA!Callers, CoreA!OneOf
  <2>1. \A programs : NoStay(CoreA!UpdateReputationProfile(programs))
    BY DEF CoreA!UpdateReputationProfile
  <2>2. \A programs : NoStay(CoreA!UpdateUserProfile(programs))
    BY DEF CoreA!UpdateUserProfile
  <2>3. NoStay(CoreA!ClearListingBooking) /\ NoStay(CoreA!SetListingOccupied)
    BY DEF CoreA!ClearListingBooking, CoreA!SetListingOccupied
  <2>4. NoStay(CoreA!InitIdentity) /\ NoStay(CoreA!LinkIdentity)
    BY DEF CoreA!InitIdentity, CoreA!LinkIdentity
  <2>5. NoStay(CoreA!InitializeConfig)
    BY DEF CoreA!InitializeConfig
  <2>6. NoStay(CoreA!InitializeListing)
    BY DEF CoreA!InitializeListing
  <2>7. NoStay(CoreA!InitializeUserProfile)
    BY DEF CoreA!InitializeUserProfile
  <2>8. NoStay(CoreA!UpdateClientReview) /\ NoStay(CoreA!UpdateHostReview)
    BY DEF CoreA!UpdateClientReview, CoreA!UpdateHostReview
  <2>9. NoStay(CoreA!UpdateListingReview) /\ NoStay(CoreA!UpdateListing)
    BY DEF CoreA!UpdateListingReview, CoreA!UpdateListing
  <2> HIDE DEF NoStay
  <2> QED BY <2>1, <2>2, <2>3, <2>4, <2>5, <2>6, <2>7, <2>8, <2>9 DEF Ops, Demands, CoreA!Rules
<1>3. \A op \in Ops("treasury") : NoStay(TreasuryA!Rules[op])
  <2> USE DEF NoStay, TreasuryA!Rule, TreasuryA!MutSigns, TreasuryA!Signs, TreasuryA!New,
              TreasuryA!Ro, TreasuryA!Mut, TreasuryA!Unchecked, TreasuryA!SystemRule,
              TreasuryA!TokenRule, TreasuryA!ProgramRule, TreasuryA!GlobalConfigRule,
              TreasuryA!Callers, TreasuryA!OneOf, TreasuryA!MintRule, TreasuryA!MutMintRule,
              TreasuryA!TreasuryRule
  <2>1. NoStay(TreasuryA!PenalizeTransferCpi)
    BY DEF TreasuryA!PenalizeTransferCpi
  <2>2. NoStay(TreasuryA!DepositGuarantee)
    BY DEF TreasuryA!DepositGuarantee
  <2>3. NoStay(TreasuryA!InitializeTreasury)
    BY DEF TreasuryA!InitializeTreasury
  <2>4. NoStay(TreasuryA!WithdrawGuarantee)
    BY DEF TreasuryA!WithdrawGuarantee
  <2> HIDE DEF NoStay
  <2> QED BY <2>1, <2>2, <2>3, <2>4 DEF Ops, Demands, TreasuryA!Rules
<1>4. \A op \in {"addAdmin", "deleteAdmin", "escalateDispute", "initializeConfig"} :
        NoStay(DisputesA!Rules[op])
  <2> USE DEF NoStay, DisputesA!Rule, DisputesA!MutSigns, DisputesA!Signs, DisputesA!New,
              DisputesA!Ro, DisputesA!Mut, DisputesA!Unchecked, DisputesA!SystemRule,
              DisputesA!ProgramRule, DisputesA!GlobalConfigRule
  <2>1. NoStay(DisputesA!AddAdmin) /\ NoStay(DisputesA!DeleteAdmin)
    BY DEF DisputesA!AddAdmin, DisputesA!DeleteAdmin
  <2>2. NoStay(DisputesA!EscalateDispute)
    BY DEF DisputesA!EscalateDispute
  <2>3. NoStay(DisputesA!InitializeConfig)
    BY DEF DisputesA!InitializeConfig
  <2> HIDE DEF NoStay
  <2> QED BY <2>1, <2>2, <2>3 DEF DisputesA!Rules
<1>5. NoStay(EscrowA!Rules["initializeEscrow"])
  BY DEF NoStay, EscrowA!Rules, EscrowA!InitializeConfigEscrow, EscrowA!Rule, EscrowA!MutSigns,
         EscrowA!Signs, EscrowA!New, EscrowA!GlobalConfigRule, EscrowA!Ro, EscrowA!SystemRule,
         EscrowA!ProgramRule, EscrowA!Unchecked
<1> QED BY <1>1, <1>2, <1>3, <1>4, <1>5

\* The escrow program's entries for the disputes program.
LEMMA EscrowGuards ==
  /\ Entry(EscrowA!Rules["cpiResolveDisputeTransfer"], 1, {"disputes"})
  /\ Entry(EscrowA!Rules["cpiUpdateBookingStatus"], 3, {"disputes"})
<1>0. \A programs : EscrowA!Callers(programs) = Callers(programs)
  BY DEF Callers, EscrowA!Callers, OneOf, EscrowA!OneOf, Signs, EscrowA!Signs, Rule,
       EscrowA!Rule, AnyType, EscrowA!AnyType, CpiAuthority, EscrowA!CpiAuthority,
       Derivation, EscrowA!Derivation, Lit, EscrowA!Lit
<1>1. Entry(EscrowA!ResolveDisputeTransferCpi, 1, {"disputes"})
  BY <1>0 DEF Entry, Callable, EscrowA!ResolveDisputeTransferCpi
<1>2. Entry(EscrowA!UpdateBookingStatusCpi, 3, {"disputes"})
  BY <1>0 DEF Entry, Callable, EscrowA!UpdateBookingStatusCpi
<1> QED BY <1>1, <1>2 DEF EscrowA!Rules

\* What has a booking is one of these three.
LEMMA AboutStay ==
  ASSUME NEW r \in Requests, "booking" \in Names(r)
  PROVE  \/ \E i, programs : Entry(r.rules, i, programs)
         \/ r.rules \in Creations
         \/ \E profiles : Joined(r.branch, r.rules, profiles)
<1> SUFFICES ASSUME Usual(r)
             PROVE  \/ \E i, programs : Entry(r.rules, i, programs)
                    \/ r.rules \in Creations
                    \/ \E profiles : Joined(r.op, r.rules, profiles)
  BY RequestEntry, DisputesJoined DEF Usual, Faultless
<1>1. /\ r.program \in {"config", "core", "disputes", "escrow", "treasury"}
      /\ r.op \in Ops(r.program) /\ r.rules = Demands[r.program][r.op]
  BY RequestEntry DEF Usual, Programs, Plugins
<1>2. ~ NoStay(r.rules)
  BY RequestAgrees DEF NoStay, SameOrder, Names
<1>3. /\ Demands["config"] = ConfigA!Rules /\ Demands["core"] = CoreA!Rules
      /\ Demands["disputes"] = DisputesA!Rules /\ Demands["escrow"] = EscrowA!Rules
      /\ Demands["treasury"] = TreasuryA!Rules
  BY DEF Demands
<1>4. r.program \notin {"config", "core", "treasury"}
  BY <1>1, <1>2, <1>3, NoStayRules
<1>5. CASE r.program = "disputes"
  <2>1. r.op \notin {"addAdmin", "deleteAdmin", "escalateDispute", "initializeConfig"}
    BY <1>1, <1>2, <1>3, <1>5, NoStayRules
  <2> QED BY <1>1, <1>3, <1>5, <2>1, DisputesJoined
<1>6. CASE r.program = "escrow"
  <2>1. CASE r.op \in {"createBooking", "createBookingCrossYear"}
    <3>1. r.rules \in Creations
      BY <1>1, <1>3, <1>6, <2>1 DEF Creations, EscrowA!Rules
    <3> QED BY <3>1
  <2>2. CASE r.op \in {"cpiResolveDisputeTransfer", "cpiUpdateBookingStatus"}
    BY <1>1, <1>3, <1>6, <2>2, EscrowGuards
  <2>3. r.op # "initializeEscrow"
    BY <1>1, <1>2, <1>3, <1>6, NoStayRules
  <2>4. CASE r.op \notin {"createBooking", "createBookingCrossYear",
                          "cpiResolveDisputeTransfer", "cpiUpdateBookingStatus"}
    BY <1>1, <1>3, <1>6, <2>3, <2>4, EscrowJoined
  <2> QED BY <2>1, <2>2, <2>4
<1> QED BY <1>1, <1>4, <1>5, <1>6

-----------------------------------------------------------------------------
(***************************************************************************)
(* The treasury's authority, which a host's cancellation leaves to the     *)
(* treasury to check: callers mean it alike, whatever they mix up.         *)
(***************************************************************************)
LEMMA AuthorityMeant ==
  ASSUME NEW program, NEW op, NEW stay, NEW as
  PROVE  /\ "treasuryPda" \in DOMAIN Means(program, op, stay, as)
         /\ Means(program, op, stay, as)["treasuryPda"] = Pda(TreasuryPda)
<1> DEFINE own == Belongings(stay, as)
<1> DEFINE sources ==
       <<RootSigns(op), GuestSigns(op, stay), Local(program), Shared, own>>
<1>1. Means(program, op, stay, as) = FirstOf(sources)
  BY Zenon DEF Means
<1>2. /\ "treasuryPda" \notin DOMAIN RootSigns(op)
      /\ "treasuryPda" \notin DOMAIN GuestSigns(op, stay)
      /\ "treasuryPda" \notin DOMAIN Local(program)
  BY DEF RootSigns, GuestSigns, Local
<1>3. "treasuryPda" \in DOMAIN Shared /\ Shared["treasuryPda"] = Pda(TreasuryPda)
  BY DEF Shared
<1> HIDE DEF own
<1>4. /\ DOMAIN sources = 1..5 /\ sources[1] = RootSigns(op)
      /\ sources[2] = GuestSigns(op, stay) /\ sources[3] = Local(program)
      /\ sources[4] = Shared
  OBVIOUS
<1> HIDE DEF sources
<1>5. \A j \in DOMAIN sources : j < 4 => "treasuryPda" \notin DOMAIN sources[j]
  BY <1>2, <1>4
<1>6. 4 \in DOMAIN sources /\ "treasuryPda" \in DOMAIN sources[4]
  BY <1>3, <1>4
<1>7. FirstOf(sources)["treasuryPda"] = sources[4]["treasuryPda"]
  BY <1>4, <1>5, <1>6, FirstCounts
<1>8. "treasuryPda" \in DOMAIN FirstOf(sources)
  BY <1>6 DEF FirstOf
<1> QED BY <1>1, <1>3, <1>4, <1>7, <1>8

\* No change a caller makes touches the treasury's authority.
LEMMA AuthorityKept ==
  ASSUME NEW program, NEW op, NEW stay, NEW as, NEW change \in Changes(program, op, stay, as)
  PROVE  "treasuryPda" \notin DOMAIN change
<1> DEFINE builder == Plugins[program][op]
<1> DEFINE names == NamesOf(builder)
<1> DEFINE asked == names \ Defaulted(builder)
<1> DEFINE means == Means(program, op, stay, as)
<1> DEFINE others(other) == Means(program, op, other, as)
<1> DEFINE differing(other) == {n \in names : others(other)[n] # means[n]}
<1> DEFINE mixedUp(other) ==
             {[n \in mixed |-> others(other)[n]] :
                mixed \in {{n} : n \in differing(other)}
                            \cup {group \cap differing(other) \cap asked : group \in Groups}}
<1> DEFINE authorities ==
             IF CpiOnly(builder)
               THEN {Only("cpiAuthority", Pda(CpiAuthority(p))) : p \in Callable}
                      \cup {Only("cpiAuthority", means.actor)}
               ELSE {}
<1> DEFINE relayed == {Only(n, Relayer) : n \in names \cap {"payer"}}
<1> DEFINE explicit ==
             {Only(n, means[n]) : n \in Defaulted(builder) \cap {"bookingDays", "userProfile"}}
<1> DEFINE forgotten == {Only(n, None) : n \in asked \cap {"booking", "property", "authority"}}
<1>1. change \in {<<>>} \cup authorities \cup relayed \cup explicit \cup forgotten
                   \cup UNION {mixedUp(other) : other \in DOMAIN Stay \ {stay}}
  BY Zenon DEF Changes
<1>2. \A n, a : DOMAIN Only(n, a) = {n}
  BY DEF Only
<1>3. DOMAIN <<>> = {}
  OBVIOUS
<1>4. \A a \in authorities \cup relayed \cup explicit \cup forgotten :
        \E n \in {"cpiAuthority", "payer", "bookingDays", "userProfile", "booking", "property",
                  "authority"} : DOMAIN a = {n}
  <2> HIDE DEF builder, names, asked, means
  <2>1. \A a \in authorities : DOMAIN a = {"cpiAuthority"}
    BY <1>2
  <2>2. \A a \in relayed : DOMAIN a = {"payer"}
    BY <1>2
  <2>3. \A a \in explicit : \E n \in {"bookingDays", "userProfile"} : DOMAIN a = {n}
    BY <1>2
  <2>4. \A a \in forgotten : \E n \in {"booking", "property", "authority"} : DOMAIN a = {n}
    BY <1>2
  <2> HIDE DEF authorities, relayed, explicit, forgotten
  <2> QED BY <2>1, <2>2, <2>3, <2>4
<1>5. \A other : "treasuryPda" \notin differing(other)
  BY AuthorityMeant
<1>6. CASE \E other \in DOMAIN Stay : change \in mixedUp(other)
  <2>1. PICK other \in DOMAIN Stay : change \in mixedUp(other)
    BY <1>6
  <2> HIDE DEF differing, asked
  <2>2. PICK mixed \in {{n} : n \in differing(other)}
                         \cup {group \cap differing(other) \cap asked : group \in Groups} :
          change = [n \in mixed |-> others(other)[n]]
    BY <2>1
  <2>3. mixed \subseteq differing(other)
    BY <2>2
  <2>4. DOMAIN change = mixed
    BY <2>2
  <2> QED BY <1>5, <2>3, <2>4
<1> HIDE DEF authorities, explicit, forgotten, relayed, mixedUp
<1> QED BY <1>1, <1>3, <1>4, <1>6

HostCancels == {"hostCancelBooking", "hostCancelBookingCrossYear"}

\* A host's cancellation is always given the treasury's authority.
LEMMA AuthorityGiven ==
  ASSUME NEW r \in Requests, r.op \in HostCancels
  PROVE  /\ "treasuryPda" \notin Defaulted(r.builder)
         /\ r.given["treasuryPda"] = Pda(TreasuryPda)
<1>1. r.program = "escrow"
  <2>1. r.program \in {"config", "core", "disputes", "escrow", "treasury"} /\ r.op \in Ops(r.program)
    BY RequestEntry DEF Programs, Plugins
  <2>2. r.program # "config"
    BY <2>1 DEF HostCancels, Ops, Demands, ConfigA!Rules
  <2>3. r.program # "core"
    BY <2>1 DEF HostCancels, Ops, Demands, CoreA!Rules
  <2>4. r.program # "disputes"
    BY <2>1 DEF HostCancels, Ops, Demands, DisputesA!Rules
  <2>5. r.program # "treasury"
    BY <2>1 DEF HostCancels, Ops, Demands, TreasuryA!Rules
  <2> QED BY <2>1, <2>2, <2>3, <2>4, <2>5
<1>2. "treasuryPda" \notin Defaulted(r.builder)
  <2>1. \A i \in DOMAIN EscrowC!HostCancelBooking.defaults :
          EscrowC!HostCancelBooking.defaults[i].account # "treasuryPda"
    BY SMTT(40) DEF EscrowC!HostCancelBooking, EscrowC!Builder, EscrowC!Default
  <2>2. \A i \in DOMAIN EscrowC!HostCancelBookingCrossYear.defaults :
          EscrowC!HostCancelBookingCrossYear.defaults[i].account # "treasuryPda"
    BY SMTT(40) DEF EscrowC!HostCancelBookingCrossYear, EscrowC!Builder, EscrowC!Default
  <2>3. Plugins[r.program][r.op]
          \in {EscrowC!HostCancelBooking, EscrowC!HostCancelBookingCrossYear}
    BY <1>1 DEF HostCancels, Plugins, EscrowC!Plugin
  <2>4. \A i \in DOMAIN r.builder.defaults :
          \E j \in DOMAIN Plugins[r.program][r.op].defaults :
            r.builder.defaults[i] = Plugins[r.program][r.op].defaults[j]
    BY RequestAssumption DEF Defaults
  <2> QED BY <2>1, <2>2, <2>3, <2>4 DEF Defaulted
<1>3. "treasuryPda" \notin DOMAIN r.change
  <2>1. PICK wish \in Wishes : r = Ask(wish)
    BY Zenon DEF Requests
  <2>2. r.change = wish.change
    BY <2>1 DEF Ask
  <2>3. PICK task \in Tasks : wish \in WishesOf(task)
    BY DEF Wishes
  <2>4. CASE \E branch : wish = Wish(task, branch, "sync", <<>>)
    BY <2>2, <2>4 DEF Wish
  <2>5. CASE \E branch, change :
               /\ change \in Changes(task.program, task.op, task.stay, task.as)
               /\ wish = Wish(task, branch, "plugin", change)
    BY <2>2, <2>5, AuthorityKept DEF Wish
  <2> QED BY <2>3, <2>4, <2>5 DEF WishesOf
<1> DEFINE defaulted == [m \in Defaulted(r.builder) |-> None]
<1> DEFINE paid == IF r.kind = "plugin" THEN Only("payer", None) ELSE <<>>
<1> DEFINE sources == <<r.change, defaulted, paid, MeansOf(r)>>
<1>4. r.given = FirstOf(sources)
  BY RequestGiven
<1>5. "treasuryPda" \notin DOMAIN defaulted /\ "treasuryPda" \notin DOMAIN paid
  BY <1>2 DEF Only
<1> HIDE DEF defaulted, paid
<1>6. /\ DOMAIN sources = 1..4 /\ sources[1] = r.change /\ sources[2] = defaulted
      /\ sources[3] = paid /\ sources[4] = MeansOf(r)
  OBVIOUS
<1> HIDE DEF sources
<1>7. /\ "treasuryPda" \in DOMAIN MeansOf(r) /\ MeansOf(r)["treasuryPda"] = Pda(TreasuryPda)
  BY AuthorityMeant DEF MeansOf
<1>8. \A j \in DOMAIN sources : j < 4 => "treasuryPda" \notin DOMAIN sources[j]
  BY <1>3, <1>5, <1>6
<1>9. FirstOf(sources)["treasuryPda"] = sources[4]["treasuryPda"]
  BY <1>6, <1>7, <1>8, FirstCounts
<1> QED BY <1>2, <1>4, <1>6, <1>7, <1>9

-----------------------------------------------------------------------------
(***************************************************************************)
(* Every account of an instruction about a booking is of its stay.         *)
(***************************************************************************)
\* An account nobody knows is of every stay: a program's own.
LEMMA UnknownStay == \A b : OfStay(b, None)
<1>1. Type(None)[1] = "none"
  BY DEF Type, None, Address
<1> QED BY <1>1, OtherStay, TypesOfStays

\* Accounts that pass the rules are of the stay of the booking among them.
LEMMA SentStay ==
  ASSUME NEW r \in Requests, NEW accounts, NEW living, NEW n \in Names(r), "booking" \in Names(r),
         Meets(r.rules, accounts, r.args, living), <<r.branch, n>> \notin LeftFree,
         n = "treasuryPda" /\ r.op \in HostCancels => accounts[n] = Pda(TreasuryPda)
  PROVE  OfStay(accounts["booking"], accounts[n]) /\ IsBooking(accounts["booking"])
<1>1. PICK i \in DOMAIN r.rules : r.rules[i].name = n
  BY RequestAgrees DEF SameOrder, Names
<1>2. ~ \E j, programs : Entry(r.rules, j, programs)
  BY EntryShut
<1>3. CASE r.rules \in Creations
  BY <1>1, <1>3, CreationStay
<1>4. CASE \E profiles : Joined(r.branch, r.rules, profiles)
  <2>1. PICK profiles : Joined(r.branch, r.rules, profiles)
    BY <1>4
  <2>2. IsBooking(accounts["booking"])
    <3>1. PICK j \in DOMAIN r.rules : IsStay(r.rules[j])
      BY <2>1 DEF Joined
    <3>2. Type(accounts["booking"]) \in Booking
      BY <3>1 DEF IsStay, Meets, Lives
    <3> QED BY <3>2 DEF Booking, IsBooking
  <2>3. CASE n = "treasuryPda" /\ r.op \in HostCancels
    <3>1. accounts[n].program = "treasury"
      BY <2>3 DEF Pda, TreasuryPda, Derivation, Derive, Address
    <3>2. Type(accounts[n])[1] = "treasury"
      BY <3>1 DEF Type
    <3>3. OfStay(accounts["booking"], accounts[n])
      BY <3>2, OtherStay, TypesOfStays
    <3> QED BY <2>2, <3>3
  <2>4. CASE ~ (n = "treasuryPda" /\ r.op \in HostCancels)
    <3>1. r.branch \in HostCancels => r.op \in HostCancels
      BY RequestEntry DEF Usual, Faultless, HostCancels
    <3> QED BY <1>1, <2>1, <2>2, <2>4, <3>1, JoinedStay DEF HostCancels
  <2> QED BY <2>3, <2>4
<1> QED BY <1>2, <1>3, <1>4, AboutStay

\* Whatever mix of stays a caller gives, for any stays and any number of
\* sessions: an instruction that is taken is about one of them.
THEOREM StaysNeverMixed == Spec => []OneStay
<1>1. ASSUME FillInv, NEW s \in Sessions, Acceptable(s), "booking" \in DOMAIN table[s],
             NEW n \in DOMAIN table[s], <<request[s].branch, n>> \notin LeftFree
      PROVE  OfStay(table[s]["booking"], table[s][n])
  <2> DEFINE r == request[s]
  <2>1. Built(s) /\ Known(s)
    BY <1>1 DEF Acceptable, Built, Known
  <2>2. r \in Requests /\ DOMAIN table[s] = Names(r)
    BY <1>1, <2>1 DEF FillInv, Typed, Tables, Known
  <2>3. Meets(r.rules, Sent(s), r.args, store)
    BY <1>1, AcceptedMeets DEF RulesOf
  <2>4. \A m \in Names(r) :
          \/ table[s][m] # None /\ Sent(s)[m] = table[s][m]
          \/ table[s][m] = None /\ Sent(s)[m].program = "program"
    BY DEF Sent, Deployed, Address
  <2>5. ASSUME n = "treasuryPda", r.op \in HostCancels
        PROVE  Sent(s)[n] = Pda(TreasuryPda)
    <3>1. table[s][n] = Original(r)[n]
      BY <1>1, <2>1, <2>2, <2>5, AuthorityGiven DEF FillInv, GivenKept, Built
    <3>2. table[s][n] = Pda(TreasuryPda)
      BY <1>1, <2>2, <2>5, <3>1, AuthorityGiven DEF Original
    <3>3. Pda(TreasuryPda).program # None.program
      BY DEF Pda, TreasuryPda, Derivation, Derive, Address, None
    <3> QED BY <1>1, <2>2, <2>4, <3>2, <3>3
  <2>6. OfStay(Sent(s)["booking"], Sent(s)[n]) /\ IsBooking(Sent(s)["booking"])
    BY <1>1, <2>2, <2>3, <2>5, SentStay
  <2>7. table[s]["booking"] = Sent(s)["booking"]
    <3>1. Sent(s)["booking"].program = "escrow"
      BY <2>6 DEF IsBooking, Type
    <3> QED BY <1>1, <2>2, <2>4, <3>1
  <2> QED BY <1>1, <2>2, <2>4, <2>6, <2>7, UnknownStay
<1>2. FillInv => OneStay
  BY <1>1 DEF OneStay
<1> QED BY <1>2, Filling, PTL
=============================================================================
