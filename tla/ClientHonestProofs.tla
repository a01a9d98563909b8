-------------------------- MODULE ClientHonestProofs --------------------------
(***************************************************************************)
(* What an honest caller asks for, for any stays, callers and number of    *)
(* sessions: the escrow's accounts by their places, as for the other       *)
(* programs; that his builder ends with what he means, since its defaults  *)
(* come in layers (MeantTable); that this is where the programs demand it, *)
(* unless he was overtaken (MeantInPlace); and that the four divergent     *)
(* defaults lead elsewhere (DivergentRefused).                             *)
(***************************************************************************)
EXTENDS ClientPlaceProofs

-----------------------------------------------------------------------------
\* The escrow program: bookings, and the money held for them.
LEMMA EscrowSeated ==
  ASSUME NEW stay, NEW as, NEW T, NEW args, args = ArgsOf(stay, as)
  PROVE  \A op \in Ops("escrow") :
           \/ CpiOnly(EscrowC!Plugin[op])
           \/ /\ \A i \in DOMAIN EscrowC!Parsers[op] :
                   EscrowC!Parsers[op][i] \in PlacedNames \cup {"payer"}
              /\ (as \in Roles(op) /\ Agree(T, EscrowC!Parsers[op], Means("escrow", op, stay, as)))
                   => /\ \A i \in DOMAIN EscrowA!Rules[op] : Seated(EscrowA!Rules[op][i], T, args)
                      /\ \A i \in DOMAIN EscrowC!Plugin[op].defaults :
                           Sound(op, EscrowC!Plugin[op].defaults[i], T, args)
<1> DEFINE P(rule) == Seated(rule, T, args)
<1> DEFINE Q(default) == Sure(default, T, args)
<1> DEFINE S(op, default) == <<op, default.account>> \in DivergentDefaults \/ Q(default)
<1> DEFINE Apt(op, plugin, names, rules) ==
      \/ CpiOnly(plugin)
      \/ /\ \A i \in DOMAIN names : names[i] \in PlacedNames \cup {"payer"}
         /\ (as \in Roles(op) /\ Agree(T, names, Means("escrow", op, stay, as)))
              => /\ \A i \in DOMAIN rules : P(rules[i])
                 /\ \A i \in DOMAIN plugin.defaults : S(op, plugin.defaults[i])
<1>1. /\ args["listingId"] = Stay[stay].listingId /\ args["checkIn"] = Stay[stay].checkIn
      /\ args["id"] = ActorOf(stay, as)
      /\ as = "guest" => ActorOf(stay, as) = GuestOf(stay)
      /\ as = "host" => ActorOf(stay, as) = HostOf(stay)
  BY ArgsMeant
<1>2. P(EscrowA!MutSigns("payer", {}))
  <2>1. Seated(MutSigns("payer", {}), T, args)
    BY FreeSeated
  <2>2. EscrowA!MutSigns("payer", {}) = MutSigns("payer", {})
    BY DEF MutSigns, EscrowA!MutSigns, Rule, EscrowA!Rule, AnyType, EscrowA!AnyType
  <2> QED BY <2>1, <2>2
<1>3. ASSUME T["booking"] = StayBooking(stay)
      PROVE  P(EscrowA!BookingRule)
  <2>1. /\ At(T, args, "booking", BookingBy("booking"))
        /\ Type(T["booking"]) \in Booking
    BY <1>3, StayWhere, PlaceKinds
  <2>2. Seated(Mut("booking", Booking, {BookingBy("booking")}), T, args)
    BY <2>1, KnownSeated
  <2>3. EscrowA!BookingRule = Mut("booking", Booking, {BookingBy("booking")})
    BY DEF EscrowA!BookingRule, Mut, EscrowA!Mut, Rule, EscrowA!Rule, Booking,
      EscrowA!Booking, BookingBy, EscrowA!BookingBy, BookingOf, EscrowA!BookingOf,
      Derivation, EscrowA!Derivation, Lit, EscrowA!Lit, Field, EscrowA!Field
  <2> QED BY <2>2, <2>3
<1>4. ASSUME T["guest"] = Profiled(GuestOf(stay)),
             T["booking"] = StayBooking(stay)
      PROVE  P(EscrowA!MutPartyRule("guest", "guest"))
  <2>1. /\ At(T, args, "guest", ProfileBy("guest"))
        /\ At(T, args, "guest", Held("booking", "guest"))
        /\ Type(T["guest"]) \in UserProfile
    BY <1>4, ProfileWhere, StayWhere, PlaceKinds
  <2>2. Seated(Mut("guest", UserProfile, {ProfileBy("guest"), Held("booking", "guest")}), T, args)
    BY <2>1, KnownSeated
  <2>3. EscrowA!MutPartyRule("guest", "guest")
          = Mut("guest", UserProfile, {ProfileBy("guest"), Held("booking", "guest")})
    BY DEF EscrowA!MutPartyRule, Mut, EscrowA!Mut, Rule, EscrowA!Rule, UserProfile,
      EscrowA!UserProfile, ProfileBy, EscrowA!ProfileBy, Derivation, EscrowA!Derivation,
      Lit, EscrowA!Lit, Field, EscrowA!Field, Held, EscrowA!Held
  <2> QED BY <2>2, <2>3
<1>5. ASSUME T["hostProfile"] = Profiled(HostOf(stay))
      PROVE  P(EscrowA!Ro("hostProfile", EscrowA!UserProfile, {EscrowA!ProfileBy("hostProfile")}))
  <2>1. /\ At(T, args, "hostProfile", ProfileBy("hostProfile"))
        /\ Type(T["hostProfile"]) \in UserProfile
    BY <1>5, ProfileWhere, PlaceKinds
  <2>2. Seated(Ro("hostProfile", UserProfile, {ProfileBy("hostProfile")}), T, args)
    BY <2>1, KnownSeated
  <2>3. EscrowA!Ro("hostProfile", EscrowA!UserProfile, {EscrowA!ProfileBy("hostProfile")})
          = Ro("hostProfile", UserProfile, {ProfileBy("hostProfile")})
    BY DEF Ro, EscrowA!Ro, Rule, EscrowA!Rule, UserProfile, EscrowA!UserProfile, ProfileBy,
      EscrowA!ProfileBy, Derivation, EscrowA!Derivation, Lit, EscrowA!Lit, Field,
      EscrowA!Field
  <2> QED BY <2>2, <2>3
<1>6. ASSUME T["cpiAuthority"] = Address("escrow", <<Lit("cpi_authority")>>)
      PROVE  P(EscrowA!AuthorityRule)
  <2>1. At(T, args, "cpiAuthority", CpiAuthority("escrow"))
    BY <1>6, OtherWhere DEF CpiAuthority
  <2>2. Seated(Unchecked("cpiAuthority", {CpiAuthority("escrow")}), T, args)
    BY <2>1, FreeSeated
  <2>3. EscrowA!AuthorityRule = Unchecked("cpiAuthority", {CpiAuthority("escrow")})
    BY DEF EscrowA!AuthorityRule, Unchecked, EscrowA!Unchecked, Rule, EscrowA!Rule, AnyType,
      EscrowA!AnyType, CpiAuthority, EscrowA!CpiAuthority, Derivation, EscrowA!Derivation,
      Lit, EscrowA!Lit
  <2> QED BY <2>2, <2>3
<1>7. ASSUME T["globalConfig"] = Address("config", <<Lit("global_config")>>)
      PROVE  P(EscrowA!GlobalConfigRule)
  <2>1. /\ At(T, args, "globalConfig", GlobalConfigPda)
        /\ Type(T["globalConfig"]) \in GlobalConfigAcc
    BY <1>7, OtherWhere, PlaceKinds DEF GlobalConfigPda
  <2>2. Seated(Ro("globalConfig", GlobalConfigAcc, {GlobalConfigPda}), T, args)
    BY <2>1, KnownSeated
  <2>3. EscrowA!GlobalConfigRule = Ro("globalConfig", GlobalConfigAcc, {GlobalConfigPda})
    BY DEF GlobalConfigRule, EscrowA!GlobalConfigRule, Ro, EscrowA!Ro, Rule, EscrowA!Rule,
      GlobalConfigAcc, EscrowA!GlobalConfigAcc, GlobalConfigPda, EscrowA!GlobalConfigPda,
      Derivation, EscrowA!Derivation, Lit, EscrowA!Lit
  <2> QED BY <2>2, <2>3
<1>8. ASSUME T["staykeCore"] = Deployed("core")
      PROVE  P(EscrowA!ProgramRule("staykeCore", "core"))
  <2>1. At(T, args, "staykeCore", Fixed("core"))
    BY <1>8, OtherWhere
  <2>2. Seated(Unchecked("staykeCore", {Fixed("core")}), T, args)
    BY <2>1, FreeSeated
  <2>3. EscrowA!ProgramRule("staykeCore", "core") = Unchecked("staykeCore", {Fixed("core")})
    BY DEF ProgramRule, EscrowA!ProgramRule, Unchecked, EscrowA!Unchecked, Rule,
      EscrowA!Rule, AnyType, EscrowA!AnyType, Fixed, EscrowA!Fixed, Derivation,
      EscrowA!Derivation
  <2> QED BY <2>2, <2>3
<1>9. ASSUME T["cpiAuthority"] = Address("escrow", <<Lit("cpi_authority")>>)
      PROVE  Q(EscrowC!Default("cpiAuthority", EscrowC!FindCpiAuthorityPda))
  <2>1. At(T, args, "cpiAuthority", CpiAuthority("escrow"))
    BY <1>9, OtherWhere DEF CpiAuthority
  <2>2. EscrowC!Default("cpiAuthority", EscrowC!FindCpiAuthorityPda)
          = [account |-> "cpiAuthority", from |-> CpiAuthority("escrow")]
    BY DEF EscrowC!Default, EscrowC!FindCpiAuthorityPda, EscrowC!Derivation, EscrowC!Lit,
      CpiAuthority, Derivation, Lit
  <2>3. /\ "cpiAuthority" \notin Bottom
        /\ Reads(CpiAuthority("escrow")) \subseteq Bottom \cup Middle \cup {"booking"}
        /\ "cpiAuthority" = "booking" => Reads(CpiAuthority("escrow")) \subseteq Bottom \cup Middle
        /\ "cpiAuthority" \in Middle => Reads(CpiAuthority("escrow")) \subseteq Bottom
    BY ReadsOf DEF Bottom, Middle, CpiAuthority
  <2> QED BY <2>1, <2>2, <2>3, SureDefault
<1>10. ASSUME T["globalConfig"] = Address("config", <<Lit("global_config")>>)
       PROVE  Q(EscrowC!Default("globalConfig", EscrowC!GlobalConfig))
  <2>1. At(T, args, "globalConfig", GlobalConfigPda)
    BY <1>10, OtherWhere DEF GlobalConfigPda
  <2>2. EscrowC!Default("globalConfig", EscrowC!GlobalConfig)
          = [account |-> "globalConfig", from |-> GlobalConfigPda]
    BY DEF EscrowC!Default, EscrowC!GlobalConfig, EscrowC!Derivation, EscrowC!Lit,
      GlobalConfigPda, Derivation, Lit
  <2>3. /\ "globalConfig" \notin Bottom
        /\ Reads(GlobalConfigPda) \subseteq Bottom \cup Middle \cup {"booking"}
        /\ "globalConfig" = "booking" => Reads(GlobalConfigPda) \subseteq Bottom \cup Middle
        /\ "globalConfig" \in Middle => Reads(GlobalConfigPda) \subseteq Bottom
    BY ReadsOf DEF Bottom, Middle, GlobalConfigPda
  <2> QED BY <2>1, <2>2, <2>3, SureDefault
<1>11. ASSUME T["staykeCore"] = Deployed("core")
       PROVE  Q(EscrowC!Default("staykeCore", EscrowC!Fixed("core")))
  <2>1. At(T, args, "staykeCore", Fixed("core"))
    BY <1>11, OtherWhere
  <2>2. EscrowC!Default("staykeCore", EscrowC!Fixed("core"))
          = [account |-> "staykeCore", from |-> Fixed("core")]
    BY DEF EscrowC!Default, EscrowC!Derivation, EscrowC!Fixed, Fixed, Derivation
  <2>3. /\ "staykeCore" \notin Bottom
        /\ Reads(Fixed("core")) \subseteq Bottom \cup Middle \cup {"booking"}
        /\ "staykeCore" = "booking" => Reads(Fixed("core")) \subseteq Bottom \cup Middle
        /\ "staykeCore" \in Middle => Reads(Fixed("core")) \subseteq Bottom
    BY ReadsOf DEF Bottom, Middle
  <2> QED BY <2>1, <2>2, <2>3, SureDefault
<1>12. P(EscrowA!Signs("client", {}))
  <2>1. Seated(Signs("client", {}), T, args)
    BY FreeSeated
  <2>2. EscrowA!Signs("client", {}) = Signs("client", {})
    BY DEF Signs, EscrowA!Signs, Rule, EscrowA!Rule, AnyType, EscrowA!AnyType
  <2> QED BY <2>1, <2>2
<1>13. ASSUME T["clientProfile"] = Profiled(GuestOf(stay)),
              T["client"] = GuestOf(stay)
       PROVE  P(EscrowA!Ro("clientProfile", EscrowA!UserProfile, {EscrowA!ProfileOf("client")}))
  <2>1. /\ At(T, args, "clientProfile", ProfileOf("client"))
        /\ Type(T["clientProfile"]) \in UserProfile
    BY <1>13, ProfileWhere, PlaceKinds
  <2>2. Seated(Ro("clientProfile", UserProfile, {ProfileOf("client")}), T, args)
    BY <2>1, KnownSeated
  <2>3. EscrowA!Ro("clientProfile", EscrowA!UserProfile, {EscrowA!ProfileOf("client")})
          = Ro("clientProfile", UserProfile, {ProfileOf("client")})
    BY DEF Ro, EscrowA!Ro, Rule, EscrowA!Rule, UserProfile, EscrowA!UserProfile, ProfileOf,
      EscrowA!ProfileOf, Derivation, EscrowA!Derivation, Lit, EscrowA!Lit, Key, EscrowA!Key
  <2> QED BY <2>2, <2>3
<1>14. ASSUME T["property"] = ListingOf(stay),
              T["booking"] = StayBooking(stay),
              T["clientProfile"] = Profiled(GuestOf(stay))
       PROVE  P(EscrowA!New("booking", EscrowA!Booking,
                {EscrowA!BookingOf(EscrowA!Key("property"), EscrowA!Key("clientProfile"),
                        EscrowA!Arg("i64", "checkIn"))}))
  <2>1. At(T, args, "booking",
          BookingOf(Key("property"), Key("clientProfile"), Arg("i64", "checkIn")))
    BY <1>14, <1>1, StayCreatedWhere
  <2>2. Seated(New("booking", Booking,
          {BookingOf(Key("property"), Key("clientProfile"), Arg("i64", "checkIn"))}), T, args)
    BY <2>1, NewSeated
  <2>3. EscrowA!New("booking", EscrowA!Booking,
          {EscrowA!BookingOf(EscrowA!Key("property"), EscrowA!Key("clientProfile"),
                  EscrowA!Arg("i64", "checkIn"))})
                          = New("booking", Booking,
                                  {BookingOf(Key("property"), Key("clientProfile"),
                                          Arg("i64", "checkIn"))})
    BY DEF New, EscrowA!New, Rule, EscrowA!Rule, Booking, EscrowA!Booking, BookingOf,
      EscrowA!BookingOf, Derivation, EscrowA!Derivation, Lit, EscrowA!Lit, Key, EscrowA!Key,
      Arg, EscrowA!Arg
  <2> QED BY <2>2, <2>3
<1>15. ASSUME T["property"] = ListingOf(stay),
              T["hostProfile"] = Profiled(HostOf(stay))
       PROVE  P(EscrowA!Ro("property", EscrowA!Listing,
                {EscrowA!SameListing("hostProfile", "property")}))
  <2>1. /\ At(T, args, "property", SameListing("hostProfile", "property"))
        /\ Type(T["property"]) \in Listing
    BY <1>15, ListingWhere, PlaceKinds DEF ListingOf
  <2>2. Seated(Ro("property", Listing, {SameListing("hostProfile", "property")}), T, args)
    BY <2>1, KnownSeated
  <2>3. EscrowA!Ro("property", EscrowA!Listing, {EscrowA!SameListing("hostProfile", "property")})
          = Ro("property", Listing, {SameListing("hostProfile", "property")})
    BY DEF Ro, EscrowA!Ro, Rule, EscrowA!Rule, Listing, EscrowA!Listing, SameListing,
      EscrowA!SameListing, ListingAt, EscrowA!ListingAt, Derivation, EscrowA!Derivation,
      Lit, EscrowA!Lit, Key, EscrowA!Key, Field, EscrowA!Field
  <2> QED BY <2>2, <2>3
<1>16. ASSUME T["systemProgram"] = Deployed("system")
       PROVE  P(EscrowA!SystemRule)
  <2>1. At(T, args, "systemProgram", Fixed("system"))
    BY <1>16, OtherWhere
  <2>2. Seated(Unchecked("systemProgram", {Fixed("system")}), T, args)
    BY <2>1, FreeSeated
  <2>3. EscrowA!SystemRule = Unchecked("systemProgram", {Fixed("system")})
    BY DEF SystemRule, EscrowA!SystemRule, ProgramRule, EscrowA!ProgramRule, Unchecked,
      EscrowA!Unchecked, Rule, EscrowA!Rule, AnyType, EscrowA!AnyType, Fixed, EscrowA!Fixed,
      Derivation, EscrowA!Derivation
  <2> QED BY <2>2, <2>3
<1>17. ASSUME T["bookingDays"] = Occupied(ListingOf(stay), Year[Stay[stay].checkIn]),
              T["property"] = ListingOf(stay)
       PROVE  P(EscrowA!BookedDays("bookingDays", "year"))
  <2>1. At(T, args, "bookingDays", DaysOf(Key("property"), Arg("year", "checkIn")))
    BY <1>17, <1>1, StayCreatedWhere
  <2>2. Seated(Needed("bookingDays", BookingDays,
          {DaysOf(Key("property"), Arg("year", "checkIn"))}), T, args)
    BY <2>1, NewSeated
  <2>3. EscrowA!BookedDays("bookingDays", "year")
          = Needed("bookingDays", BookingDays, {DaysOf(Key("property"), Arg("year", "checkIn"))})
    BY DEF EscrowA!BookedDays, Needed, EscrowA!Needed, Rule, EscrowA!Rule, BookingDays,
      EscrowA!BookingDays, DaysOf, EscrowA!DaysOf, Derivation, EscrowA!Derivation, Lit,
      EscrowA!Lit, Key, EscrowA!Key, Arg, EscrowA!Arg
  <2> QED BY <2>2, <2>3
<1>18. ASSUME T["escrowTokenAccount"] = MoneyOf(StayBooking(stay)),
              T["booking"] = StayBooking(stay)
       PROVE  P(EscrowA!New("escrowTokenAccount", EscrowA!TokenAccount,
                {EscrowA!EscrowTokensOf("booking")}))
  <2>1. At(T, args, "escrowTokenAccount", EscrowTokensOf("booking"))
    BY <1>18, OtherWhere
  <2>2. Seated(New("escrowTokenAccount", TokenAccount, {EscrowTokensOf("booking")}), T, args)
    BY <2>1, NewSeated
  <2>3. EscrowA!New("escrowTokenAccount", EscrowA!TokenAccount,
          {EscrowA!EscrowTokensOf("booking")})
                  = New("escrowTokenAccount", TokenAccount, {EscrowTokensOf("booking")})
    BY DEF New, EscrowA!New, Rule, EscrowA!Rule, TokenAccount, EscrowA!TokenAccount,
      EscrowTokensOf, EscrowA!EscrowTokensOf, Derivation, EscrowA!Derivation, Lit,
      EscrowA!Lit, Key, EscrowA!Key
  <2> QED BY <2>2, <2>3
<1>19. ASSUME T["clientTokenAccount"] = TokensOf(GuestOf(stay)),
              T["client"] = GuestOf(stay)
       PROVE  P(EscrowA!Mut("clientTokenAccount", EscrowA!TokenAccount,
                {EscrowA!TokensOfSigner("client")}))
  <2>1. /\ At(T, args, "clientTokenAccount", TokensOfSigner("client"))
        /\ Type(T["clientTokenAccount"]) \in TokenAccount
    BY <1>19, OtherWhere, PlaceKinds
  <2>2. Seated(Mut("clientTokenAccount", TokenAccount, {TokensOfSigner("client")}), T, args)
    BY <2>1, KnownSeated
  <2>3. EscrowA!Mut("clientTokenAccount", EscrowA!TokenAccount,
          {EscrowA!TokensOfSigner("client")})
                  = Mut("clientTokenAccount", TokenAccount, {TokensOfSigner("client")})
    BY DEF Mut, EscrowA!Mut, Rule, EscrowA!Rule, TokenAccount, EscrowA!TokenAccount,
      TokensOfSigner, EscrowA!TokensOfSigner, Derivation, EscrowA!Derivation, Key,
      EscrowA!Key
  <2> QED BY <2>2, <2>3
<1>20. ASSUME T["mint"] = Mint
       PROVE  P(EscrowA!MintRule("mint"))
  <2>1. /\ At(T, args, "mint", Held("globalConfig", "usdcMint"))
        /\ Type(T["mint"]) \in MintType
    BY <1>20, OtherWhere, PlaceKinds
  <2>2. Seated(Ro("mint", MintType, {Held("globalConfig", "usdcMint")}), T, args)
    BY <2>1, KnownSeated
  <2>3. EscrowA!MintRule("mint") = Ro("mint", MintType, {Held("globalConfig", "usdcMint")})
    BY DEF MintRule, EscrowA!MintRule, Ro, EscrowA!Ro, Rule, EscrowA!Rule, MintType,
      EscrowA!MintType, Held, EscrowA!Held, Derivation, EscrowA!Derivation, Field,
      EscrowA!Field
  <2> QED BY <2>2, <2>3
<1>21. ASSUME T["tokenProgram"] = Deployed("token")
       PROVE  P(EscrowA!TokenRule)
  <2>1. At(T, args, "tokenProgram", Fixed("token"))
    BY <1>21, OtherWhere
  <2>2. Seated(Unchecked("tokenProgram", {Fixed("token")}), T, args)
    BY <2>1, FreeSeated
  <2>3. EscrowA!TokenRule = Unchecked("tokenProgram", {Fixed("token")})
    BY DEF TokenRule, EscrowA!TokenRule, ProgramRule, EscrowA!ProgramRule, Unchecked,
      EscrowA!Unchecked, Rule, EscrowA!Rule, AnyType, EscrowA!AnyType, Fixed, EscrowA!Fixed,
      Derivation, EscrowA!Derivation
  <2> QED BY <2>2, <2>3
<1>22. ASSUME T["clientProfile"] = Profiled(GuestOf(stay)),
              T["client"] = GuestOf(stay)
       PROVE  Q(EscrowC!Default("clientProfile", EscrowC!UserProfileOf("client")))
  <2>1. At(T, args, "clientProfile", ProfileOf("client"))
    BY <1>22, ProfileWhere
  <2>2. EscrowC!Default("clientProfile", EscrowC!UserProfileOf("client"))
          = [account |-> "clientProfile", from |-> ProfileOf("client")]
    BY DEF EscrowC!Default, EscrowC!UserProfileOf, EscrowC!Derivation, EscrowC!Lit,
      EscrowC!Key, ProfileOf, Derivation, Lit, Key
  <2>3. /\ "clientProfile" \notin Bottom
        /\ Reads(ProfileOf("client")) \subseteq Bottom \cup Middle \cup {"booking"}
        /\ "clientProfile" = "booking" => Reads(ProfileOf("client")) \subseteq Bottom \cup Middle
        /\ "clientProfile" \in Middle => Reads(ProfileOf("client")) \subseteq Bottom
    BY ReadsOf DEF Bottom, Middle
  <2> QED BY <2>1, <2>2, <2>3, SureDefault
<1>23. ASSUME T["property"] = ListingOf(stay),
              T["booking"] = StayBooking(stay),
              T["clientProfile"] = Profiled(GuestOf(stay))
       PROVE  Q(EscrowC!Default("booking",
                EscrowC!FindBookingPda("property", "clientProfile", "checkIn")))
  <2>1. At(T, args, "booking",
          BookingOf(Key("property"), Key("clientProfile"), Arg("i64", "checkIn")))
    BY <1>23, <1>1, StayCreatedWhere
  <2>2. EscrowC!Default("booking", EscrowC!FindBookingPda("property", "clientProfile", "checkIn"))
          = [account |-> "booking",
                  from |-> BookingOf(Key("property"), Key("clientProfile"), Arg("i64", "checkIn"))]
    BY DEF EscrowC!Default, EscrowC!FindBookingPda, EscrowC!Derivation, EscrowC!Lit,
      EscrowC!Key, EscrowC!Arg, BookingOf, Derivation, Lit, Key, Arg
  <2>3. /\ "booking" \notin Bottom
        /\ Reads(BookingOf(Key("property"), Key("clientProfile"),
             Arg("i64", "checkIn"))) \subseteq Bottom \cup Middle \cup {"booking"}
        /\ "booking" = "booking" => Reads(BookingOf(Key("property"), Key("clientProfile"),
             Arg("i64", "checkIn"))) \subseteq Bottom \cup Middle
        /\ "booking" \in Middle => Reads(BookingOf(Key("property"), Key("clientProfile"),
             Arg("i64", "checkIn"))) \subseteq Bottom
    BY ReadsOf DEF Bottom, Middle
  <2> QED BY <2>1, <2>2, <2>3, SureDefault
<1>24. ASSUME T["systemProgram"] = Deployed("system")
       PROVE  Q(EscrowC!Default("systemProgram", EscrowC!Fixed("system")))
  <2>1. At(T, args, "systemProgram", Fixed("system"))
    BY <1>24, OtherWhere
  <2>2. EscrowC!Default("systemProgram", EscrowC!Fixed("system"))
          = [account |-> "systemProgram", from |-> Fixed("system")]
    BY DEF EscrowC!Default, EscrowC!Derivation, EscrowC!Fixed, Fixed, Derivation
  <2>3. /\ "systemProgram" \notin Bottom
        /\ Reads(Fixed("system")) \subseteq Bottom \cup Middle \cup {"booking"}
        /\ "systemProgram" = "booking" => Reads(Fixed("system")) \subseteq Bottom \cup Middle
        /\ "systemProgram" \in Middle => Reads(Fixed("system")) \subseteq Bottom
    BY ReadsOf DEF Bottom, Middle
  <2> QED BY <2>1, <2>2, <2>3, SureDefault
<1>25. ASSUME T["escrowTokenAccount"] = MoneyOf(StayBooking(stay)),
              T["booking"] = StayBooking(stay)
       PROVE  Q(EscrowC!Default("escrowTokenAccount", EscrowC!FindEscrowTokenAccountPda("booking")))
  <2>1. At(T, args, "escrowTokenAccount", EscrowTokensOf("booking"))
    BY <1>25, OtherWhere
  <2>2. EscrowC!Default("escrowTokenAccount", EscrowC!FindEscrowTokenAccountPda("booking"))
          = [account |-> "escrowTokenAccount", from |-> EscrowTokensOf("booking")]
    BY DEF EscrowC!Default, EscrowC!FindEscrowTokenAccountPda, EscrowC!Derivation,
      EscrowC!Lit, EscrowC!Key, EscrowTokensOf, Derivation, Lit, Key
  <2>3. /\ "escrowTokenAccount" \notin Bottom
        /\ Reads(EscrowTokensOf("booking")) \subseteq Bottom \cup Middle \cup {"booking"}
        /\ "escrowTokenAccount"
             = "booking" => Reads(EscrowTokensOf("booking")) \subseteq Bottom \cup Middle
        /\ "escrowTokenAccount" \in Middle => Reads(EscrowTokensOf("booking")) \subseteq Bottom
    BY ReadsOf DEF Bottom, Middle
  <2> QED BY <2>1, <2>2, <2>3, SureDefault
<1>26. ASSUME T["tokenProgram"] = Deployed("token")
       PROVE  Q(EscrowC!Default("tokenProgram", EscrowC!Fixed("token")))
  <2>1. At(T, args, "tokenProgram", Fixed("token"))
    BY <1>26, OtherWhere
  <2>2. EscrowC!Default("tokenProgram", EscrowC!Fixed("token"))
          = [account |-> "tokenProgram", from |-> Fixed("token")]
    BY DEF EscrowC!Default, EscrowC!Derivation, EscrowC!Fixed, Fixed, Derivation
  <2>3. /\ "tokenProgram" \notin Bottom
        /\ Reads(Fixed("token")) \subseteq Bottom \cup Middle \cup {"booking"}
        /\ "tokenProgram" = "booking" => Reads(Fixed("token")) \subseteq Bottom \cup Middle
        /\ "tokenProgram" \in Middle => Reads(Fixed("token")) \subseteq Bottom
    BY ReadsOf DEF Bottom, Middle
  <2> QED BY <2>1, <2>2, <2>3, SureDefault
<1>27. ASSUME T["bookingDaysNext"] = Occupied(ListingOf(stay), NextYear(Stay[stay].checkIn)),
              T["property"] = ListingOf(stay)
       PROVE  P(EscrowA!BookedDays("bookingDaysNext", "nextYear"))
  <2>1. At(T, args, "bookingDaysNext", DaysOf(Key("property"), Arg("nextYear", "checkIn")))
    BY <1>27, <1>1, StayCreatedWhere
  <2>2. Seated(Needed("bookingDaysNext", BookingDays,
          {DaysOf(Key("property"), Arg("nextYear", "checkIn"))}), T, args)
    BY <2>1, NewSeated
  <2>3. EscrowA!BookedDays("bookingDaysNext", "nextYear")
          = Needed("bookingDaysNext", BookingDays,
                  {DaysOf(Key("property"), Arg("nextYear", "checkIn"))})
    BY DEF EscrowA!BookedDays, Needed, EscrowA!Needed, Rule, EscrowA!Rule, BookingDays,
      EscrowA!BookingDays, DaysOf, EscrowA!DaysOf, Derivation, EscrowA!Derivation, Lit,
      EscrowA!Lit, Key, EscrowA!Key, Arg, EscrowA!Arg
  <2> QED BY <2>2, <2>3
<1>28. ASSUME T["guest"] = Profiled(GuestOf(stay)),
              T["booking"] = StayBooking(stay)
       PROVE  P(EscrowA!PartyRule("guest", "guest"))
  <2>1. /\ At(T, args, "guest", ProfileBy("guest"))
        /\ At(T, args, "guest", Held("booking", "guest"))
        /\ Type(T["guest"]) \in UserProfile
    BY <1>28, ProfileWhere, StayWhere, PlaceKinds
  <2>2. Seated(Ro("guest", UserProfile, {ProfileBy("guest"), Held("booking", "guest")}), T, args)
    BY <2>1, KnownSeated
  <2>3. EscrowA!PartyRule("guest", "guest")
          = Ro("guest", UserProfile, {ProfileBy("guest"), Held("booking", "guest")})
    BY DEF EscrowA!PartyRule, Ro, EscrowA!Ro, Rule, EscrowA!Rule, UserProfile,
      EscrowA!UserProfile, ProfileBy, EscrowA!ProfileBy, Derivation, EscrowA!Derivation,
      Lit, EscrowA!Lit, Field, EscrowA!Field, Held, EscrowA!Held
  <2> QED BY <2>2, <2>3
<1>29. ASSUME T["booking"] = StayBooking(stay)
       PROVE  P(EscrowA!Closed("booking", EscrowA!Booking, {EscrowA!BookingBy("booking")}))
  <2>1. /\ At(T, args, "booking", BookingBy("booking"))
        /\ Type(T["booking"]) \in Booking
    BY <1>29, StayWhere, PlaceKinds
  <2>2. Seated(Closed("booking", Booking, {BookingBy("booking")}), T, args)
    BY <2>1, KnownSeated
  <2>3. EscrowA!Closed("booking", EscrowA!Booking, {EscrowA!BookingBy("booking")})
          = Closed("booking", Booking, {BookingBy("booking")})
    BY DEF Closed, EscrowA!Closed, Rule, EscrowA!Rule, Booking, EscrowA!Booking, BookingBy,
      EscrowA!BookingBy, BookingOf, EscrowA!BookingOf, Derivation, EscrowA!Derivation, Lit,
      EscrowA!Lit, Field, EscrowA!Field
  <2> QED BY <2>2, <2>3
<1>30. ASSUME T["escrowTokenAccount"] = MoneyOf(StayBooking(stay)),
              T["booking"] = StayBooking(stay)
       PROVE  P(EscrowA!OwnTokensRule)
  <2>1. /\ At(T, args, "escrowTokenAccount", EscrowTokensOf("booking"))
        /\ Type(T["escrowTokenAccount"]) \in TokenAccount
    BY <1>30, OtherWhere, PlaceKinds
  <2>2. Seated(Closed("escrowTokenAccount", TokenAccount, {EscrowTokensOf("booking")}), T, args)
    BY <2>1, KnownSeated
  <2>3. EscrowA!OwnTokensRule
          = Closed("escrowTokenAccount", TokenAccount, {EscrowTokensOf("booking")})
    BY DEF EscrowA!OwnTokensRule, Closed, EscrowA!Closed, Rule, EscrowA!Rule, TokenAccount,
      EscrowA!TokenAccount, EscrowTokensOf, EscrowA!EscrowTokensOf, Derivation,
      EscrowA!Derivation, Lit, EscrowA!Lit, Key, EscrowA!Key
  <2> QED BY <2>2, <2>3
<1>31. ASSUME T["guestTokenAccount"] = TokensOf(GuestOf(stay)),
              T["guest"] = Profiled(GuestOf(stay))
       PROVE  P(EscrowA!TokensRule("guestTokenAccount", "guest"))
  <2>1. /\ At(T, args, "guestTokenAccount", TokensBy("guest"))
        /\ Type(T["guestTokenAccount"]) \in TokenAccount
    BY <1>31, OwnerWhere, PlaceKinds
  <2>2. Seated(Mut("guestTokenAccount", TokenAccount, {TokensBy("guest")}), T, args)
    BY <2>1, KnownSeated
  <2>3. EscrowA!TokensRule("guestTokenAccount", "guest")
          = Mut("guestTokenAccount", TokenAccount, {TokensBy("guest")})
    BY DEF EscrowA!TokensRule, Mut, EscrowA!Mut, Rule, EscrowA!Rule, TokenAccount,
      EscrowA!TokenAccount, TokensBy, EscrowA!TokensBy, Derivation, EscrowA!Derivation,
      Field, EscrowA!Field
  <2> QED BY <2>2, <2>3
<1>32. ASSUME T["bookingDays"] = Occupied(ListingOf(stay), Year[Stay[stay].checkIn]),
              T["booking"] = StayBooking(stay)
       PROVE  P(EscrowA!DaysRule)
  <2>1. /\ At(T, args, "bookingDays", DaysBy("booking"))
        /\ Type(T["bookingDays"]) \in BookingDays
    BY <1>32, StayWhere, PlaceKinds
  <2>2. Seated(Mut("bookingDays", BookingDays, {DaysBy("booking")}), T, args)
    BY <2>1, KnownSeated
  <2>3. EscrowA!DaysRule = Mut("bookingDays", BookingDays, {DaysBy("booking")})
    BY DEF EscrowA!DaysRule, Mut, EscrowA!Mut, Rule, EscrowA!Rule, BookingDays,
      EscrowA!BookingDays, DaysBy, EscrowA!DaysBy, DaysOf, EscrowA!DaysOf, Derivation,
      EscrowA!Derivation, Lit, EscrowA!Lit, Field, EscrowA!Field
  <2> QED BY <2>2, <2>3
<1>33. ASSUME T["bookingDaysNext"] = Occupied(ListingOf(stay), NextYear(Stay[stay].checkIn)),
              T["booking"] = StayBooking(stay)
       PROVE  P(EscrowA!NextDaysRule)
  <2>1. /\ At(T, args, "bookingDaysNext", NextDaysBy("booking"))
        /\ Type(T["bookingDaysNext"]) \in BookingDays
    BY <1>33, StayWhere, PlaceKinds
  <2>2. Seated(Mut("bookingDaysNext", BookingDays, {NextDaysBy("booking")}), T, args)
    BY <2>1, KnownSeated
  <2>3. EscrowA!NextDaysRule = Mut("bookingDaysNext", BookingDays, {NextDaysBy("booking")})
    BY DEF EscrowA!NextDaysRule, Mut, EscrowA!Mut, Rule, EscrowA!Rule, BookingDays,
      EscrowA!BookingDays, NextDaysBy, EscrowA!NextDaysBy, DaysOf, EscrowA!DaysOf,
      Derivation, EscrowA!Derivation, Lit, EscrowA!Lit, Field, EscrowA!Field
  <2> QED BY <2>2, <2>3
<1>34. ASSUME T["caller"] = GuestOf(stay),
              T["guestProfile"] = Profiled(GuestOf(stay))
       PROVE  P(EscrowA!MutSigns("caller", {EscrowA!Held("guestProfile", "authority")}))
  <2>1. At(T, args, "caller", Held("guestProfile", "authority"))
    BY <1>34, OwnerWhere
  <2>2. Seated(MutSigns("caller", {Held("guestProfile", "authority")}), T, args)
    BY <2>1, FreeSeated
  <2>3. EscrowA!MutSigns("caller", {EscrowA!Held("guestProfile", "authority")})
          = MutSigns("caller", {Held("guestProfile", "authority")})
    BY DEF MutSigns, EscrowA!MutSigns, Rule, EscrowA!Rule, AnyType, EscrowA!AnyType, Held,
      EscrowA!Held, Derivation, EscrowA!Derivation, Field, EscrowA!Field
  <2> QED BY <2>2, <2>3
<1>35. ASSUME T["guestProfile"] = Profiled(GuestOf(stay)),
              T["booking"] = StayBooking(stay)
       PROVE  P(EscrowA!PartyRule("guestProfile", "guest"))
  <2>1. /\ At(T, args, "guestProfile", ProfileBy("guestProfile"))
        /\ At(T, args, "guestProfile", Held("booking", "guest"))
        /\ Type(T["guestProfile"]) \in UserProfile
    BY <1>35, ProfileWhere, StayWhere, PlaceKinds
  <2>2. Seated(Ro("guestProfile", UserProfile,
          {ProfileBy("guestProfile"), Held("booking", "guest")}), T, args)
    BY <2>1, KnownSeated
  <2>3. EscrowA!PartyRule("guestProfile", "guest")
          = Ro("guestProfile", UserProfile, {ProfileBy("guestProfile"), Held("booking", "guest")})
    BY DEF EscrowA!PartyRule, Ro, EscrowA!Ro, Rule, EscrowA!Rule, UserProfile,
      EscrowA!UserProfile, ProfileBy, EscrowA!ProfileBy, Derivation, EscrowA!Derivation,
      Lit, EscrowA!Lit, Field, EscrowA!Field, Held, EscrowA!Held
  <2> QED BY <2>2, <2>3
<1>36. ASSUME T["hostProfile"] = Profiled(HostOf(stay)),
              T["booking"] = StayBooking(stay)
       PROVE  P(EscrowA!PartyRule("hostProfile", "host"))
  <2>1. /\ At(T, args, "hostProfile", ProfileBy("hostProfile"))
        /\ At(T, args, "hostProfile", Held("booking", "host"))
        /\ Type(T["hostProfile"]) \in UserProfile
    BY <1>36, ProfileWhere, StayWhere, PlaceKinds
  <2>2. Seated(Ro("hostProfile", UserProfile, {ProfileBy("hostProfile"), Held("booking", "host")}),
          T, args)
    BY <2>1, KnownSeated
  <2>3. EscrowA!PartyRule("hostProfile", "host")
          = Ro("hostProfile", UserProfile, {ProfileBy("hostProfile"), Held("booking", "host")})
    BY DEF EscrowA!PartyRule, Ro, EscrowA!Ro, Rule, EscrowA!Rule, UserProfile,
      EscrowA!UserProfile, ProfileBy, EscrowA!ProfileBy, Derivation, EscrowA!Derivation,
      Lit, EscrowA!Lit, Field, EscrowA!Field, Held, EscrowA!Held
  <2> QED BY <2>2, <2>3
<1>37. ASSUME T["guestReputation"] = Reputed(GuestOf(stay)),
              T["guestProfile"] = Profiled(GuestOf(stay))
       PROVE  P(EscrowA!Mut("guestReputation", EscrowA!ReputationProfile,
                {EscrowA!ReputationBy("guestProfile")}))
  <2>1. /\ At(T, args, "guestReputation", ReputationBy("guestProfile"))
        /\ Type(T["guestReputation"]) \in ReputationProfile
    BY <1>37, OwnerWhere, PlaceKinds
  <2>2. Seated(Mut("guestReputation", ReputationProfile, {ReputationBy("guestProfile")}), T, args)
    BY <2>1, KnownSeated
  <2>3. EscrowA!Mut("guestReputation", EscrowA!ReputationProfile,
          {EscrowA!ReputationBy("guestProfile")})
                  = Mut("guestReputation", ReputationProfile, {ReputationBy("guestProfile")})
    BY DEF Mut, EscrowA!Mut, Rule, EscrowA!Rule, ReputationProfile,
      EscrowA!ReputationProfile, ReputationBy, EscrowA!ReputationBy, Derivation,
      EscrowA!Derivation, Lit, EscrowA!Lit, Field, EscrowA!Field
  <2> QED BY <2>2, <2>3
<1>38. ASSUME T["guestTokenAccount"] = TokensOf(GuestOf(stay)),
              T["guestProfile"] = Profiled(GuestOf(stay))
       PROVE  P(EscrowA!TokensRule("guestTokenAccount", "guestProfile"))
  <2>1. /\ At(T, args, "guestTokenAccount", TokensBy("guestProfile"))
        /\ Type(T["guestTokenAccount"]) \in TokenAccount
    BY <1>38, OwnerWhere, PlaceKinds
  <2>2. Seated(Mut("guestTokenAccount", TokenAccount, {TokensBy("guestProfile")}), T, args)
    BY <2>1, KnownSeated
  <2>3. EscrowA!TokensRule("guestTokenAccount", "guestProfile")
          = Mut("guestTokenAccount", TokenAccount, {TokensBy("guestProfile")})
    BY DEF EscrowA!TokensRule, Mut, EscrowA!Mut, Rule, EscrowA!Rule, TokenAccount,
      EscrowA!TokenAccount, TokensBy, EscrowA!TokensBy, Derivation, EscrowA!Derivation,
      Field, EscrowA!Field
  <2> QED BY <2>2, <2>3
<1>39. ASSUME T["hostTokenAccount"] = TokensOf(HostOf(stay)),
              T["hostProfile"] = Profiled(HostOf(stay))
       PROVE  P(EscrowA!TokensRule("hostTokenAccount", "hostProfile"))
  <2>1. /\ At(T, args, "hostTokenAccount", TokensBy("hostProfile"))
        /\ Type(T["hostTokenAccount"]) \in TokenAccount
    BY <1>39, OwnerWhere, PlaceKinds
  <2>2. Seated(Mut("hostTokenAccount", TokenAccount, {TokensBy("hostProfile")}), T, args)
    BY <2>1, KnownSeated
  <2>3. EscrowA!TokensRule("hostTokenAccount", "hostProfile")
          = Mut("hostTokenAccount", TokenAccount, {TokensBy("hostProfile")})
    BY DEF EscrowA!TokensRule, Mut, EscrowA!Mut, Rule, EscrowA!Rule, TokenAccount,
      EscrowA!TokenAccount, TokensBy, EscrowA!TokensBy, Derivation, EscrowA!Derivation,
      Field, EscrowA!Field
  <2> QED BY <2>2, <2>3
<1>40. ASSUME T["platformVault"] = PlatformVault
       PROVE  P(EscrowA!VaultRule("platformVault"))
  <2>1. /\ At(T, args, "platformVault", Held("globalConfig", "platformVault"))
        /\ Type(T["platformVault"]) \in TokenAccount
    BY <1>40, OtherWhere, PlaceKinds
  <2>2. Seated(Mut("platformVault", TokenAccount, {Held("globalConfig", "platformVault")}), T, args)
    BY <2>1, KnownSeated
  <2>3. EscrowA!VaultRule("platformVault")
          = Mut("platformVault", TokenAccount, {Held("globalConfig", "platformVault")})
    BY DEF VaultRule, EscrowA!VaultRule, Mut, EscrowA!Mut, Rule, EscrowA!Rule, TokenAccount,
      EscrowA!TokenAccount, Held, EscrowA!Held, Derivation, EscrowA!Derivation, Field,
      EscrowA!Field
  <2> QED BY <2>2, <2>3
<1>41. ASSUME T["mint"] = Mint
       PROVE  P(EscrowA!MutMintRule("mint"))
  <2>1. /\ At(T, args, "mint", Held("globalConfig", "usdcMint"))
        /\ Type(T["mint"]) \in MintType
    BY <1>41, OtherWhere, PlaceKinds
  <2>2. Seated(Mut("mint", MintType, {Held("globalConfig", "usdcMint")}), T, args)
    BY <2>1, KnownSeated
  <2>3. EscrowA!MutMintRule("mint") = Mut("mint", MintType, {Held("globalConfig", "usdcMint")})
    BY DEF MutMintRule, EscrowA!MutMintRule, Mut, EscrowA!Mut, Rule, EscrowA!Rule, MintType,
      EscrowA!MintType, Held, EscrowA!Held, Derivation, EscrowA!Derivation, Field,
      EscrowA!Field
  <2> QED BY <2>2, <2>3
<1>42. ASSUME T["staykeCoreProgram"] = Deployed("core")
       PROVE  P(EscrowA!CoreProgramRule)
  <2>1. At(T, args, "staykeCoreProgram", Fixed("core"))
    BY <1>42, OtherWhere
  <2>2. Seated(Unchecked("staykeCoreProgram", {Fixed("core")}), T, args)
    BY <2>1, FreeSeated
  <2>3. EscrowA!CoreProgramRule = Unchecked("staykeCoreProgram", {Fixed("core")})
    BY DEF EscrowA!CoreProgramRule, ProgramRule, EscrowA!ProgramRule, Unchecked,
      EscrowA!Unchecked, Rule, EscrowA!Rule, AnyType, EscrowA!AnyType, Fixed, EscrowA!Fixed,
      Derivation, EscrowA!Derivation
  <2> QED BY <2>2, <2>3
<1>43. ASSUME T["staykeCoreProgram"] = Deployed("core")
       PROVE  Q(EscrowC!Default("staykeCoreProgram", EscrowC!Fixed("core")))
  <2>1. At(T, args, "staykeCoreProgram", Fixed("core"))
    BY <1>43, OtherWhere
  <2>2. EscrowC!Default("staykeCoreProgram", EscrowC!Fixed("core"))
          = [account |-> "staykeCoreProgram", from |-> Fixed("core")]
    BY DEF EscrowC!Default, EscrowC!Derivation, EscrowC!Fixed, Fixed, Derivation
  <2>3. /\ "staykeCoreProgram" \notin Bottom
        /\ Reads(Fixed("core")) \subseteq Bottom \cup Middle \cup {"booking"}
        /\ "staykeCoreProgram" = "booking" => Reads(Fixed("core")) \subseteq Bottom \cup Middle
        /\ "staykeCoreProgram" \in Middle => Reads(Fixed("core")) \subseteq Bottom
    BY ReadsOf DEF Bottom, Middle
  <2> QED BY <2>1, <2>2, <2>3, SureDefault
<1>44. P(EscrowA!Signs("guest", {}))
  <2>1. Seated(Signs("guest", {}), T, args)
    BY FreeSeated
  <2>2. EscrowA!Signs("guest", {}) = Signs("guest", {})
    BY DEF Signs, EscrowA!Signs, Rule, EscrowA!Rule, AnyType, EscrowA!AnyType
  <2> QED BY <2>1, <2>2
<1>45. ASSUME T["guestProfile"] = Profiled(GuestOf(stay)),
              T["guest"] = GuestOf(stay),
              T["booking"] = StayBooking(stay)
       PROVE  P(EscrowA!Ro("guestProfile", EscrowA!UserProfile,
                {EscrowA!ProfileOf("guest"), EscrowA!Held("booking", "guest")}))
  <2>1. /\ At(T, args, "guestProfile", ProfileOf("guest"))
        /\ At(T, args, "guestProfile", Held("booking", "guest"))
        /\ Type(T["guestProfile"]) \in UserProfile
    BY <1>45, ProfileWhere, StayWhere, PlaceKinds
  <2>2. Seated(Ro("guestProfile", UserProfile, {ProfileOf("guest"), Held("booking", "guest")}), T,
          args)
    BY <2>1, KnownSeated
  <2>3. EscrowA!Ro("guestProfile", EscrowA!UserProfile,
          {EscrowA!ProfileOf("guest"), EscrowA!Held("booking", "guest")})
                  = Ro("guestProfile", UserProfile, {ProfileOf("guest"), Held("booking", "guest")})
    BY DEF Ro, EscrowA!Ro, Rule, EscrowA!Rule, UserProfile, EscrowA!UserProfile, ProfileOf,
      EscrowA!ProfileOf, Derivation, EscrowA!Derivation, Lit, EscrowA!Lit, Key, EscrowA!Key,
      Held, EscrowA!Held, Field, EscrowA!Field
  <2> QED BY <2>2, <2>3
<1>46. ASSUME T["hostReputation"] = Reputed(HostOf(stay)),
              T["hostProfile"] = Profiled(HostOf(stay))
       PROVE  P(EscrowA!Mut("hostReputation", EscrowA!ReputationProfile,
                {EscrowA!ReputationBy("hostProfile")}))
  <2>1. /\ At(T, args, "hostReputation", ReputationBy("hostProfile"))
        /\ Type(T["hostReputation"]) \in ReputationProfile
    BY <1>46, OwnerWhere, PlaceKinds
  <2>2. Seated(Mut("hostReputation", ReputationProfile, {ReputationBy("hostProfile")}), T, args)
    BY <2>1, KnownSeated
  <2>3. EscrowA!Mut("hostReputation", EscrowA!ReputationProfile,
          {EscrowA!ReputationBy("hostProfile")})
                  = Mut("hostReputation", ReputationProfile, {ReputationBy("hostProfile")})
    BY DEF Mut, EscrowA!Mut, Rule, EscrowA!Rule, ReputationProfile,
      EscrowA!ReputationProfile, ReputationBy, EscrowA!ReputationBy, Derivation,
      EscrowA!Derivation, Lit, EscrowA!Lit, Field, EscrowA!Field
  <2> QED BY <2>2, <2>3
<1>47. ASSUME T["listing"] = ListingOf(stay),
              T["booking"] = StayBooking(stay),
              T["hostProfile"] = Profiled(HostOf(stay))
       PROVE  P(EscrowA!Mut("listing", EscrowA!Listing,
                {EscrowA!Held("booking", "property"),
                        EscrowA!SameListing("hostProfile", "listing")}))
  <2>1. /\ At(T, args, "listing", Held("booking", "property"))
        /\ At(T, args, "listing", SameListing("hostProfile", "listing"))
        /\ Type(T["listing"]) \in Listing
    BY <1>47, StayWhere, ListingWhere, PlaceKinds DEF ListingOf
  <2>2. Seated(Mut("listing", Listing,
          {Held("booking", "property"), SameListing("hostProfile", "listing")}), T, args)
    BY <2>1, KnownSeated
  <2>3. EscrowA!Mut("listing", EscrowA!Listing,
          {EscrowA!Held("booking", "property"), EscrowA!SameListing("hostProfile", "listing")})
                  = Mut("listing", Listing,
                          {Held("booking", "property"), SameListing("hostProfile", "listing")})
    BY DEF Mut, EscrowA!Mut, Rule, EscrowA!Rule, Listing, EscrowA!Listing, Held,
      EscrowA!Held, Derivation, EscrowA!Derivation, Field, EscrowA!Field, SameListing,
      EscrowA!SameListing, ListingAt, EscrowA!ListingAt, Lit, EscrowA!Lit, Key, EscrowA!Key
  <2> QED BY <2>2, <2>3
<1>48. ASSUME T["guestProfile"] = Profiled(GuestOf(stay)),
              T["guest"] = GuestOf(stay)
       PROVE  Q(EscrowC!Default("guestProfile", EscrowC!UserProfileOf("guest")))
  <2>1. At(T, args, "guestProfile", ProfileOf("guest"))
    BY <1>48, ProfileWhere
  <2>2. EscrowC!Default("guestProfile", EscrowC!UserProfileOf("guest"))
          = [account |-> "guestProfile", from |-> ProfileOf("guest")]
    BY DEF EscrowC!Default, EscrowC!UserProfileOf, EscrowC!Derivation, EscrowC!Lit,
      EscrowC!Key, ProfileOf, Derivation, Lit, Key
  <2>3. /\ "guestProfile" \notin Bottom
        /\ Reads(ProfileOf("guest")) \subseteq Bottom \cup Middle \cup {"booking"}
        /\ "guestProfile" = "booking" => Reads(ProfileOf("guest")) \subseteq Bottom \cup Middle
        /\ "guestProfile" \in Middle => Reads(ProfileOf("guest")) \subseteq Bottom
    BY ReadsOf DEF Bottom, Middle
  <2> QED BY <2>1, <2>2, <2>3, SureDefault
<1>49. P(EscrowA!Signs("host", {}))
  <2>1. Seated(Signs("host", {}), T, args)
    BY FreeSeated
  <2>2. EscrowA!Signs("host", {}) = Signs("host", {})
    BY DEF Signs, EscrowA!Signs, Rule, EscrowA!Rule, AnyType, EscrowA!AnyType
  <2> QED BY <2>1, <2>2
<1>50. ASSUME T["hostProfile"] = Profiled(HostOf(stay)),
              T["host"] = HostOf(stay),
              T["booking"] = StayBooking(stay)
       PROVE  P(EscrowA!Ro("hostProfile", EscrowA!UserProfile,
                {EscrowA!ProfileOf("host"), EscrowA!Held("booking", "host")}))
  <2>1. /\ At(T, args, "hostProfile", ProfileOf("host"))
        /\ At(T, args, "hostProfile", Held("booking", "host"))
        /\ Type(T["hostProfile"]) \in UserProfile
    BY <1>50, ProfileWhere, StayWhere, PlaceKinds
  <2>2. Seated(Ro("hostProfile", UserProfile, {ProfileOf("host"), Held("booking", "host")}), T,
          args)
    BY <2>1, KnownSeated
  <2>3. EscrowA!Ro("hostProfile", EscrowA!UserProfile,
          {EscrowA!ProfileOf("host"), EscrowA!Held("booking", "host")})
                  = Ro("hostProfile", UserProfile, {ProfileOf("host"), Held("booking", "host")})
    BY DEF Ro, EscrowA!Ro, Rule, EscrowA!Rule, UserProfile, EscrowA!UserProfile, ProfileOf,
      EscrowA!ProfileOf, Derivation, EscrowA!Derivation, Lit, EscrowA!Lit, Key, EscrowA!Key,
      Held, EscrowA!Held, Field, EscrowA!Field
  <2> QED BY <2>2, <2>3
<1>51. ASSUME T["hostProfile"] = Profiled(HostOf(stay)),
              T["host"] = HostOf(stay)
       PROVE  Q(EscrowC!Default("hostProfile", EscrowC!UserProfileOf("host")))
  <2>1. At(T, args, "hostProfile", ProfileOf("host"))
    BY <1>51, ProfileWhere
  <2>2. EscrowC!Default("hostProfile", EscrowC!UserProfileOf("host"))
          = [account |-> "hostProfile", from |-> ProfileOf("host")]
    BY DEF EscrowC!Default, EscrowC!UserProfileOf, EscrowC!Derivation, EscrowC!Lit,
      EscrowC!Key, ProfileOf, Derivation, Lit, Key
  <2>3. /\ "hostProfile" \notin Bottom
        /\ Reads(ProfileOf("host")) \subseteq Bottom \cup Middle \cup {"booking"}
        /\ "hostProfile" = "booking" => Reads(ProfileOf("host")) \subseteq Bottom \cup Middle
        /\ "hostProfile" \in Middle => Reads(ProfileOf("host")) \subseteq Bottom
    BY ReadsOf DEF Bottom, Middle
  <2> QED BY <2>1, <2>2, <2>3, SureDefault
<1>52. ASSUME T["caller"] = HostOf(stay),
              T["hostProfile"] = Profiled(HostOf(stay))
       PROVE  P(EscrowA!MutSigns("caller", {EscrowA!Held("hostProfile", "authority")}))
  <2>1. At(T, args, "caller", Held("hostProfile", "authority"))
    BY <1>52, OwnerWhere
  <2>2. Seated(MutSigns("caller", {Held("hostProfile", "authority")}), T, args)
    BY <2>1, FreeSeated
  <2>3. EscrowA!MutSigns("caller", {EscrowA!Held("hostProfile", "authority")})
          = MutSigns("caller", {Held("hostProfile", "authority")})
    BY DEF MutSigns, EscrowA!MutSigns, Rule, EscrowA!Rule, AnyType, EscrowA!AnyType, Held,
      EscrowA!Held, Derivation, EscrowA!Derivation, Field, EscrowA!Field
  <2> QED BY <2>2, <2>3
<1>53. ASSUME T["hostProfile"] = Profiled(HostOf(stay)),
              T["booking"] = StayBooking(stay)
       PROVE  P(EscrowA!MutPartyRule("hostProfile", "host"))
  <2>1. /\ At(T, args, "hostProfile", ProfileBy("hostProfile"))
        /\ At(T, args, "hostProfile", Held("booking", "host"))
        /\ Type(T["hostProfile"]) \in UserProfile
    BY <1>53, ProfileWhere, StayWhere, PlaceKinds
  <2>2. Seated(Mut("hostProfile", UserProfile,
          {ProfileBy("hostProfile"), Held("booking", "host")}), T, args)
    BY <2>1, KnownSeated
  <2>3. EscrowA!MutPartyRule("hostProfile", "host")
          = Mut("hostProfile", UserProfile, {ProfileBy("hostProfile"), Held("booking", "host")})
    BY DEF EscrowA!MutPartyRule, Mut, EscrowA!Mut, Rule, EscrowA!Rule, UserProfile,
      EscrowA!UserProfile, ProfileBy, EscrowA!ProfileBy, Derivation, EscrowA!Derivation,
      Lit, EscrowA!Lit, Field, EscrowA!Field, Held, EscrowA!Held
  <2> QED BY <2>2, <2>3
<1>54. ASSUME T["treasuryConfig"] = Address("treasury", <<Lit("treasury_config")>>)
       PROVE  P(EscrowA!Ro("treasuryConfig", EscrowA!TreasuryConfigAcc,
                {EscrowA!TreasuryConfigPda}))
  <2>1. /\ At(T, args, "treasuryConfig", TreasuryConfigPda)
        /\ Type(T["treasuryConfig"]) \in TreasuryConfigAcc
    BY <1>54, OtherWhere, PlaceKinds DEF TreasuryConfigPda
  <2>2. Seated(Ro("treasuryConfig", TreasuryConfigAcc, {TreasuryConfigPda}), T, args)
    BY <2>1, KnownSeated
  <2>3. EscrowA!Ro("treasuryConfig", EscrowA!TreasuryConfigAcc, {EscrowA!TreasuryConfigPda})
          = Ro("treasuryConfig", TreasuryConfigAcc, {TreasuryConfigPda})
    BY DEF Ro, EscrowA!Ro, Rule, EscrowA!Rule, TreasuryConfigAcc, EscrowA!TreasuryConfigAcc,
      TreasuryConfigPda, EscrowA!TreasuryConfigPda, Derivation, EscrowA!Derivation, Lit,
      EscrowA!Lit
  <2> QED BY <2>2, <2>3
<1>55. ASSUME T["treasuryVault"] = TreasuryVault
       PROVE  P(EscrowA!Mut("treasuryVault", EscrowA!TokenAccount,
                {EscrowA!Held("treasuryConfig", "treasuryVault")}))
  <2>1. /\ At(T, args, "treasuryVault", Held("treasuryConfig", "treasuryVault"))
        /\ Type(T["treasuryVault"]) \in TokenAccount
    BY <1>55, OtherWhere, PlaceKinds
  <2>2. Seated(Mut("treasuryVault", TokenAccount, {Held("treasuryConfig", "treasuryVault")}), T,
          args)
    BY <2>1, KnownSeated
  <2>3. EscrowA!Mut("treasuryVault", EscrowA!TokenAccount,
          {EscrowA!Held("treasuryConfig", "treasuryVault")})
                  = Mut("treasuryVault", TokenAccount, {Held("treasuryConfig", "treasuryVault")})
    BY DEF Mut, EscrowA!Mut, Rule, EscrowA!Rule, TokenAccount, EscrowA!TokenAccount, Held,
      EscrowA!Held, Derivation, EscrowA!Derivation, Field, EscrowA!Field
  <2> QED BY <2>2, <2>3
<1>56. P(EscrowA!Unchecked("treasuryPda", {}))
  <2>1. Seated(Unchecked("treasuryPda", {}), T, args)
    BY FreeSeated
  <2>2. EscrowA!Unchecked("treasuryPda", {}) = Unchecked("treasuryPda", {})
    BY DEF Unchecked, EscrowA!Unchecked, Rule, EscrowA!Rule, AnyType, EscrowA!AnyType
  <2> QED BY <2>1, <2>2
<1>57. ASSUME T["staykeTreasuryProgram"] = Deployed("treasury")
       PROVE  P(EscrowA!ProgramRule("staykeTreasuryProgram", "treasury"))
  <2>1. At(T, args, "staykeTreasuryProgram", Fixed("treasury"))
    BY <1>57, OtherWhere
  <2>2. Seated(Unchecked("staykeTreasuryProgram", {Fixed("treasury")}), T, args)
    BY <2>1, FreeSeated
  <2>3. EscrowA!ProgramRule("staykeTreasuryProgram", "treasury")
          = Unchecked("staykeTreasuryProgram", {Fixed("treasury")})
    BY DEF ProgramRule, EscrowA!ProgramRule, Unchecked, EscrowA!Unchecked, Rule,
      EscrowA!Rule, AnyType, EscrowA!AnyType, Fixed, EscrowA!Fixed, Derivation,
      EscrowA!Derivation
  <2> QED BY <2>2, <2>3
<1>58. ASSUME T["treasuryConfig"] = Address("treasury", <<Lit("treasury_config")>>)
       PROVE  Q(EscrowC!Default("treasuryConfig", EscrowC!TreasuryConfig))
  <2>1. At(T, args, "treasuryConfig", TreasuryConfigPda)
    BY <1>58, OtherWhere DEF TreasuryConfigPda
  <2>2. EscrowC!Default("treasuryConfig", EscrowC!TreasuryConfig)
          = [account |-> "treasuryConfig", from |-> TreasuryConfigPda]
    BY DEF EscrowC!Default, EscrowC!TreasuryConfig, EscrowC!Derivation, EscrowC!Lit,
      TreasuryConfigPda, Derivation, Lit
  <2>3. /\ "treasuryConfig" \notin Bottom
        /\ Reads(TreasuryConfigPda) \subseteq Bottom \cup Middle \cup {"booking"}
        /\ "treasuryConfig" = "booking" => Reads(TreasuryConfigPda) \subseteq Bottom \cup Middle
        /\ "treasuryConfig" \in Middle => Reads(TreasuryConfigPda) \subseteq Bottom
    BY ReadsOf DEF Bottom, Middle, TreasuryConfigPda
  <2> QED BY <2>1, <2>2, <2>3, SureDefault
<1>59. ASSUME T["staykeTreasuryProgram"] = Deployed("treasury")
       PROVE  Q(EscrowC!Default("staykeTreasuryProgram", EscrowC!Fixed("treasury")))
  <2>1. At(T, args, "staykeTreasuryProgram", Fixed("treasury"))
    BY <1>59, OtherWhere
  <2>2. EscrowC!Default("staykeTreasuryProgram", EscrowC!Fixed("treasury"))
          = [account |-> "staykeTreasuryProgram", from |-> Fixed("treasury")]
    BY DEF EscrowC!Default, EscrowC!Derivation, EscrowC!Fixed, Fixed, Derivation
  <2>3. /\ "staykeTreasuryProgram" \notin Bottom
        /\ Reads(Fixed("treasury")) \subseteq Bottom \cup Middle \cup {"booking"}
        /\ "staykeTreasuryProgram"
             = "booking" => Reads(Fixed("treasury")) \subseteq Bottom \cup Middle
        /\ "staykeTreasuryProgram" \in Middle => Reads(Fixed("treasury")) \subseteq Bottom
    BY ReadsOf DEF Bottom, Middle
  <2> QED BY <2>1, <2>2, <2>3, SureDefault
<1>60. P(EscrowA!CreditedSigns("payer", {}))
  <2>1. Seated(CreditedSigns("payer", {}), T, args)
    BY FreeSeated
  <2>2. EscrowA!CreditedSigns("payer", {}) = CreditedSigns("payer", {})
    BY DEF CreditedSigns, EscrowA!CreditedSigns, Signs, EscrowA!Signs, Rule, EscrowA!Rule,
      AnyType, EscrowA!AnyType
  <2> QED BY <2>1, <2>2
<1>61. ASSUME T["authority"] = Root,
              T["globalConfig"] = Address("config", <<Lit("global_config")>>)
       PROVE  P(EscrowA!MutSigns("authority", {EscrowA!Held("globalConfig", "authority")}))
  <2>1. At(T, args, "authority", Held("globalConfig", "authority"))
    BY <1>61, OtherWhere
  <2>2. Seated(MutSigns("authority", {Held("globalConfig", "authority")}), T, args)
    BY <2>1, FreeSeated
  <2>3. EscrowA!MutSigns("authority", {EscrowA!Held("globalConfig", "authority")})
          = MutSigns("authority", {Held("globalConfig", "authority")})
    BY DEF MutSigns, EscrowA!MutSigns, Rule, EscrowA!Rule, AnyType, EscrowA!AnyType, Held,
      EscrowA!Held, Derivation, EscrowA!Derivation, Field, EscrowA!Field
  <2> QED BY <2>2, <2>3
<1>62. ASSUME T["escrowConfig"] = Address("escrow", <<Lit("escrow_config")>>)
       PROVE  P(EscrowA!New("escrowConfig", EscrowA!EscrowConfig, {EscrowA!EscrowConfigPda}))
  <2>1. At(T, args, "escrowConfig", EscrowConfigPda)
    BY <1>62, OtherWhere DEF EscrowConfigPda
  <2>2. Seated(New("escrowConfig", EscrowConfig, {EscrowConfigPda}), T, args)
    BY <2>1, NewSeated
  <2>3. EscrowA!New("escrowConfig", EscrowA!EscrowConfig, {EscrowA!EscrowConfigPda})
          = New("escrowConfig", EscrowConfig, {EscrowConfigPda})
    BY DEF New, EscrowA!New, Rule, EscrowA!Rule, EscrowConfig, EscrowA!EscrowConfig,
      EscrowConfigPda, EscrowA!EscrowConfigPda, Derivation, EscrowA!Derivation, Lit,
      EscrowA!Lit
  <2> QED BY <2>2, <2>3
<1>63. ASSUME T["escrowConfig"] = Address("escrow", <<Lit("escrow_config")>>)
       PROVE  Q(EscrowC!Default("escrowConfig", EscrowC!FindEscrowConfigPda))
  <2>1. At(T, args, "escrowConfig", EscrowConfigPda)
    BY <1>63, OtherWhere DEF EscrowConfigPda
  <2>2. EscrowC!Default("escrowConfig", EscrowC!FindEscrowConfigPda)
          = [account |-> "escrowConfig", from |-> EscrowConfigPda]
    BY DEF EscrowC!Default, EscrowC!FindEscrowConfigPda, EscrowC!Derivation, EscrowC!Lit,
      EscrowConfigPda, Derivation, Lit
  <2>3. /\ "escrowConfig" \notin Bottom
        /\ Reads(EscrowConfigPda) \subseteq Bottom \cup Middle \cup {"booking"}
        /\ "escrowConfig" = "booking" => Reads(EscrowConfigPda) \subseteq Bottom \cup Middle
        /\ "escrowConfig" \in Middle => Reads(EscrowConfigPda) \subseteq Bottom
    BY ReadsOf DEF Bottom, Middle, EscrowConfigPda
  <2> QED BY <2>1, <2>2, <2>3, SureDefault
<1>64. ASSUME T["guestProfile"] = Profiled(GuestOf(stay)),
              T["booking"] = StayBooking(stay)
       PROVE  P(EscrowA!MutPartyRule("guestProfile", "guest"))
  <2>1. /\ At(T, args, "guestProfile", ProfileBy("guestProfile"))
        /\ At(T, args, "guestProfile", Held("booking", "guest"))
        /\ Type(T["guestProfile"]) \in UserProfile
    BY <1>64, ProfileWhere, StayWhere, PlaceKinds
  <2>2. Seated(Mut("guestProfile", UserProfile,
          {ProfileBy("guestProfile"), Held("booking", "guest")}), T, args)
    BY <2>1, KnownSeated
  <2>3. EscrowA!MutPartyRule("guestProfile", "guest")
          = Mut("guestProfile", UserProfile, {ProfileBy("guestProfile"), Held("booking", "guest")})
    BY DEF EscrowA!MutPartyRule, Mut, EscrowA!Mut, Rule, EscrowA!Rule, UserProfile,
      EscrowA!UserProfile, ProfileBy, EscrowA!ProfileBy, Derivation, EscrowA!Derivation,
      Lit, EscrowA!Lit, Field, EscrowA!Field, Held, EscrowA!Held
  <2> QED BY <2>2, <2>3
<1> HIDE DEF P, Q
<1>65. Apt("bookingCompletes", EscrowC!BookingCompletes, EscrowC!BookingCompletesParse,
        EscrowA!BookingCompletes)
  <2> DEFINE N == EscrowC!BookingCompletesParse
         M == Means("escrow", "bookingCompletes", stay, as)
         L == EscrowA!BookingCompletes
         D == EscrowC!BookingCompletes.defaults
  <2>1. /\ 2 \in DOMAIN N /\ N[2] = "booking"
    BY DEF EscrowC!BookingCompletesParse
  <2>2. \A i \in DOMAIN N : N[i] \in PlacedNames \cup {"payer"}
    BY SMTT(60) DEF EscrowC!BookingCompletesParse, PlacedNames, OwnPlaces, SharedNames
  <2> HIDE DEF N
  <2>3. ASSUME as \in Roles("bookingCompletes"), Agree(T, N, M)
        PROVE  /\ \A i \in DOMAIN L : P(L[i])
               /\ \A i \in DOMAIN D : S("bookingCompletes", D[i])
    <3>0. MeantAt(M, "escrow", "bookingCompletes", stay, as)
      BY MeansPlaces
    <3> HIDE DEF M
    <3>1. as = "guest"
      BY <2>3 DEF Roles, PartyOps, HostOps
    <3>2. /\ T["booking"] = M["booking"]
      BY <2>1, <2>3 DEF Agree
    <3>4. /\ M["booking"] = StayBooking(stay)
      BY <3>0 DEF MeantAt
    <3>5. /\ T["booking"] = StayBooking(stay)
      BY <3>2, <3>4
    <3>6. /\ P(EscrowA!MutSigns("payer", {}))
          /\ P(EscrowA!BookingRule)
      BY <3>5, <1>2, <1>3
    <3>7. \A i \in DOMAIN L : P(L[i])
      BY <3>6, SMTT(60) DEF EscrowA!BookingCompletes
    <3>8. \A i \in DOMAIN D : S("bookingCompletes", D[i])
      BY SMTT(60) DEF EscrowC!BookingCompletes, EscrowC!Builder
    <3> QED BY <3>7, <3>8
  <2> QED BY <2>2, <2>3 DEF N, M, D
<1>66. Apt("bookingStarts", EscrowC!BookingStarts, EscrowC!BookingStartsParse,
        EscrowA!BookingStarts)
  <2> DEFINE N == EscrowC!BookingStartsParse
         M == Means("escrow", "bookingStarts", stay, as)
         L == EscrowA!BookingStarts
         D == EscrowC!BookingStarts.defaults
  <2>1. /\ 2 \in DOMAIN N /\ N[2] = "booking"
        /\ 3 \in DOMAIN N /\ N[3] = "guest"
        /\ 4 \in DOMAIN N /\ N[4] = "hostProfile"
        /\ 5 \in DOMAIN N /\ N[5] = "cpiAuthority"
        /\ 6 \in DOMAIN N /\ N[6] = "globalConfig"
        /\ 7 \in DOMAIN N /\ N[7] = "staykeCore"
    BY DEF EscrowC!BookingStartsParse
  <2>2. \A i \in DOMAIN N : N[i] \in PlacedNames \cup {"payer"}
    BY SMTT(60) DEF EscrowC!BookingStartsParse, PlacedNames, OwnPlaces, SharedNames
  <2> HIDE DEF N
  <2>3. ASSUME as \in Roles("bookingStarts"), Agree(T, N, M)
        PROVE  /\ \A i \in DOMAIN L : P(L[i])
               /\ \A i \in DOMAIN D : S("bookingStarts", D[i])
    <3>0. MeantAt(M, "escrow", "bookingStarts", stay, as)
      BY MeansPlaces
    <3> HIDE DEF M
    <3>1. as = "guest"
      BY <2>3 DEF Roles, PartyOps, HostOps
    <3>2. /\ T["booking"] = M["booking"]
          /\ T["guest"] = M["guest"]
          /\ T["hostProfile"] = M["hostProfile"]
          /\ T["cpiAuthority"] = M["cpiAuthority"]
          /\ T["globalConfig"] = M["globalConfig"]
          /\ T["staykeCore"] = M["staykeCore"]
      BY <2>1, <2>3 DEF Agree
    <3>4. /\ M["booking"] = StayBooking(stay)
          /\ M["guest"] = Profiled(GuestOf(stay))
          /\ M["hostProfile"] = Profiled(HostOf(stay))
          /\ M["cpiAuthority"] = Address("escrow", <<Lit("cpi_authority")>>)
          /\ M["globalConfig"] = Address("config", <<Lit("global_config")>>)
          /\ M["staykeCore"] = Deployed("core")
      BY <3>0 DEF MeantAt
    <3>5. /\ T["booking"] = StayBooking(stay)
          /\ T["guest"] = Profiled(GuestOf(stay))
          /\ T["hostProfile"] = Profiled(HostOf(stay))
          /\ T["cpiAuthority"] = Address("escrow", <<Lit("cpi_authority")>>)
          /\ T["globalConfig"] = Address("config", <<Lit("global_config")>>)
          /\ T["staykeCore"] = Deployed("core")
      BY <3>2, <3>4
    <3>6. /\ P(EscrowA!MutSigns("payer", {}))
          /\ P(EscrowA!BookingRule)
          /\ P(EscrowA!MutPartyRule("guest", "guest"))
          /\ P(EscrowA!Ro("hostProfile", EscrowA!UserProfile, {EscrowA!ProfileBy("hostProfile")}))
          /\ P(EscrowA!AuthorityRule)
          /\ P(EscrowA!GlobalConfigRule)
          /\ P(EscrowA!ProgramRule("staykeCore", "core"))
      BY <3>5, <1>2, <1>3, <1>4, <1>5, <1>6, <1>7, <1>8
    <3>7. \A i \in DOMAIN L : P(L[i])
      BY <3>6, SMTT(60) DEF EscrowA!BookingStarts
    <3>8. /\ Q(EscrowC!Default("cpiAuthority", EscrowC!FindCpiAuthorityPda))
          /\ Q(EscrowC!Default("globalConfig", EscrowC!GlobalConfig))
          /\ Q(EscrowC!Default("staykeCore", EscrowC!Fixed("core")))
      BY <3>5, <1>9, <1>10, <1>11
    <3>9. \A i \in DOMAIN D : S("bookingStarts", D[i])
      BY <3>8, SMTT(60) DEF EscrowC!BookingStarts, EscrowC!Builder
    <3> QED BY <3>7, <3>9
  <2> QED BY <2>2, <2>3 DEF N, M, D
<1>67. Apt("cpiResolveDisputeTransfer", EscrowC!CpiResolveDisputeTransfer,
        EscrowC!CpiResolveDisputeTransferParse, EscrowA!ResolveDisputeTransferCpi)
  <2>1. LET metas == EscrowC!CpiResolveDisputeTransfer.accounts
        IN 1 \in DOMAIN metas /\ metas[1].name = "cpiAuthority" /\ metas[1].signer
    BY DEF EscrowC!CpiResolveDisputeTransfer, EscrowC!Builder, EscrowC!Meta, EscrowC!R, EscrowC!W,
            EscrowC!RS, EscrowC!WS
  <2> QED BY <2>1 DEF CpiOnly
<1>68. Apt("cpiUpdateBookingStatus", EscrowC!CpiUpdateBookingStatus,
        EscrowC!CpiUpdateBookingStatusParse, EscrowA!UpdateBookingStatusCpi)
  <2>1. LET metas == EscrowC!CpiUpdateBookingStatus.accounts
        IN 3 \in DOMAIN metas /\ metas[3].name = "cpiAuthority" /\ metas[3].signer
    BY DEF EscrowC!CpiUpdateBookingStatus, EscrowC!Builder, EscrowC!Meta, EscrowC!R, EscrowC!W,
            EscrowC!RS, EscrowC!WS
  <2> QED BY <2>1 DEF CpiOnly
<1>69. Apt("createBooking", EscrowC!CreateBooking, EscrowC!CreateBookingParse,
        EscrowA!CreateBooking)
  <2> DEFINE N == EscrowC!CreateBookingParse
         M == Means("escrow", "createBooking", stay, as)
         L == EscrowA!CreateBooking
         D == EscrowC!CreateBooking.defaults
  <2>1. /\ 2 \in DOMAIN N /\ N[2] = "client"
        /\ 3 \in DOMAIN N /\ N[3] = "clientProfile"
        /\ 4 \in DOMAIN N /\ N[4] = "hostProfile"
        /\ 5 \in DOMAIN N /\ N[5] = "booking"
        /\ 6 \in DOMAIN N /\ N[6] = "property"
        /\ 7 \in DOMAIN N /\ N[7] = "globalConfig"
        /\ 8 \in DOMAIN N /\ N[8] = "systemProgram"
        /\ 9 \in DOMAIN N /\ N[9] = "bookingDays"
        /\ 10 \in DOMAIN N /\ N[10] = "escrowTokenAccount"
        /\ 11 \in DOMAIN N /\ N[11] = "clientTokenAccount"
        /\ 12 \in DOMAIN N /\ N[12] = "mint"
        /\ 13 \in DOMAIN N /\ N[13] = "tokenProgram"
    BY DEF EscrowC!CreateBookingParse
  <2>2. \A i \in DOMAIN N : N[i] \in PlacedNames \cup {"payer"}
    BY SMTT(60) DEF EscrowC!CreateBookingParse, PlacedNames, OwnPlaces, SharedNames
  <2> HIDE DEF N
  <2>3. ASSUME as \in Roles("createBooking"), Agree(T, N, M)
        PROVE  /\ \A i \in DOMAIN L : P(L[i])
               /\ \A i \in DOMAIN D : S("createBooking", D[i])
    <3>0. MeantAt(M, "escrow", "createBooking", stay, as)
      BY MeansPlaces
    <3> HIDE DEF M
    <3>1. as = "guest"
      BY <2>3 DEF Roles, PartyOps, HostOps
    <3>2. /\ T["client"] = M["client"]
          /\ T["clientProfile"] = M["clientProfile"]
          /\ T["hostProfile"] = M["hostProfile"]
          /\ T["booking"] = M["booking"]
          /\ T["property"] = M["property"]
          /\ T["globalConfig"] = M["globalConfig"]
          /\ T["systemProgram"] = M["systemProgram"]
          /\ T["bookingDays"] = M["bookingDays"]
          /\ T["escrowTokenAccount"] = M["escrowTokenAccount"]
          /\ T["clientTokenAccount"] = M["clientTokenAccount"]
          /\ T["mint"] = M["mint"]
          /\ T["tokenProgram"] = M["tokenProgram"]
      BY <2>1, <2>3 DEF Agree
    <3>4. /\ M["client"] = GuestOf(stay)
          /\ M["clientProfile"] = Profiled(GuestOf(stay))
          /\ M["hostProfile"] = Profiled(HostOf(stay))
          /\ M["booking"] = StayBooking(stay)
          /\ M["property"] = ListingOf(stay)
          /\ M["globalConfig"] = Address("config", <<Lit("global_config")>>)
          /\ M["systemProgram"] = Deployed("system")
          /\ M["bookingDays"] = Occupied(ListingOf(stay), Year[Stay[stay].checkIn])
          /\ M["escrowTokenAccount"] = MoneyOf(StayBooking(stay))
          /\ M["clientTokenAccount"] = TokensOf(GuestOf(stay))
          /\ M["mint"] = Mint
          /\ M["tokenProgram"] = Deployed("token")
      BY <3>0 DEF MeantAt
    <3>5. /\ T["client"] = GuestOf(stay)
          /\ T["clientProfile"] = Profiled(GuestOf(stay))
          /\ T["hostProfile"] = Profiled(HostOf(stay))
          /\ T["booking"] = StayBooking(stay)
          /\ T["property"] = ListingOf(stay)
          /\ T["globalConfig"] = Address("config", <<Lit("global_config")>>)
          /\ T["systemProgram"] = Deployed("system")
          /\ T["bookingDays"] = Occupied(ListingOf(stay), Year[Stay[stay].checkIn])
          /\ T["escrowTokenAccount"] = MoneyOf(StayBooking(stay))
          /\ T["clientTokenAccount"] = TokensOf(GuestOf(stay))
          /\ T["mint"] = Mint
          /\ T["tokenProgram"] = Deployed("token")
      BY <3>2, <3>4
    <3>6. /\ P(EscrowA!MutSigns("payer", {}))
          /\ P(EscrowA!Signs("client", {}))
          /\ P(EscrowA!Ro("clientProfile", EscrowA!UserProfile, {EscrowA!ProfileOf("client")}))
          /\ P(EscrowA!Ro("hostProfile", EscrowA!UserProfile, {EscrowA!ProfileBy("hostProfile")}))
          /\ P(EscrowA!New("booking", EscrowA!Booking,
               {EscrowA!BookingOf(EscrowA!Key("property"), EscrowA!Key("clientProfile"),
                       EscrowA!Arg("i64", "checkIn"))}))
          /\ P(EscrowA!Ro("property", EscrowA!Listing,
               {EscrowA!SameListing("hostProfile", "property")}))
          /\ P(EscrowA!GlobalConfigRule)
          /\ P(EscrowA!SystemRule)
          /\ P(EscrowA!BookedDays("bookingDays", "year"))
          /\ P(EscrowA!New("escrowTokenAccount", EscrowA!TokenAccount,
               {EscrowA!EscrowTokensOf("booking")}))
          /\ P(EscrowA!Mut("clientTokenAccount", EscrowA!TokenAccount,
               {EscrowA!TokensOfSigner("client")}))
          /\ P(EscrowA!MintRule("mint"))
          /\ P(EscrowA!TokenRule)
      BY <3>5, <1>2, <1>12, <1>13, <1>5, <1>14, <1>15, <1>7, <1>16, <1>17, <1>18, <1>19,
        <1>20, <1>21
    <3> DEFINE X == {EscrowA!MutSigns("payer", {}),
                        EscrowA!Signs("client", {}),
                        EscrowA!Ro("clientProfile", EscrowA!UserProfile,
                                {EscrowA!ProfileOf("client")}),
                        EscrowA!Ro("hostProfile", EscrowA!UserProfile,
                                {EscrowA!ProfileBy("hostProfile")}),
                        EscrowA!New("booking", EscrowA!Booking,
                                {EscrowA!BookingOf(EscrowA!Key("property"),
                                        EscrowA!Key("clientProfile"),
                                                EscrowA!Arg("i64", "checkIn"))}),
                        EscrowA!Ro("property", EscrowA!Listing,
                                {EscrowA!SameListing("hostProfile", "property")}),
                        EscrowA!GlobalConfigRule,
                        EscrowA!SystemRule,
                        EscrowA!BookedDays("bookingDays", "year"),
                        EscrowA!New("escrowTokenAccount", EscrowA!TokenAccount,
                                {EscrowA!EscrowTokensOf("booking")}),
                        EscrowA!Mut("clientTokenAccount", EscrowA!TokenAccount,
                                {EscrowA!TokensOfSigner("client")}),
                        EscrowA!MintRule("mint"),
                        EscrowA!TokenRule}
    <3>7. \A rule \in X : P(rule)
      BY <3>6
    <3>8. <<EscrowA!MutSigns("payer", {}),
            EscrowA!Signs("client", {}),
            EscrowA!Ro("clientProfile", EscrowA!UserProfile, {EscrowA!ProfileOf("client")}),
            EscrowA!Ro("hostProfile", EscrowA!UserProfile, {EscrowA!ProfileBy("hostProfile")}),
            EscrowA!New("booking", EscrowA!Booking,
                    {EscrowA!BookingOf(EscrowA!Key("property"), EscrowA!Key("clientProfile"),
                            EscrowA!Arg("i64", "checkIn"))}),
            EscrowA!Ro("property", EscrowA!Listing,
                    {EscrowA!SameListing("hostProfile", "property")}),
            EscrowA!GlobalConfigRule,
            EscrowA!SystemRule>> \in Seq(X)
      OBVIOUS
    <3>9. <<EscrowA!BookedDays("bookingDays", "year")>> \in Seq(X)
      OBVIOUS
    <3>10. <<EscrowA!New("escrowTokenAccount", EscrowA!TokenAccount,
            {EscrowA!EscrowTokensOf("booking")}),
            EscrowA!Mut("clientTokenAccount", EscrowA!TokenAccount,
                    {EscrowA!TokensOfSigner("client")}),
            EscrowA!MintRule("mint"),
            EscrowA!TokenRule>> \in Seq(X)
      OBVIOUS
    <3> HIDE DEF X
    <3>11. L \in Seq(X)
      BY <3>8, <3>9, <3>10, Joining DEF EscrowA!CreateBooking, EscrowA!CreateBookingWith
    <3>12. \A i \in DOMAIN L : P(L[i])
      BY <3>7, <3>11
    <3>13. /\ Q(EscrowC!Default("clientProfile", EscrowC!UserProfileOf("client")))
          /\ Q(EscrowC!Default("booking",
               EscrowC!FindBookingPda("property", "clientProfile", "checkIn")))
          /\ Q(EscrowC!Default("globalConfig", EscrowC!GlobalConfig))
          /\ Q(EscrowC!Default("systemProgram", EscrowC!Fixed("system")))
          /\ Q(EscrowC!Default("escrowTokenAccount", EscrowC!FindEscrowTokenAccountPda("booking")))
          /\ Q(EscrowC!Default("tokenProgram", EscrowC!Fixed("token")))
      BY <3>5, <1>22, <1>23, <1>10, <1>24, <1>25, <1>26
    <3>14. \A i \in DOMAIN D : S("createBooking", D[i])
      <4>1. <<"createBooking", "bookingDays">> \in DivergentDefaults
        BY DEF DivergentDefaults
      <4>2. EscrowC!Default("bookingDays",
              EscrowC!FindBookingDaysPda("property", "checkIn")).account = "bookingDays"
        BY DEF EscrowC!Default
      <4> QED BY <4>1, <4>2, <3>13, SMTT(60) DEF EscrowC!CreateBooking, EscrowC!Builder
    <3> QED BY <3>12, <3>14
  <2> QED BY <2>2, <2>3 DEF N, M, D
<1>70. Apt("createBookingCrossYear", EscrowC!CreateBookingCrossYear,
        EscrowC!CreateBookingCrossYearParse, EscrowA!CreateBookingCrossYear)
  <2> DEFINE N == EscrowC!CreateBookingCrossYearParse
         M == Means("escrow", "createBookingCrossYear", stay, as)
         L == EscrowA!CreateBookingCrossYear
         D == EscrowC!CreateBookingCrossYear.defaults
  <2>1. /\ 2 \in DOMAIN N /\ N[2] = "client"
        /\ 3 \in DOMAIN N /\ N[3] = "clientProfile"
        /\ 4 \in DOMAIN N /\ N[4] = "hostProfile"
        /\ 5 \in DOMAIN N /\ N[5] = "booking"
        /\ 6 \in DOMAIN N /\ N[6] = "property"
        /\ 7 \in DOMAIN N /\ N[7] = "globalConfig"
        /\ 8 \in DOMAIN N /\ N[8] = "systemProgram"
        /\ 9 \in DOMAIN N /\ N[9] = "bookingDays"
        /\ 10 \in DOMAIN N /\ N[10] = "bookingDaysNext"
        /\ 11 \in DOMAIN N /\ N[11] = "escrowTokenAccount"
        /\ 12 \in DOMAIN N /\ N[12] = "clientTokenAccount"
        /\ 13 \in DOMAIN N /\ N[13] = "mint"
        /\ 14 \in DOMAIN N /\ N[14] = "tokenProgram"
    BY DEF EscrowC!CreateBookingCrossYearParse
  <2>2. \A i \in DOMAIN N : N[i] \in PlacedNames \cup {"payer"}
    BY SMTT(60) DEF EscrowC!CreateBookingCrossYearParse, PlacedNames, OwnPlaces, SharedNames
  <2> HIDE DEF N
  <2>3. ASSUME as \in Roles("createBookingCrossYear"), Agree(T, N, M)
        PROVE  /\ \A i \in DOMAIN L : P(L[i])
               /\ \A i \in DOMAIN D : S("createBookingCrossYear", D[i])
    <3>0. MeantAt(M, "escrow", "createBookingCrossYear", stay, as)
      BY MeansPlaces
    <3> HIDE DEF M
    <3>1. as = "guest"
      BY <2>3 DEF Roles, PartyOps, HostOps
    <3>2. /\ T["client"] = M["client"]
          /\ T["clientProfile"] = M["clientProfile"]
          /\ T["hostProfile"] = M["hostProfile"]
          /\ T["booking"] = M["booking"]
          /\ T["property"] = M["property"]
          /\ T["globalConfig"] = M["globalConfig"]
          /\ T["systemProgram"] = M["systemProgram"]
          /\ T["bookingDays"] = M["bookingDays"]
          /\ T["bookingDaysNext"] = M["bookingDaysNext"]
          /\ T["escrowTokenAccount"] = M["escrowTokenAccount"]
          /\ T["clientTokenAccount"] = M["clientTokenAccount"]
          /\ T["mint"] = M["mint"]
          /\ T["tokenProgram"] = M["tokenProgram"]
      BY <2>1, <2>3 DEF Agree
    <3>4. /\ M["client"] = GuestOf(stay)
          /\ M["clientProfile"] = Profiled(GuestOf(stay))
          /\ M["hostProfile"] = Profiled(HostOf(stay))
          /\ M["booking"] = StayBooking(stay)
          /\ M["property"] = ListingOf(stay)
          /\ M["globalConfig"] = Address("config", <<Lit("global_config")>>)
          /\ M["systemProgram"] = Deployed("system")
          /\ M["bookingDays"] = Occupied(ListingOf(stay), Year[Stay[stay].checkIn])
          /\ M["bookingDaysNext"] = Occupied(ListingOf(stay), NextYear(Stay[stay].checkIn))
          /\ M["escrowTokenAccount"] = MoneyOf(StayBooking(stay))
          /\ M["clientTokenAccount"] = TokensOf(GuestOf(stay))
          /\ M["mint"] = Mint
          /\ M["tokenProgram"] = Deployed("token")
      BY <3>0 DEF MeantAt
    <3>5. /\ T["client"] = GuestOf(stay)
          /\ T["clientProfile"] = Profiled(GuestOf(stay))
          /\ T["hostProfile"] = Profiled(HostOf(stay))
          /\ T["booking"] = StayBooking(stay)
          /\ T["property"] = ListingOf(stay)
          /\ T["globalConfig"] = Address("config", <<Lit("global_config")>>)
          /\ T["systemProgram"] = Deployed("system")
          /\ T["bookingDays"] = Occupied(ListingOf(stay), Year[Stay[stay].checkIn])
          /\ T["bookingDaysNext"] = Occupied(ListingOf(stay), NextYear(Stay[stay].checkIn))
          /\ T["escrowTokenAccount"] = MoneyOf(StayBooking(stay))
          /\ T["clientTokenAccount"] = TokensOf(GuestOf(stay))
          /\ T["mint"] = Mint
          /\ T["tokenProgram"] = Deployed("token")
      BY <3>2, <3>4
    <3>6. /\ P(EscrowA!MutSigns("payer", {}))
          /\ P(EscrowA!Signs("client", {}))
          /\ P(EscrowA!Ro("clientProfile", EscrowA!UserProfile, {EscrowA!ProfileOf("client")}))
          /\ P(EscrowA!Ro("hostProfile", EscrowA!UserProfile, {EscrowA!ProfileBy("hostProfile")}))
          /\ P(EscrowA!New("booking", EscrowA!Booking,
               {EscrowA!BookingOf(EscrowA!Key("property"), EscrowA!Key("clientProfile"),
                       EscrowA!Arg("i64", "checkIn"))}))
          /\ P(EscrowA!Ro("property", EscrowA!Listing,
               {EscrowA!SameListing("hostProfile", "property")}))
          /\ P(EscrowA!GlobalConfigRule)
          /\ P(EscrowA!SystemRule)
          /\ P(EscrowA!BookedDays("bookingDays", "year"))
          /\ P(EscrowA!BookedDays("bookingDaysNext", "nextYear"))
          /\ P(EscrowA!New("escrowTokenAccount", EscrowA!TokenAccount,
               {EscrowA!EscrowTokensOf("booking")}))
          /\ P(EscrowA!Mut("clientTokenAccount", EscrowA!TokenAccount,
               {EscrowA!TokensOfSigner("client")}))
          /\ P(EscrowA!MintRule("mint"))
          /\ P(EscrowA!TokenRule)
      BY <3>5, <1>2, <1>12, <1>13, <1>5, <1>14, <1>15, <1>7, <1>16, <1>17, <1>27, <1>18,
        <1>19, <1>20, <1>21
    <3> DEFINE X == {EscrowA!MutSigns("payer", {}),
                        EscrowA!Signs("client", {}),
                        EscrowA!Ro("clientProfile", EscrowA!UserProfile,
                                {EscrowA!ProfileOf("client")}),
                        EscrowA!Ro("hostProfile", EscrowA!UserProfile,
                                {EscrowA!ProfileBy("hostProfile")}),
                        EscrowA!New("booking", EscrowA!Booking,
                                {EscrowA!BookingOf(EscrowA!Key("property"),
                                        EscrowA!Key("clientProfile"),
                                                EscrowA!Arg("i64", "checkIn"))}),
                        EscrowA!Ro("property", EscrowA!Listing,
                                {EscrowA!SameListing("hostProfile", "property")}),
                        EscrowA!GlobalConfigRule,
                        EscrowA!SystemRule,
                        EscrowA!BookedDays("bookingDays", "year"),
                        EscrowA!BookedDays("bookingDaysNext", "nextYear"),
                        EscrowA!New("escrowTokenAccount", EscrowA!TokenAccount,
                                {EscrowA!EscrowTokensOf("booking")}),
                        EscrowA!Mut("clientTokenAccount", EscrowA!TokenAccount,
                                {EscrowA!TokensOfSigner("client")}),
                        EscrowA!MintRule("mint"),
                        EscrowA!TokenRule}
    <3>7. \A rule \in X : P(rule)
      BY <3>6
    <3>8. <<EscrowA!MutSigns("payer", {}),
            EscrowA!Signs("client", {}),
            EscrowA!Ro("clientProfile", EscrowA!UserProfile, {EscrowA!ProfileOf("client")}),
            EscrowA!Ro("hostProfile", EscrowA!UserProfile, {EscrowA!ProfileBy("hostProfile")}),
            EscrowA!New("booking", EscrowA!Booking,
                    {EscrowA!BookingOf(EscrowA!Key("property"), EscrowA!Key("clientProfile"),
                            EscrowA!Arg("i64", "checkIn"))}),
            EscrowA!Ro("property", EscrowA!Listing,
                    {EscrowA!SameListing("hostProfile", "property")}),
            EscrowA!GlobalConfigRule,
            EscrowA!SystemRule>> \in Seq(X)
      OBVIOUS
    <3>9. <<EscrowA!BookedDays("bookingDays", "year"),
            EscrowA!BookedDays("bookingDaysNext", "nextYear")>> \in Seq(X)
      OBVIOUS
    <3>10. <<EscrowA!New("escrowTokenAccount", EscrowA!TokenAccount,
            {EscrowA!EscrowTokensOf("booking")}),
            EscrowA!Mut("clientTokenAccount", EscrowA!TokenAccount,
                    {EscrowA!TokensOfSigner("client")}),
            EscrowA!MintRule("mint"),
            EscrowA!TokenRule>> \in Seq(X)
      OBVIOUS
    <3> HIDE DEF X
    <3>11. L \in Seq(X)
      BY <3>8, <3>9, <3>10, Joining DEF EscrowA!CreateBookingCrossYear,
        EscrowA!CreateBookingWith
    <3>12. \A i \in DOMAIN L : P(L[i])
      BY <3>7, <3>11
    <3>13. /\ Q(EscrowC!Default("clientProfile", EscrowC!UserProfileOf("client")))
          /\ Q(EscrowC!Default("booking",
               EscrowC!FindBookingPda("property", "clientProfile", "checkIn")))
          /\ Q(EscrowC!Default("globalConfig", EscrowC!GlobalConfig))
          /\ Q(EscrowC!Default("systemProgram", EscrowC!Fixed("system")))
          /\ Q(EscrowC!Default("escrowTokenAccount", EscrowC!FindEscrowTokenAccountPda("booking")))
          /\ Q(EscrowC!Default("tokenProgram", EscrowC!Fixed("token")))
      BY <3>5, <1>22, <1>23, <1>10, <1>24, <1>25, <1>26
    <3>14. \A i \in DOMAIN D : S("createBookingCrossYear", D[i])
      <4>1. <<"createBookingCrossYear", "bookingDays">> \in DivergentDefaults
        BY DEF DivergentDefaults
      <4>2. EscrowC!Default("bookingDays",
              EscrowC!FindBookingDaysPda("property", "checkIn")).account = "bookingDays"
        BY DEF EscrowC!Default
      <4> QED BY <4>1, <4>2, <3>13, SMTT(60) DEF EscrowC!CreateBookingCrossYear, EscrowC!Builder
    <3> QED BY <3>12, <3>14
  <2> QED BY <2>2, <2>3 DEF N, M, D
<1>71. Apt("expireBooking", EscrowC!ExpireBooking, EscrowC!ExpireBookingParse,
        EscrowA!ExpireBooking)
  <2> DEFINE N == EscrowC!ExpireBookingParse
         M == Means("escrow", "expireBooking", stay, as)
         L == EscrowA!ExpireBooking
         D == EscrowC!ExpireBooking.defaults
  <2>1. /\ 2 \in DOMAIN N /\ N[2] = "guest"
        /\ 3 \in DOMAIN N /\ N[3] = "booking"
        /\ 4 \in DOMAIN N /\ N[4] = "escrowTokenAccount"
        /\ 5 \in DOMAIN N /\ N[5] = "guestTokenAccount"
        /\ 6 \in DOMAIN N /\ N[6] = "bookingDays"
        /\ 7 \in DOMAIN N /\ N[7] = "globalConfig"
        /\ 8 \in DOMAIN N /\ N[8] = "mint"
        /\ 9 \in DOMAIN N /\ N[9] = "tokenProgram"
    BY DEF EscrowC!ExpireBookingParse
  <2>2. \A i \in DOMAIN N : N[i] \in PlacedNames \cup {"payer"}
    BY SMTT(60) DEF EscrowC!ExpireBookingParse, PlacedNames, OwnPlaces, SharedNames
  <2> HIDE DEF N
  <2>3. ASSUME as \in Roles("expireBooking"), Agree(T, N, M)
        PROVE  /\ \A i \in DOMAIN L : P(L[i])
               /\ \A i \in DOMAIN D : S("expireBooking", D[i])
    <3>0. MeantAt(M, "escrow", "expireBooking", stay, as)
      BY MeansPlaces
    <3> HIDE DEF M
    <3>1. as = "guest"
      BY <2>3 DEF Roles, PartyOps, HostOps
    <3>2. /\ T["guest"] = M["guest"]
          /\ T["booking"] = M["booking"]
          /\ T["escrowTokenAccount"] = M["escrowTokenAccount"]
          /\ T["guestTokenAccount"] = M["guestTokenAccount"]
          /\ T["bookingDays"] = M["bookingDays"]
          /\ T["globalConfig"] = M["globalConfig"]
          /\ T["mint"] = M["mint"]
          /\ T["tokenProgram"] = M["tokenProgram"]
      BY <2>1, <2>3 DEF Agree
    <3>4. /\ M["guest"] = Profiled(GuestOf(stay))
          /\ M["booking"] = StayBooking(stay)
          /\ M["escrowTokenAccount"] = MoneyOf(StayBooking(stay))
          /\ M["guestTokenAccount"] = TokensOf(GuestOf(stay))
          /\ M["bookingDays"] = Occupied(ListingOf(stay), Year[Stay[stay].checkIn])
          /\ M["globalConfig"] = Address("config", <<Lit("global_config")>>)
          /\ M["mint"] = Mint
          /\ M["tokenProgram"] = Deployed("token")
      BY <3>0 DEF MeantAt
    <3>5. /\ T["guest"] = Profiled(GuestOf(stay))
          /\ T["booking"] = StayBooking(stay)
          /\ T["escrowTokenAccount"] = MoneyOf(StayBooking(stay))
          /\ T["guestTokenAccount"] = TokensOf(GuestOf(stay))
          /\ T["bookingDays"] = Occupied(ListingOf(stay), Year[Stay[stay].checkIn])
          /\ T["globalConfig"] = Address("config", <<Lit("global_config")>>)
          /\ T["mint"] = Mint
          /\ T["tokenProgram"] = Deployed("token")
      BY <3>2, <3>4
    <3>6. /\ P(EscrowA!MutSigns("payer", {}))
          /\ P(EscrowA!PartyRule("guest", "guest"))
          /\ P(EscrowA!Closed("booking", EscrowA!Booking, {EscrowA!BookingBy("booking")}))
          /\ P(EscrowA!OwnTokensRule)
          /\ P(EscrowA!TokensRule("guestTokenAccount", "guest"))
          /\ P(EscrowA!DaysRule)
          /\ P(EscrowA!GlobalConfigRule)
          /\ P(EscrowA!MintRule("mint"))
          /\ P(EscrowA!TokenRule)
      BY <3>5, <1>2, <1>28, <1>29, <1>30, <1>31, <1>32, <1>7, <1>20, <1>21
    <3> DEFINE X == {EscrowA!MutSigns("payer", {}),
                        EscrowA!PartyRule("guest", "guest"),
                        EscrowA!Closed("booking", EscrowA!Booking, {EscrowA!BookingBy("booking")}),
                        EscrowA!OwnTokensRule,
                        EscrowA!TokensRule("guestTokenAccount", "guest"),
                        EscrowA!DaysRule,
                        EscrowA!GlobalConfigRule,
                        EscrowA!MintRule("mint"),
                        EscrowA!TokenRule}
    <3>7. \A rule \in X : P(rule)
      BY <3>6
    <3>8. <<EscrowA!MutSigns("payer", {}),
            EscrowA!PartyRule("guest", "guest"),
            EscrowA!Closed("booking", EscrowA!Booking, {EscrowA!BookingBy("booking")}),
            EscrowA!OwnTokensRule,
            EscrowA!TokensRule("guestTokenAccount", "guest")>> \in Seq(X)
      OBVIOUS
    <3>9. <<EscrowA!DaysRule>> \in Seq(X)
      OBVIOUS
    <3>10. <<EscrowA!GlobalConfigRule,
            EscrowA!MintRule("mint"),
            EscrowA!TokenRule>> \in Seq(X)
      OBVIOUS
    <3> HIDE DEF X
    <3>11. L \in Seq(X)
      BY <3>8, <3>9, <3>10, Joining DEF EscrowA!ExpireBooking, EscrowA!ExpireBookingWith
    <3>12. \A i \in DOMAIN L : P(L[i])
      BY <3>7, <3>11
    <3>13. /\ Q(EscrowC!Default("escrowTokenAccount", EscrowC!FindEscrowTokenAccountPda("booking")))
          /\ Q(EscrowC!Default("globalConfig", EscrowC!GlobalConfig))
          /\ Q(EscrowC!Default("tokenProgram", EscrowC!Fixed("token")))
      BY <3>5, <1>25, <1>10, <1>26
    <3>14. \A i \in DOMAIN D : S("expireBooking", D[i])
      BY <3>13, SMTT(60) DEF EscrowC!ExpireBooking, EscrowC!Builder
    <3> QED BY <3>12, <3>14
  <2> QED BY <2>2, <2>3 DEF N, M, D
<1>72. Apt("expireBookingCrossYear", EscrowC!ExpireBookingCrossYear,
        EscrowC!ExpireBookingCrossYearParse, EscrowA!ExpireBookingCrossYear)
  <2> DEFINE N == EscrowC!ExpireBookingCrossYearParse
         M == Means("escrow", "expireBookingCrossYear", stay, as)
         L == EscrowA!ExpireBookingCrossYear
         D == EscrowC!ExpireBookingCrossYear.defaults
  <2>1. /\ 2 \in DOMAIN N /\ N[2] = "guest"
        /\ 3 \in DOMAIN N /\ N[3] = "booking"
        /\ 4 \in DOMAIN N /\ N[4] = "escrowTokenAccount"
        /\ 5 \in DOMAIN N /\ N[5] = "guestTokenAccount"
        /\ 6 \in DOMAIN N /\ N[6] = "bookingDays"
        /\ 7 \in DOMAIN N /\ N[7] = "bookingDaysNext"
        /\ 8 \in DOMAIN N /\ N[8] = "globalConfig"
        /\ 9 \in DOMAIN N /\ N[9] = "mint"
        /\ 10 \in DOMAIN N /\ N[10] = "tokenProgram"
    BY DEF EscrowC!ExpireBookingCrossYearParse
  <2>2. \A i \in DOMAIN N : N[i] \in PlacedNames \cup {"payer"}
    BY SMTT(60) DEF EscrowC!ExpireBookingCrossYearParse, PlacedNames, OwnPlaces, SharedNames
  <2> HIDE DEF N
  <2>3. ASSUME as \in Roles("expireBookingCrossYear"), Agree(T, N, M)
        PROVE  /\ \A i \in DOMAIN L : P(L[i])
               /\ \A i \in DOMAIN D : S("expireBookingCrossYear", D[i])
    <3>0. MeantAt(M, "escrow", "expireBookingCrossYear", stay, as)
      BY MeansPlaces
    <3> HIDE DEF M
    <3>1. as = "guest"
      BY <2>3 DEF Roles, PartyOps, HostOps
    <3>2. /\ T["guest"] = M["guest"]
          /\ T["booking"] = M["booking"]
          /\ T["escrowTokenAccount"] = M["escrowTokenAccount"]
          /\ T["guestTokenAccount"] = M["guestTokenAccount"]
          /\ T["bookingDays"] = M["bookingDays"]
          /\ T["bookingDaysNext"] = M["bookingDaysNext"]
          /\ T["globalConfig"] = M["globalConfig"]
          /\ T["mint"] = M["mint"]
          /\ T["tokenProgram"] = M["tokenProgram"]
      BY <2>1, <2>3 DEF Agree
    <3>4. /\ M["guest"] = Profiled(GuestOf(stay))
          /\ M["booking"] = StayBooking(stay)
          /\ M["escrowTokenAccount"] = MoneyOf(StayBooking(stay))
          /\ M["guestTokenAccount"] = TokensOf(GuestOf(stay))
          /\ M["bookingDays"] = Occupied(ListingOf(stay), Year[Stay[stay].checkIn])
          /\ M["bookingDaysNext"] = Occupied(ListingOf(stay), NextYear(Stay[stay].checkIn))
          /\ M["globalConfig"] = Address("config", <<Lit("global_config")>>)
          /\ M["mint"] = Mint
          /\ M["tokenProgram"] = Deployed("token")
      BY <3>0 DEF MeantAt
    <3>5. /\ T["guest"] = Profiled(GuestOf(stay))
          /\ T["booking"] = StayBooking(stay)
          /\ T["escrowTokenAccount"] = MoneyOf(StayBooking(stay))
          /\ T["guestTokenAccount"] = TokensOf(GuestOf(stay))
          /\ T["bookingDays"] = Occupied(ListingOf(stay), Year[Stay[stay].checkIn])
          /\ T["bookingDaysNext"] = Occupied(ListingOf(stay), NextYear(Stay[stay].checkIn))
          /\ T["globalConfig"] = Address("config", <<Lit("global_config")>>)
          /\ T["mint"] = Mint
          /\ T["tokenProgram"] = Deployed("token")
      BY <3>2, <3>4
    <3>6. /\ P(EscrowA!MutSigns("payer", {}))
          /\ P(EscrowA!PartyRule("guest", "guest"))
          /\ P(EscrowA!Closed("booking", EscrowA!Booking, {EscrowA!BookingBy("booking")}))
          /\ P(EscrowA!OwnTokensRule)
          /\ P(EscrowA!TokensRule("guestTokenAccount", "guest"))
          /\ P(EscrowA!DaysRule)
          /\ P(EscrowA!NextDaysRule)
          /\ P(EscrowA!GlobalConfigRule)
          /\ P(EscrowA!MintRule("mint"))
          /\ P(EscrowA!TokenRule)
      BY <3>5, <1>2, <1>28, <1>29, <1>30, <1>31, <1>32, <1>33, <1>7, <1>20, <1>21
    <3> DEFINE X == {EscrowA!MutSigns("payer", {}),
                        EscrowA!PartyRule("guest", "guest"),
                        EscrowA!Closed("booking", EscrowA!Booking, {EscrowA!BookingBy("booking")}),
                        EscrowA!OwnTokensRule,
                        EscrowA!TokensRule("guestTokenAccount", "guest"),
                        EscrowA!DaysRule,
                        EscrowA!NextDaysRule,
                        EscrowA!GlobalConfigRule,
                        EscrowA!MintRule("mint"),
                        EscrowA!TokenRule}
    <3>7. \A rule \in X : P(rule)
      BY <3>6
    <3>8. <<EscrowA!MutSigns("payer", {}),
            EscrowA!PartyRule("guest", "guest"),
            EscrowA!Closed("booking", EscrowA!Booking, {EscrowA!BookingBy("booking")}),
            EscrowA!OwnTokensRule,
            EscrowA!TokensRule("guestTokenAccount", "guest")>> \in Seq(X)
      OBVIOUS
    <3>9. <<EscrowA!DaysRule,
            EscrowA!NextDaysRule>> \in Seq(X)
      OBVIOUS
    <3>10. <<EscrowA!GlobalConfigRule,
            EscrowA!MintRule("mint"),
            EscrowA!TokenRule>> \in Seq(X)
      OBVIOUS
    <3> HIDE DEF X
    <3>11. L \in Seq(X)
      BY <3>8, <3>9, <3>10, Joining DEF EscrowA!ExpireBookingCrossYear,
        EscrowA!ExpireBookingWith
    <3>12. \A i \in DOMAIN L : P(L[i])
      BY <3>7, <3>11
    <3>13. /\ Q(EscrowC!Default("escrowTokenAccount", EscrowC!FindEscrowTokenAccountPda("booking")))
          /\ Q(EscrowC!Default("globalConfig", EscrowC!GlobalConfig))
          /\ Q(EscrowC!Default("tokenProgram", EscrowC!Fixed("token")))
      BY <3>5, <1>25, <1>10, <1>26
    <3>14. \A i \in DOMAIN D : S("expireBookingCrossYear", D[i])
      BY <3>13, SMTT(60) DEF EscrowC!ExpireBookingCrossYear, EscrowC!Builder
    <3> QED BY <3>12, <3>14
  <2> QED BY <2>2, <2>3 DEF N, M, D
<1>73. Apt("guestCancelBooking", EscrowC!GuestCancelBooking, EscrowC!GuestCancelBookingParse,
        EscrowA!GuestCancelBooking)
  <2> DEFINE N == EscrowC!GuestCancelBookingParse
         M == Means("escrow", "guestCancelBooking", stay, as)
         L == EscrowA!GuestCancelBooking
         D == EscrowC!GuestCancelBooking.defaults
  <2>1. /\ 1 \in DOMAIN N /\ N[1] = "caller"
        /\ 2 \in DOMAIN N /\ N[2] = "guestProfile"
        /\ 3 \in DOMAIN N /\ N[3] = "hostProfile"
        /\ 4 \in DOMAIN N /\ N[4] = "guestReputation"
        /\ 5 \in DOMAIN N /\ N[5] = "booking"
        /\ 6 \in DOMAIN N /\ N[6] = "bookingDays"
        /\ 7 \in DOMAIN N /\ N[7] = "globalConfig"
        /\ 8 \in DOMAIN N /\ N[8] = "escrowTokenAccount"
        /\ 9 \in DOMAIN N /\ N[9] = "guestTokenAccount"
        /\ 10 \in DOMAIN N /\ N[10] = "hostTokenAccount"
        /\ 11 \in DOMAIN N /\ N[11] = "platformVault"
        /\ 12 \in DOMAIN N /\ N[12] = "mint"
        /\ 13 \in DOMAIN N /\ N[13] = "cpiAuthority"
        /\ 14 \in DOMAIN N /\ N[14] = "staykeCoreProgram"
        /\ 15 \in DOMAIN N /\ N[15] = "tokenProgram"
    BY DEF EscrowC!GuestCancelBookingParse
  <2>2. \A i \in DOMAIN N : N[i] \in PlacedNames \cup {"payer"}
    BY SMTT(60) DEF EscrowC!GuestCancelBookingParse, PlacedNames, OwnPlaces, SharedNames
  <2> HIDE DEF N
  <2>3. ASSUME as \in Roles("guestCancelBooking"), Agree(T, N, M)
        PROVE  /\ \A i \in DOMAIN L : P(L[i])
               /\ \A i \in DOMAIN D : S("guestCancelBooking", D[i])
    <3>0. MeantAt(M, "escrow", "guestCancelBooking", stay, as)
      BY MeansPlaces
    <3> HIDE DEF M
    <3>1. as = "guest"
      BY <2>3 DEF Roles, PartyOps, HostOps
    <3>2. /\ T["caller"] = M["caller"]
          /\ T["guestProfile"] = M["guestProfile"]
          /\ T["hostProfile"] = M["hostProfile"]
          /\ T["guestReputation"] = M["guestReputation"]
          /\ T["booking"] = M["booking"]
          /\ T["bookingDays"] = M["bookingDays"]
          /\ T["globalConfig"] = M["globalConfig"]
          /\ T["escrowTokenAccount"] = M["escrowTokenAccount"]
          /\ T["guestTokenAccount"] = M["guestTokenAccount"]
          /\ T["hostTokenAccount"] = M["hostTokenAccount"]
          /\ T["platformVault"] = M["platformVault"]
          /\ T["mint"] = M["mint"]
          /\ T["cpiAuthority"] = M["cpiAuthority"]
          /\ T["staykeCoreProgram"] = M["staykeCoreProgram"]
          /\ T["tokenProgram"] = M["tokenProgram"]
      BY <2>1, <2>3 DEF Agree
    <3>4. ActorOf(stay, as) = GuestOf(stay)
      BY <3>1, <1>1
    <3>5. /\ M["caller"] = ActorOf(stay, as)
          /\ M["guestProfile"] = Profiled(GuestOf(stay))
          /\ M["hostProfile"] = Profiled(HostOf(stay))
          /\ M["guestReputation"] = Reputed(GuestOf(stay))
          /\ M["booking"] = StayBooking(stay)
          /\ M["bookingDays"] = Occupied(ListingOf(stay), Year[Stay[stay].checkIn])
          /\ M["globalConfig"] = Address("config", <<Lit("global_config")>>)
          /\ M["escrowTokenAccount"] = MoneyOf(StayBooking(stay))
          /\ M["guestTokenAccount"] = TokensOf(GuestOf(stay))
          /\ M["hostTokenAccount"] = TokensOf(HostOf(stay))
          /\ M["platformVault"] = PlatformVault
          /\ M["mint"] = Mint
          /\ M["cpiAuthority"] = Address("escrow", <<Lit("cpi_authority")>>)
          /\ M["staykeCoreProgram"] = Deployed("core")
          /\ M["tokenProgram"] = Deployed("token")
      BY <3>0 DEF MeantAt
    <3>6. /\ T["caller"] = GuestOf(stay)
          /\ T["guestProfile"] = Profiled(GuestOf(stay))
          /\ T["hostProfile"] = Profiled(HostOf(stay))
          /\ T["guestReputation"] = Reputed(GuestOf(stay))
          /\ T["booking"] = StayBooking(stay)
          /\ T["bookingDays"] = Occupied(ListingOf(stay), Year[Stay[stay].checkIn])
          /\ T["globalConfig"] = Address("config", <<Lit("global_config")>>)
          /\ T["escrowTokenAccount"] = MoneyOf(StayBooking(stay))
          /\ T["guestTokenAccount"] = TokensOf(GuestOf(stay))
          /\ T["hostTokenAccount"] = TokensOf(HostOf(stay))
          /\ T["platformVault"] = PlatformVault
          /\ T["mint"] = Mint
          /\ T["cpiAuthority"] = Address("escrow", <<Lit("cpi_authority")>>)
          /\ T["staykeCoreProgram"] = Deployed("core")
          /\ T["tokenProgram"] = Deployed("token")
      BY <3>2, <3>4, <3>5
    <3>7. /\ P(EscrowA!MutSigns("caller", {EscrowA!Held("guestProfile", "authority")}))
          /\ P(EscrowA!PartyRule("guestProfile", "guest"))
          /\ P(EscrowA!PartyRule("hostProfile", "host"))
          /\ P(EscrowA!Mut("guestReputation", EscrowA!ReputationProfile,
               {EscrowA!ReputationBy("guestProfile")}))
          /\ P(EscrowA!BookingRule)
          /\ P(EscrowA!DaysRule)
          /\ P(EscrowA!GlobalConfigRule)
          /\ P(EscrowA!OwnTokensRule)
          /\ P(EscrowA!TokensRule("guestTokenAccount", "guestProfile"))
          /\ P(EscrowA!TokensRule("hostTokenAccount", "hostProfile"))
          /\ P(EscrowA!VaultRule("platformVault"))
          /\ P(EscrowA!MutMintRule("mint"))
          /\ P(EscrowA!AuthorityRule)
          /\ P(EscrowA!CoreProgramRule)
          /\ P(EscrowA!TokenRule)
      BY <3>6, <1>34, <1>35, <1>36, <1>37, <1>3, <1>32, <1>7, <1>30, <1>38, <1>39, <1>40,
        <1>41, <1>6, <1>42, <1>21
    <3> DEFINE X == {EscrowA!MutSigns("caller", {EscrowA!Held("guestProfile", "authority")}),
                        EscrowA!PartyRule("guestProfile", "guest"),
                        EscrowA!PartyRule("hostProfile", "host"),
                        EscrowA!Mut("guestReputation", EscrowA!ReputationProfile,
                                {EscrowA!ReputationBy("guestProfile")}),
                        EscrowA!BookingRule,
                        EscrowA!DaysRule,
                        EscrowA!GlobalConfigRule,
                        EscrowA!OwnTokensRule,
                        EscrowA!TokensRule("guestTokenAccount", "guestProfile"),
                        EscrowA!TokensRule("hostTokenAccount", "hostProfile"),
                        EscrowA!VaultRule("platformVault"),
                        EscrowA!MutMintRule("mint"),
                        EscrowA!AuthorityRule,
                        EscrowA!CoreProgramRule,
                        EscrowA!TokenRule}
    <3>8. \A rule \in X : P(rule)
      BY <3>7
    <3>9. <<EscrowA!MutSigns("caller", {EscrowA!Held("guestProfile", "authority")}),
            EscrowA!PartyRule("guestProfile", "guest"),
            EscrowA!PartyRule("hostProfile", "host"),
            EscrowA!Mut("guestReputation", EscrowA!ReputationProfile,
                    {EscrowA!ReputationBy("guestProfile")}),
            EscrowA!BookingRule>> \in Seq(X)
      OBVIOUS
    <3>10. <<EscrowA!DaysRule>> \in Seq(X)
      OBVIOUS
    <3>11. <<EscrowA!GlobalConfigRule,
            EscrowA!OwnTokensRule,
            EscrowA!TokensRule("guestTokenAccount", "guestProfile"),
            EscrowA!TokensRule("hostTokenAccount", "hostProfile"),
            EscrowA!VaultRule("platformVault"),
            EscrowA!MutMintRule("mint"),
            EscrowA!AuthorityRule,
            EscrowA!CoreProgramRule,
            EscrowA!TokenRule>> \in Seq(X)
      OBVIOUS
    <3> HIDE DEF X
    <3>12. L \in Seq(X)
      BY <3>9, <3>10, <3>11, Joining DEF EscrowA!GuestCancelBooking,
        EscrowA!GuestCancelBookingWith
    <3>13. \A i \in DOMAIN L : P(L[i])
      BY <3>8, <3>12
    <3>14. /\ Q(EscrowC!Default("globalConfig", EscrowC!GlobalConfig))
          /\ Q(EscrowC!Default("escrowTokenAccount", EscrowC!FindEscrowTokenAccountPda("booking")))
          /\ Q(EscrowC!Default("cpiAuthority", EscrowC!FindCpiAuthorityPda))
          /\ Q(EscrowC!Default("staykeCoreProgram", EscrowC!Fixed("core")))
          /\ Q(EscrowC!Default("tokenProgram", EscrowC!Fixed("token")))
      BY <3>6, <1>10, <1>25, <1>9, <1>43, <1>26
    <3>15. \A i \in DOMAIN D : S("guestCancelBooking", D[i])
      BY <3>14, SMTT(60) DEF EscrowC!GuestCancelBooking, EscrowC!Builder
    <3> QED BY <3>13, <3>15
  <2> QED BY <2>2, <2>3 DEF N, M, D
<1>74. Apt("guestCancelBookingCrossYear", EscrowC!GuestCancelBookingCrossYear,
        EscrowC!GuestCancelBookingCrossYearParse, EscrowA!GuestCancelBookingCrossYear)
  <2> DEFINE N == EscrowC!GuestCancelBookingCrossYearParse
         M == Means("escrow", "guestCancelBookingCrossYear", stay, as)
         L == EscrowA!GuestCancelBookingCrossYear
         D == EscrowC!GuestCancelBookingCrossYear.defaults
  <2>1. /\ 1 \in DOMAIN N /\ N[1] = "caller"
        /\ 2 \in DOMAIN N /\ N[2] = "guestProfile"
        /\ 3 \in DOMAIN N /\ N[3] = "hostProfile"
        /\ 4 \in DOMAIN N /\ N[4] = "guestReputation"
        /\ 5 \in DOMAIN N /\ N[5] = "booking"
        /\ 6 \in DOMAIN N /\ N[6] = "bookingDays"
        /\ 7 \in DOMAIN N /\ N[7] = "bookingDaysNext"
        /\ 8 \in DOMAIN N /\ N[8] = "globalConfig"
        /\ 9 \in DOMAIN N /\ N[9] = "escrowTokenAccount"
        /\ 10 \in DOMAIN N /\ N[10] = "guestTokenAccount"
        /\ 11 \in DOMAIN N /\ N[11] = "hostTokenAccount"
        /\ 12 \in DOMAIN N /\ N[12] = "platformVault"
        /\ 13 \in DOMAIN N /\ N[13] = "mint"
        /\ 14 \in DOMAIN N /\ N[14] = "cpiAuthority"
        /\ 15 \in DOMAIN N /\ N[15] = "staykeCoreProgram"
        /\ 16 \in DOMAIN N /\ N[16] = "tokenProgram"
    BY DEF EscrowC!GuestCancelBookingCrossYearParse
  <2>2. \A i \in DOMAIN N : N[i] \in PlacedNames \cup {"payer"}
    BY SMTT(60) DEF EscrowC!GuestCancelBookingCrossYearParse, PlacedNames, OwnPlaces, SharedNames
  <2> HIDE DEF N
  <2>3. ASSUME as \in Roles("guestCancelBookingCrossYear"), Agree(T, N, M)
        PROVE  /\ \A i \in DOMAIN L : P(L[i])
               /\ \A i \in DOMAIN D : S("guestCancelBookingCrossYear", D[i])
    <3>0. MeantAt(M, "escrow", "guestCancelBookingCrossYear", stay, as)
      BY MeansPlaces
    <3> HIDE DEF M
    <3>1. as = "guest"
      BY <2>3 DEF Roles, PartyOps, HostOps
    <3>2. /\ T["caller"] = M["caller"]
          /\ T["guestProfile"] = M["guestProfile"]
          /\ T["hostProfile"] = M["hostProfile"]
          /\ T["guestReputation"] = M["guestReputation"]
          /\ T["booking"] = M["booking"]
          /\ T["bookingDays"] = M["bookingDays"]
          /\ T["bookingDaysNext"] = M["bookingDaysNext"]
          /\ T["globalConfig"] = M["globalConfig"]
          /\ T["escrowTokenAccount"] = M["escrowTokenAccount"]
          /\ T["guestTokenAccount"] = M["guestTokenAccount"]
          /\ T["hostTokenAccount"] = M["hostTokenAccount"]
          /\ T["platformVault"] = M["platformVault"]
          /\ T["mint"] = M["mint"]
          /\ T["cpiAuthority"] = M["cpiAuthority"]
          /\ T["staykeCoreProgram"] = M["staykeCoreProgram"]
          /\ T["tokenProgram"] = M["tokenProgram"]
      BY <2>1, <2>3 DEF Agree
    <3>4. ActorOf(stay, as) = GuestOf(stay)
      BY <3>1, <1>1
    <3>5. /\ M["caller"] = ActorOf(stay, as)
          /\ M["guestProfile"] = Profiled(GuestOf(stay))
          /\ M["hostProfile"] = Profiled(HostOf(stay))
          /\ M["guestReputation"] = Reputed(GuestOf(stay))
          /\ M["booking"] = StayBooking(stay)
          /\ M["bookingDays"] = Occupied(ListingOf(stay), Year[Stay[stay].checkIn])
          /\ M["bookingDaysNext"] = Occupied(ListingOf(stay), NextYear(Stay[stay].checkIn))
          /\ M["globalConfig"] = Address("config", <<Lit("global_config")>>)
          /\ M["escrowTokenAccount"] = MoneyOf(StayBooking(stay))
          /\ M["guestTokenAccount"] = TokensOf(GuestOf(stay))
          /\ M["hostTokenAccount"] = TokensOf(HostOf(stay))
          /\ M["platformVault"] = PlatformVault
          /\ M["mint"] = Mint
          /\ M["cpiAuthority"] = Address("escrow", <<Lit("cpi_authority")>>)
          /\ M["staykeCoreProgram"] = Deployed("core")
          /\ M["tokenProgram"] = Deployed("token")
      BY <3>0 DEF MeantAt
    <3>6. /\ T["caller"] = GuestOf(stay)
          /\ T["guestProfile"] = Profiled(GuestOf(stay))
          /\ T["hostProfile"] = Profiled(HostOf(stay))
          /\ T["guestReputation"] = Reputed(GuestOf(stay))
          /\ T["booking"] = StayBooking(stay)
          /\ T["bookingDays"] = Occupied(ListingOf(stay), Year[Stay[stay].checkIn])
          /\ T["bookingDaysNext"] = Occupied(ListingOf(stay), NextYear(Stay[stay].checkIn))
          /\ T["globalConfig"] = Address("config", <<Lit("global_config")>>)
          /\ T["escrowTokenAccount"] = MoneyOf(StayBooking(stay))
          /\ T["guestTokenAccount"] = TokensOf(GuestOf(stay))
          /\ T["hostTokenAccount"] = TokensOf(HostOf(stay))
          /\ T["platformVault"] = PlatformVault
          /\ T["mint"] = Mint
          /\ T["cpiAuthority"] = Address("escrow", <<Lit("cpi_authority")>>)
          /\ T["staykeCoreProgram"] = Deployed("core")
          /\ T["tokenProgram"] = Deployed("token")
      BY <3>2, <3>4, <3>5
    <3>7. /\ P(EscrowA!MutSigns("caller", {EscrowA!Held("guestProfile", "authority")}))
          /\ P(EscrowA!PartyRule("guestProfile", "guest"))
          /\ P(EscrowA!PartyRule("hostProfile", "host"))
          /\ P(EscrowA!Mut("guestReputation", EscrowA!ReputationProfile,
               {EscrowA!ReputationBy("guestProfile")}))
          /\ P(EscrowA!BookingRule)
          /\ P(EscrowA!DaysRule)
          /\ P(EscrowA!NextDaysRule)
          /\ P(EscrowA!GlobalConfigRule)
          /\ P(EscrowA!OwnTokensRule)
          /\ P(EscrowA!TokensRule("guestTokenAccount", "guestProfile"))
          /\ P(EscrowA!TokensRule("hostTokenAccount", "hostProfile"))
          /\ P(EscrowA!VaultRule("platformVault"))
          /\ P(EscrowA!MutMintRule("mint"))
          /\ P(EscrowA!AuthorityRule)
          /\ P(EscrowA!CoreProgramRule)
          /\ P(EscrowA!TokenRule)
      BY <3>6, <1>34, <1>35, <1>36, <1>37, <1>3, <1>32, <1>33, <1>7, <1>30, <1>38, <1>39,
        <1>40, <1>41, <1>6, <1>42, <1>21
    <3> DEFINE X == {EscrowA!MutSigns("caller", {EscrowA!Held("guestProfile", "authority")}),
                        EscrowA!PartyRule("guestProfile", "guest"),
                        EscrowA!PartyRule("hostProfile", "host"),
                        EscrowA!Mut("guestReputation", EscrowA!ReputationProfile,
                                {EscrowA!ReputationBy("guestProfile")}),
                        EscrowA!BookingRule,
                        EscrowA!DaysRule,
                        EscrowA!NextDaysRule,
                        EscrowA!GlobalConfigRule,
                        EscrowA!OwnTokensRule,
                        EscrowA!TokensRule("guestTokenAccount", "guestProfile"),
                        EscrowA!TokensRule("hostTokenAccount", "hostProfile"),
                        EscrowA!VaultRule("platformVault"),
                        EscrowA!MutMintRule("mint"),
                        EscrowA!AuthorityRule,
                        EscrowA!CoreProgramRule,
                        EscrowA!TokenRule}
    <3>8. \A rule \in X : P(rule)
      BY <3>7
    <3>9. <<EscrowA!MutSigns("caller", {EscrowA!Held("guestProfile", "authority")}),
            EscrowA!PartyRule("guestProfile", "guest"),
            EscrowA!PartyRule("hostProfile", "host"),
            EscrowA!Mut("guestReputation", EscrowA!ReputationProfile,
                    {EscrowA!ReputationBy("guestProfile")}),
            EscrowA!BookingRule>> \in Seq(X)
      OBVIOUS
    <3>10. <<EscrowA!DaysRule,
            EscrowA!NextDaysRule>> \in Seq(X)
      OBVIOUS
    <3>11. <<EscrowA!GlobalConfigRule,
            EscrowA!OwnTokensRule,
            EscrowA!TokensRule("guestTokenAccount", "guestProfile"),
            EscrowA!TokensRule("hostTokenAccount", "hostProfile"),
            EscrowA!VaultRule("platformVault"),
            EscrowA!MutMintRule("mint"),
            EscrowA!AuthorityRule,
            EscrowA!CoreProgramRule,
            EscrowA!TokenRule>> \in Seq(X)
      OBVIOUS
    <3> HIDE DEF X
    <3>12. L \in Seq(X)
      BY <3>9, <3>10, <3>11, Joining DEF EscrowA!GuestCancelBookingCrossYear,
        EscrowA!GuestCancelBookingWith
    <3>13. \A i \in DOMAIN L : P(L[i])
      BY <3>8, <3>12
    <3>14. /\ Q(EscrowC!Default("globalConfig", EscrowC!GlobalConfig))
          /\ Q(EscrowC!Default("escrowTokenAccount", EscrowC!FindEscrowTokenAccountPda("booking")))
          /\ Q(EscrowC!Default("cpiAuthority", EscrowC!FindCpiAuthorityPda))
          /\ Q(EscrowC!Default("staykeCoreProgram", EscrowC!Fixed("core")))
          /\ Q(EscrowC!Default("tokenProgram", EscrowC!Fixed("token")))
      BY <3>6, <1>10, <1>25, <1>9, <1>43, <1>26
    <3>15. \A i \in DOMAIN D : S("guestCancelBookingCrossYear", D[i])
      BY <3>14, SMTT(60) DEF EscrowC!GuestCancelBookingCrossYear, EscrowC!Builder
    <3> QED BY <3>13, <3>15
  <2> QED BY <2>2, <2>3 DEF N, M, D
<1>75. Apt("guestReview", EscrowC!GuestReview, EscrowC!GuestReviewParse, EscrowA!GuestReview)
  <2> DEFINE N == EscrowC!GuestReviewParse
         M == Means("escrow", "guestReview", stay, as)
         L == EscrowA!GuestReview
         D == EscrowC!GuestReview.defaults
  <2>1. /\ 1 \in DOMAIN N /\ N[1] = "guest"
        /\ 2 \in DOMAIN N /\ N[2] = "guestProfile"
        /\ 3 \in DOMAIN N /\ N[3] = "hostProfile"
        /\ 4 \in DOMAIN N /\ N[4] = "hostReputation"
        /\ 5 \in DOMAIN N /\ N[5] = "listing"
        /\ 6 \in DOMAIN N /\ N[6] = "booking"
        /\ 7 \in DOMAIN N /\ N[7] = "globalConfig"
        /\ 8 \in DOMAIN N /\ N[8] = "cpiAuthority"
        /\ 9 \in DOMAIN N /\ N[9] = "staykeCoreProgram"
    BY DEF EscrowC!GuestReviewParse
  <2>2. \A i \in DOMAIN N : N[i] \in PlacedNames \cup {"payer"}
    BY SMTT(60) DEF EscrowC!GuestReviewParse, PlacedNames, OwnPlaces, SharedNames
  <2> HIDE DEF N
  <2>3. ASSUME as \in Roles("guestReview"), Agree(T, N, M)
        PROVE  /\ \A i \in DOMAIN L : P(L[i])
               /\ \A i \in DOMAIN D : S("guestReview", D[i])
    <3>0. MeantAt(M, "escrow", "guestReview", stay, as)
      BY MeansPlaces
    <3> HIDE DEF M
    <3>1. as = "guest"
      BY <2>3 DEF Roles, PartyOps, HostOps
    <3>2. /\ T["guest"] = M["guest"]
          /\ T["guestProfile"] = M["guestProfile"]
          /\ T["hostProfile"] = M["hostProfile"]
          /\ T["hostReputation"] = M["hostReputation"]
          /\ T["listing"] = M["listing"]
          /\ T["booking"] = M["booking"]
          /\ T["globalConfig"] = M["globalConfig"]
          /\ T["cpiAuthority"] = M["cpiAuthority"]
          /\ T["staykeCoreProgram"] = M["staykeCoreProgram"]
      BY <2>1, <2>3 DEF Agree
    <3>4. /\ M["guest"] = GuestOf(stay)
          /\ M["guestProfile"] = Profiled(GuestOf(stay))
          /\ M["hostProfile"] = Profiled(HostOf(stay))
          /\ M["hostReputation"] = Reputed(HostOf(stay))
          /\ M["listing"] = ListingOf(stay)
          /\ M["booking"] = StayBooking(stay)
          /\ M["globalConfig"] = Address("config", <<Lit("global_config")>>)
          /\ M["cpiAuthority"] = Address("escrow", <<Lit("cpi_authority")>>)
          /\ M["staykeCoreProgram"] = Deployed("core")
      BY <3>0 DEF MeantAt
    <3>5. /\ T["guest"] = GuestOf(stay)
          /\ T["guestProfile"] = Profiled(GuestOf(stay))
          /\ T["hostProfile"] = Profiled(HostOf(stay))
          /\ T["hostReputation"] = Reputed(HostOf(stay))
          /\ T["listing"] = ListingOf(stay)
          /\ T["booking"] = StayBooking(stay)
          /\ T["globalConfig"] = Address("config", <<Lit("global_config")>>)
          /\ T["cpiAuthority"] = Address("escrow", <<Lit("cpi_authority")>>)
          /\ T["staykeCoreProgram"] = Deployed("core")
      BY <3>2, <3>4
    <3>6. /\ P(EscrowA!Signs("guest", {}))
          /\ P(EscrowA!Ro("guestProfile", EscrowA!UserProfile,
               {EscrowA!ProfileOf("guest"), EscrowA!Held("booking", "guest")}))
          /\ P(EscrowA!PartyRule("hostProfile", "host"))
          /\ P(EscrowA!Mut("hostReputation", EscrowA!ReputationProfile,
               {EscrowA!ReputationBy("hostProfile")}))
          /\ P(EscrowA!Mut("listing", EscrowA!Listing,
               {EscrowA!Held("booking", "property"),
                       EscrowA!SameListing("hostProfile", "listing")}))
          /\ P(EscrowA!BookingRule)
          /\ P(EscrowA!GlobalConfigRule)
          /\ P(EscrowA!AuthorityRule)
          /\ P(EscrowA!CoreProgramRule)
      BY <3>5, <1>44, <1>45, <1>36, <1>46, <1>47, <1>3, <1>7, <1>6, <1>42
    <3>7. \A i \in DOMAIN L : P(L[i])
      BY <3>6, SMTT(60) DEF EscrowA!GuestReview
    <3>8. /\ Q(EscrowC!Default("guestProfile", EscrowC!UserProfileOf("guest")))
          /\ Q(EscrowC!Default("globalConfig", EscrowC!GlobalConfig))
          /\ Q(EscrowC!Default("cpiAuthority", EscrowC!FindCpiAuthorityPda))
          /\ Q(EscrowC!Default("staykeCoreProgram", EscrowC!Fixed("core")))
      BY <3>5, <1>48, <1>10, <1>9, <1>43
    <3>9. \A i \in DOMAIN D : S("guestReview", D[i])
      BY <3>8, SMTT(60) DEF EscrowC!GuestReview, EscrowC!Builder
    <3> QED BY <3>7, <3>9
  <2> QED BY <2>2, <2>3 DEF N, M, D
<1>76. Apt("hostAcceptBooking", EscrowC!HostAcceptBooking, EscrowC!HostAcceptBookingParse,
        EscrowA!HostAcceptBooking)
  <2> DEFINE N == EscrowC!HostAcceptBookingParse
         M == Means("escrow", "hostAcceptBooking", stay, as)
         L == EscrowA!HostAcceptBooking
         D == EscrowC!HostAcceptBooking.defaults
  <2>1. /\ 2 \in DOMAIN N /\ N[2] = "host"
        /\ 3 \in DOMAIN N /\ N[3] = "hostProfile"
        /\ 4 \in DOMAIN N /\ N[4] = "booking"
        /\ 5 \in DOMAIN N /\ N[5] = "globalConfig"
    BY DEF EscrowC!HostAcceptBookingParse
  <2>2. \A i \in DOMAIN N : N[i] \in PlacedNames \cup {"payer"}
    BY SMTT(60) DEF EscrowC!HostAcceptBookingParse, PlacedNames, OwnPlaces, SharedNames
  <2> HIDE DEF N
  <2>3. ASSUME as \in Roles("hostAcceptBooking"), Agree(T, N, M)
        PROVE  /\ \A i \in DOMAIN L : P(L[i])
               /\ \A i \in DOMAIN D : S("hostAcceptBooking", D[i])
    <3>0. MeantAt(M, "escrow", "hostAcceptBooking", stay, as)
      BY MeansPlaces
    <3> HIDE DEF M
    <3>1. as = "host"
      BY <2>3 DEF Roles, PartyOps, HostOps
    <3>2. /\ T["host"] = M["host"]
          /\ T["hostProfile"] = M["hostProfile"]
          /\ T["booking"] = M["booking"]
          /\ T["globalConfig"] = M["globalConfig"]
      BY <2>1, <2>3 DEF Agree
    <3>4. /\ M["host"] = HostOf(stay)
          /\ M["hostProfile"] = Profiled(HostOf(stay))
          /\ M["booking"] = StayBooking(stay)
          /\ M["globalConfig"] = Address("config", <<Lit("global_config")>>)
      BY <3>0 DEF MeantAt
    <3>5. /\ T["host"] = HostOf(stay)
          /\ T["hostProfile"] = Profiled(HostOf(stay))
          /\ T["booking"] = StayBooking(stay)
          /\ T["globalConfig"] = Address("config", <<Lit("global_config")>>)
      BY <3>2, <3>4
    <3>6. /\ P(EscrowA!MutSigns("payer", {}))
          /\ P(EscrowA!Signs("host", {}))
          /\ P(EscrowA!Ro("hostProfile", EscrowA!UserProfile,
               {EscrowA!ProfileOf("host"), EscrowA!Held("booking", "host")}))
          /\ P(EscrowA!BookingRule)
          /\ P(EscrowA!GlobalConfigRule)
      BY <3>5, <1>2, <1>49, <1>50, <1>3, <1>7
    <3>7. \A i \in DOMAIN L : P(L[i])
      BY <3>6, SMTT(60) DEF EscrowA!HostAcceptBooking
    <3>8. /\ Q(EscrowC!Default("hostProfile", EscrowC!UserProfileOf("host")))
          /\ Q(EscrowC!Default("globalConfig", EscrowC!GlobalConfig))
      BY <3>5, <1>51, <1>10
    <3>9. \A i \in DOMAIN D : S("hostAcceptBooking", D[i])
      BY <3>8, SMTT(60) DEF EscrowC!HostAcceptBooking, EscrowC!Builder
    <3> QED BY <3>7, <3>9
  <2> QED BY <2>2, <2>3 DEF N, M, D
<1>77. Apt("hostCancelBooking", EscrowC!HostCancelBooking, EscrowC!HostCancelBookingParse,
        EscrowA!HostCancelBooking)
  <2> DEFINE N == EscrowC!HostCancelBookingParse
         M == Means("escrow", "hostCancelBooking", stay, as)
         L == EscrowA!HostCancelBooking
         D == EscrowC!HostCancelBooking.defaults
  <2>1. /\ 1 \in DOMAIN N /\ N[1] = "caller"
        /\ 2 \in DOMAIN N /\ N[2] = "guestProfile"
        /\ 3 \in DOMAIN N /\ N[3] = "hostProfile"
        /\ 4 \in DOMAIN N /\ N[4] = "hostReputation"
        /\ 5 \in DOMAIN N /\ N[5] = "booking"
        /\ 6 \in DOMAIN N /\ N[6] = "bookingDays"
        /\ 7 \in DOMAIN N /\ N[7] = "globalConfig"
        /\ 8 \in DOMAIN N /\ N[8] = "escrowTokenAccount"
        /\ 9 \in DOMAIN N /\ N[9] = "guestTokenAccount"
        /\ 10 \in DOMAIN N /\ N[10] = "mint"
        /\ 11 \in DOMAIN N /\ N[11] = "cpiAuthority"
        /\ 12 \in DOMAIN N /\ N[12] = "treasuryConfig"
        /\ 13 \in DOMAIN N /\ N[13] = "treasuryVault"
        /\ 14 \in DOMAIN N /\ N[14] = "treasuryPda"
        /\ 15 \in DOMAIN N /\ N[15] = "staykeCoreProgram"
        /\ 16 \in DOMAIN N /\ N[16] = "staykeTreasuryProgram"
        /\ 17 \in DOMAIN N /\ N[17] = "tokenProgram"
    BY DEF EscrowC!HostCancelBookingParse
  <2>2. \A i \in DOMAIN N : N[i] \in PlacedNames \cup {"payer"}
    BY SMTT(60) DEF EscrowC!HostCancelBookingParse, PlacedNames, OwnPlaces, SharedNames
  <2> HIDE DEF N
  <2>3. ASSUME as \in Roles("hostCancelBooking"), Agree(T, N, M)
        PROVE  /\ \A i \in DOMAIN L : P(L[i])
               /\ \A i \in DOMAIN D : S("hostCancelBooking", D[i])
    <3>0. MeantAt(M, "escrow", "hostCancelBooking", stay, as)
      BY MeansPlaces
    <3> HIDE DEF M
    <3>1. as = "host"
      BY <2>3 DEF Roles, PartyOps, HostOps
    <3>2. /\ T["caller"] = M["caller"]
          /\ T["guestProfile"] = M["guestProfile"]
          /\ T["hostProfile"] = M["hostProfile"]
          /\ T["hostReputation"] = M["hostReputation"]
          /\ T["booking"] = M["booking"]
          /\ T["bookingDays"] = M["bookingDays"]
          /\ T["globalConfig"] = M["globalConfig"]
          /\ T["escrowTokenAccount"] = M["escrowTokenAccount"]
          /\ T["guestTokenAccount"] = M["guestTokenAccount"]
          /\ T["mint"] = M["mint"]
          /\ T["cpiAuthority"] = M["cpiAuthority"]
          /\ T["treasuryConfig"] = M["treasuryConfig"]
          /\ T["treasuryVault"] = M["treasuryVault"]
          /\ T["treasuryPda"] = M["treasuryPda"]
          /\ T["staykeCoreProgram"] = M["staykeCoreProgram"]
          /\ T["staykeTreasuryProgram"] = M["staykeTreasuryProgram"]
          /\ T["tokenProgram"] = M["tokenProgram"]
      BY <2>1, <2>3 DEF Agree
    <3>4. ActorOf(stay, as) = HostOf(stay)
      BY <3>1, <1>1
    <3>5. /\ M["caller"] = ActorOf(stay, as)
          /\ M["guestProfile"] = Profiled(GuestOf(stay))
          /\ M["hostProfile"] = Profiled(HostOf(stay))
          /\ M["hostReputation"] = Reputed(HostOf(stay))
          /\ M["booking"] = StayBooking(stay)
          /\ M["bookingDays"] = Occupied(ListingOf(stay), Year[Stay[stay].checkIn])
          /\ M["globalConfig"] = Address("config", <<Lit("global_config")>>)
          /\ M["escrowTokenAccount"] = MoneyOf(StayBooking(stay))
          /\ M["guestTokenAccount"] = TokensOf(GuestOf(stay))
          /\ M["mint"] = Mint
          /\ M["cpiAuthority"] = Address("escrow", <<Lit("cpi_authority")>>)
          /\ M["treasuryConfig"] = Address("treasury", <<Lit("treasury_config")>>)
          /\ M["treasuryVault"] = TreasuryVault
          /\ M["treasuryPda"] = Address("treasury", <<Lit("treasury")>>)
          /\ M["staykeCoreProgram"] = Deployed("core")
          /\ M["staykeTreasuryProgram"] = Deployed("treasury")
          /\ M["tokenProgram"] = Deployed("token")
      BY <3>0 DEF MeantAt
    <3>6. /\ T["caller"] = HostOf(stay)
          /\ T["guestProfile"] = Profiled(GuestOf(stay))
          /\ T["hostProfile"] = Profiled(HostOf(stay))
          /\ T["hostReputation"] = Reputed(HostOf(stay))
          /\ T["booking"] = StayBooking(stay)
          /\ T["bookingDays"] = Occupied(ListingOf(stay), Year[Stay[stay].checkIn])
          /\ T["globalConfig"] = Address("config", <<Lit("global_config")>>)
          /\ T["escrowTokenAccount"] = MoneyOf(StayBooking(stay))
          /\ T["guestTokenAccount"] = TokensOf(GuestOf(stay))
          /\ T["mint"] = Mint
          /\ T["cpiAuthority"] = Address("escrow", <<Lit("cpi_authority")>>)
          /\ T["treasuryConfig"] = Address("treasury", <<Lit("treasury_config")>>)
          /\ T["treasuryVault"] = TreasuryVault
          /\ T["treasuryPda"] = Address("treasury", <<Lit("treasury")>>)
          /\ T["staykeCoreProgram"] = Deployed("core")
          /\ T["staykeTreasuryProgram"] = Deployed("treasury")
          /\ T["tokenProgram"] = Deployed("token")
      BY <3>2, <3>4, <3>5
    <3>7. /\ P(EscrowA!MutSigns("caller", {EscrowA!Held("hostProfile", "authority")}))
          /\ P(EscrowA!PartyRule("guestProfile", "guest"))
          /\ P(EscrowA!MutPartyRule("hostProfile", "host"))
          /\ P(EscrowA!Mut("hostReputation", EscrowA!ReputationProfile,
               {EscrowA!ReputationBy("hostProfile")}))
          /\ P(EscrowA!BookingRule)
          /\ P(EscrowA!DaysRule)
          /\ P(EscrowA!GlobalConfigRule)
          /\ P(EscrowA!OwnTokensRule)
          /\ P(EscrowA!TokensRule("guestTokenAccount", "guestProfile"))
          /\ P(EscrowA!MutMintRule("mint"))
          /\ P(EscrowA!AuthorityRule)
          /\ P(EscrowA!Ro("treasuryConfig", EscrowA!TreasuryConfigAcc, {EscrowA!TreasuryConfigPda}))
          /\ P(EscrowA!Mut("treasuryVault", EscrowA!TokenAccount,
               {EscrowA!Held("treasuryConfig", "treasuryVault")}))
          /\ P(EscrowA!Unchecked("treasuryPda", {}))
          /\ P(EscrowA!CoreProgramRule)
          /\ P(EscrowA!ProgramRule("staykeTreasuryProgram", "treasury"))
          /\ P(EscrowA!TokenRule)
      BY <3>6, <1>52, <1>35, <1>53, <1>46, <1>3, <1>32, <1>7, <1>30, <1>38, <1>41, <1>6,
        <1>54, <1>55, <1>56, <1>42, <1>57, <1>21
    <3> DEFINE X == {EscrowA!MutSigns("caller", {EscrowA!Held("hostProfile", "authority")}),
                        EscrowA!PartyRule("guestProfile", "guest"),
                        EscrowA!MutPartyRule("hostProfile", "host"),
                        EscrowA!Mut("hostReputation", EscrowA!ReputationProfile,
                                {EscrowA!ReputationBy("hostProfile")}),
                        EscrowA!BookingRule,
                        EscrowA!DaysRule,
                        EscrowA!GlobalConfigRule,
                        EscrowA!OwnTokensRule,
                        EscrowA!TokensRule("guestTokenAccount", "guestProfile"),
                        EscrowA!MutMintRule("mint"),
                        EscrowA!AuthorityRule,
                        EscrowA!Ro("treasuryConfig", EscrowA!TreasuryConfigAcc,
                                {EscrowA!TreasuryConfigPda}),
                        EscrowA!Mut("treasuryVault", EscrowA!TokenAccount,
                                {EscrowA!Held("treasuryConfig", "treasuryVault")}),
                        EscrowA!Unchecked("treasuryPda", {}),
                        EscrowA!CoreProgramRule,
                        EscrowA!ProgramRule("staykeTreasuryProgram", "treasury"),
                        EscrowA!TokenRule}
    <3>8. \A rule \in X : P(rule)
      BY <3>7
    <3>9. <<EscrowA!MutSigns("caller", {EscrowA!Held("hostProfile", "authority")}),
            EscrowA!PartyRule("guestProfile", "guest"),
            EscrowA!MutPartyRule("hostProfile", "host"),
            EscrowA!Mut("hostReputation", EscrowA!ReputationProfile,
                    {EscrowA!ReputationBy("hostProfile")}),
            EscrowA!BookingRule>> \in Seq(X)
      OBVIOUS
    <3>10. <<EscrowA!DaysRule>> \in Seq(X)
      OBVIOUS
    <3>11. <<EscrowA!GlobalConfigRule,
            EscrowA!OwnTokensRule,
            EscrowA!TokensRule("guestTokenAccount", "guestProfile"),
            EscrowA!MutMintRule("mint"),
            EscrowA!AuthorityRule,
            EscrowA!Ro("treasuryConfig", EscrowA!TreasuryConfigAcc, {EscrowA!TreasuryConfigPda}),
            EscrowA!Mut("treasuryVault", EscrowA!TokenAccount,
                    {EscrowA!Held("treasuryConfig", "treasuryVault")}),
            EscrowA!Unchecked("treasuryPda", {}),
            EscrowA!CoreProgramRule,
            EscrowA!ProgramRule("staykeTreasuryProgram", "treasury"),
            EscrowA!TokenRule>> \in Seq(X)
      OBVIOUS
    <3> HIDE DEF X
    <3>12. L \in Seq(X)
      BY <3>9, <3>10, <3>11, Joining DEF EscrowA!HostCancelBooking,
        EscrowA!HostCancelBookingWith
    <3>13. \A i \in DOMAIN L : P(L[i])
      BY <3>8, <3>12
    <3>14. /\ Q(EscrowC!Default("globalConfig", EscrowC!GlobalConfig))
          /\ Q(EscrowC!Default("escrowTokenAccount", EscrowC!FindEscrowTokenAccountPda("booking")))
          /\ Q(EscrowC!Default("cpiAuthority", EscrowC!FindCpiAuthorityPda))
          /\ Q(EscrowC!Default("treasuryConfig", EscrowC!TreasuryConfig))
          /\ Q(EscrowC!Default("staykeCoreProgram", EscrowC!Fixed("core")))
          /\ Q(EscrowC!Default("staykeTreasuryProgram", EscrowC!Fixed("treasury")))
          /\ Q(EscrowC!Default("tokenProgram", EscrowC!Fixed("token")))
      BY <3>6, <1>10, <1>25, <1>9, <1>58, <1>43, <1>59, <1>26
    <3>15. \A i \in DOMAIN D : S("hostCancelBooking", D[i])
      BY <3>14, SMTT(60) DEF EscrowC!HostCancelBooking, EscrowC!Builder
    <3> QED BY <3>13, <3>15
  <2> QED BY <2>2, <2>3 DEF N, M, D
<1>78. Apt("hostCancelBookingCrossYear", EscrowC!HostCancelBookingCrossYear,
        EscrowC!HostCancelBookingCrossYearParse, EscrowA!HostCancelBookingCrossYear)
  <2> DEFINE N == EscrowC!HostCancelBookingCrossYearParse
         M == Means("escrow", "hostCancelBookingCrossYear", stay, as)
         L == EscrowA!HostCancelBookingCrossYear
         D == EscrowC!HostCancelBookingCrossYear.defaults
  <2>1. /\ 1 \in DOMAIN N /\ N[1] = "caller"
        /\ 2 \in DOMAIN N /\ N[2] = "guestProfile"
        /\ 3 \in DOMAIN N /\ N[3] = "hostProfile"
        /\ 4 \in DOMAIN N /\ N[4] = "hostReputation"
        /\ 5 \in DOMAIN N /\ N[5] = "booking"
        /\ 6 \in DOMAIN N /\ N[6] = "bookingDays"
        /\ 7 \in DOMAIN N /\ N[7] = "bookingDaysNext"
        /\ 8 \in DOMAIN N /\ N[8] = "globalConfig"
        /\ 9 \in DOMAIN N /\ N[9] = "escrowTokenAccount"
        /\ 10 \in DOMAIN N /\ N[10] = "guestTokenAccount"
        /\ 11 \in DOMAIN N /\ N[11] = "mint"
        /\ 12 \in DOMAIN N /\ N[12] = "cpiAuthority"
        /\ 13 \in DOMAIN N /\ N[13] = "treasuryConfig"
        /\ 14 \in DOMAIN N /\ N[14] = "treasuryVault"
        /\ 15 \in DOMAIN N /\ N[15] = "treasuryPda"
        /\ 16 \in DOMAIN N /\ N[16] = "staykeCoreProgram"
        /\ 17 \in DOMAIN N /\ N[17] = "staykeTreasuryProgram"
        /\ 18 \in DOMAIN N /\ N[18] = "tokenProgram"
    BY DEF EscrowC!HostCancelBookingCrossYearParse
  <2>2. \A i \in DOMAIN N : N[i] \in PlacedNames \cup {"payer"}
    BY SMTT(60) DEF EscrowC!HostCancelBookingCrossYearParse, PlacedNames, OwnPlaces, SharedNames
  <2> HIDE DEF N
  <2>3. ASSUME as \in Roles("hostCancelBookingCrossYear"), Agree(T, N, M)
        PROVE  /\ \A i \in DOMAIN L : P(L[i])
               /\ \A i \in DOMAIN D : S("hostCancelBookingCrossYear", D[i])
    <3>0. MeantAt(M, "escrow", "hostCancelBookingCrossYear", stay, as)
      BY MeansPlaces
    <3> HIDE DEF M
    <3>1. as = "host"
      BY <2>3 DEF Roles, PartyOps, HostOps
    <3>2. /\ T["caller"] = M["caller"]
          /\ T["guestProfile"] = M["guestProfile"]
          /\ T["hostProfile"] = M["hostProfile"]
          /\ T["hostReputation"] = M["hostReputation"]
          /\ T["booking"] = M["booking"]
          /\ T["bookingDays"] = M["bookingDays"]
          /\ T["bookingDaysNext"] = M["bookingDaysNext"]
          /\ T["globalConfig"] = M["globalConfig"]
          /\ T["escrowTokenAccount"] = M["escrowTokenAccount"]
          /\ T["guestTokenAccount"] = M["guestTokenAccount"]
          /\ T["mint"] = M["mint"]
          /\ T["cpiAuthority"] = M["cpiAuthority"]
          /\ T["treasuryConfig"] = M["treasuryConfig"]
          /\ T["treasuryVault"] = M["treasuryVault"]
          /\ T["treasuryPda"] = M["treasuryPda"]
          /\ T["staykeCoreProgram"] = M["staykeCoreProgram"]
          /\ T["staykeTreasuryProgram"] = M["staykeTreasuryProgram"]
          /\ T["tokenProgram"] = M["tokenProgram"]
      BY <2>1, <2>3 DEF Agree
    <3>4. ActorOf(stay, as) = HostOf(stay)
      BY <3>1, <1>1
    <3>5. /\ M["caller"] = ActorOf(stay, as)
          /\ M["guestProfile"] = Profiled(GuestOf(stay))
          /\ M["hostProfile"] = Profiled(HostOf(stay))
          /\ M["hostReputation"] = Reputed(HostOf(stay))
          /\ M["booking"] = StayBooking(stay)
          /\ M["bookingDays"] = Occupied(ListingOf(stay), Year[Stay[stay].checkIn])
          /\ M["bookingDaysNext"] = Occupied(ListingOf(stay), NextYear(Stay[stay].checkIn))
          /\ M["globalConfig"] = Address("config", <<Lit("global_config")>>)
          /\ M["escrowTokenAccount"] = MoneyOf(StayBooking(stay))
          /\ M["guestTokenAccount"] = TokensOf(GuestOf(stay))
          /\ M["mint"] = Mint
          /\ M["cpiAuthority"] = Address("escrow", <<Lit("cpi_authority")>>)
          /\ M["treasuryConfig"] = Address("treasury", <<Lit("treasury_config")>>)
          /\ M["treasuryVault"] = TreasuryVault
          /\ M["treasuryPda"] = Address("treasury", <<Lit("treasury")>>)
          /\ M["staykeCoreProgram"] = Deployed("core")
          /\ M["staykeTreasuryProgram"] = Deployed("treasury")
          /\ M["tokenProgram"] = Deployed("token")
      BY <3>0 DEF MeantAt
    <3>6. /\ T["caller"] = HostOf(stay)
          /\ T["guestProfile"] = Profiled(GuestOf(stay))
          /\ T["hostProfile"] = Profiled(HostOf(stay))
          /\ T["hostReputation"] = Reputed(HostOf(stay))
          /\ T["booking"] = StayBooking(stay)
          /\ T["bookingDays"] = Occupied(ListingOf(stay), Year[Stay[stay].checkIn])
          /\ T["bookingDaysNext"] = Occupied(ListingOf(stay), NextYear(Stay[stay].checkIn))
          /\ T["globalConfig"] = Address("config", <<Lit("global_config")>>)
          /\ T["escrowTokenAccount"] = MoneyOf(StayBooking(stay))
          /\ T["guestTokenAccount"] = TokensOf(GuestOf(stay))
          /\ T["mint"] = Mint
          /\ T["cpiAuthority"] = Address("escrow", <<Lit("cpi_authority")>>)
          /\ T["treasuryConfig"] = Address("treasury", <<Lit("treasury_config")>>)
          /\ T["treasuryVault"] = TreasuryVault
          /\ T["treasuryPda"] = Address("treasury", <<Lit("treasury")>>)
          /\ T["staykeCoreProgram"] = Deployed("core")
          /\ T["staykeTreasuryProgram"] = Deployed("treasury")
          /\ T["tokenProgram"] = Deployed("token")
      BY <3>2, <3>4, <3>5
    <3>7. /\ P(EscrowA!MutSigns("caller", {EscrowA!Held("hostProfile", "authority")}))
          /\ P(EscrowA!PartyRule("guestProfile", "guest"))
          /\ P(EscrowA!MutPartyRule("hostProfile", "host"))
          /\ P(EscrowA!Mut("hostReputation", EscrowA!ReputationProfile,
               {EscrowA!ReputationBy("hostProfile")}))
          /\ P(EscrowA!BookingRule)
          /\ P(EscrowA!DaysRule)
          /\ P(EscrowA!NextDaysRule)
          /\ P(EscrowA!GlobalConfigRule)
          /\ P(EscrowA!OwnTokensRule)
          /\ P(EscrowA!TokensRule("guestTokenAccount", "guestProfile"))
          /\ P(EscrowA!MutMintRule("mint"))
          /\ P(EscrowA!AuthorityRule)
          /\ P(EscrowA!Ro("treasuryConfig", EscrowA!TreasuryConfigAcc, {EscrowA!TreasuryConfigPda}))
          /\ P(EscrowA!Mut("treasuryVault", EscrowA!TokenAccount,
               {EscrowA!Held("treasuryConfig", "treasuryVault")}))
          /\ P(EscrowA!Unchecked("treasuryPda", {}))
          /\ P(EscrowA!CoreProgramRule)
          /\ P(EscrowA!ProgramRule("staykeTreasuryProgram", "treasury"))
          /\ P(EscrowA!TokenRule)
      BY <3>6, <1>52, <1>35, <1>53, <1>46, <1>3, <1>32, <1>33, <1>7, <1>30, <1>38, <1>41,
        <1>6, <1>54, <1>55, <1>56, <1>42, <1>57, <1>21
    <3> DEFINE X == {EscrowA!MutSigns("caller", {EscrowA!Held("hostProfile", "authority")}),
                        EscrowA!PartyRule("guestProfile", "guest"),
                        EscrowA!MutPartyRule("hostProfile", "host"),
                        EscrowA!Mut("hostReputation", EscrowA!ReputationProfile,
                                {EscrowA!ReputationBy("hostProfile")}),
                        EscrowA!BookingRule,
                        EscrowA!DaysRule,
                        EscrowA!NextDaysRule,
                        EscrowA!GlobalConfigRule,
                        EscrowA!OwnTokensRule,
                        EscrowA!TokensRule("guestTokenAccount", "guestProfile"),
                        EscrowA!MutMintRule("mint"),
                        EscrowA!AuthorityRule,
                        EscrowA!Ro("treasuryConfig", EscrowA!TreasuryConfigAcc,
                                {EscrowA!TreasuryConfigPda}),
                        EscrowA!Mut("treasuryVault", EscrowA!TokenAccount,
                                {EscrowA!Held("treasuryConfig", "treasuryVault")}),
                        EscrowA!Unchecked("treasuryPda", {}),
                        EscrowA!CoreProgramRule,
                        EscrowA!ProgramRule("staykeTreasuryProgram", "treasury"),
                        EscrowA!TokenRule}
    <3>8. \A rule \in X : P(rule)
      BY <3>7
    <3>9. <<EscrowA!MutSigns("caller", {EscrowA!Held("hostProfile", "authority")}),
            EscrowA!PartyRule("guestProfile", "guest"),
            EscrowA!MutPartyRule("hostProfile", "host"),
            EscrowA!Mut("hostReputation", EscrowA!ReputationProfile,
                    {EscrowA!ReputationBy("hostProfile")}),
            EscrowA!BookingRule>> \in Seq(X)
      OBVIOUS
    <3>10. <<EscrowA!DaysRule,
            EscrowA!NextDaysRule>> \in Seq(X)
      OBVIOUS
    <3>11. <<EscrowA!GlobalConfigRule,
            EscrowA!OwnTokensRule,
            EscrowA!TokensRule("guestTokenAccount", "guestProfile"),
            EscrowA!MutMintRule("mint"),
            EscrowA!AuthorityRule,
            EscrowA!Ro("treasuryConfig", EscrowA!TreasuryConfigAcc, {EscrowA!TreasuryConfigPda}),
            EscrowA!Mut("treasuryVault", EscrowA!TokenAccount,
                    {EscrowA!Held("treasuryConfig", "treasuryVault")}),
            EscrowA!Unchecked("treasuryPda", {}),
            EscrowA!CoreProgramRule,
            EscrowA!ProgramRule("staykeTreasuryProgram", "treasury"),
            EscrowA!TokenRule>> \in Seq(X)
      OBVIOUS
    <3> HIDE DEF X
    <3>12. L \in Seq(X)
      BY <3>9, <3>10, <3>11, Joining DEF EscrowA!HostCancelBookingCrossYear,
        EscrowA!HostCancelBookingWith
    <3>13. \A i \in DOMAIN L : P(L[i])
      BY <3>8, <3>12
    <3>14. /\ Q(EscrowC!Default("globalConfig", EscrowC!GlobalConfig))
          /\ Q(EscrowC!Default("escrowTokenAccount", EscrowC!FindEscrowTokenAccountPda("booking")))
          /\ Q(EscrowC!Default("cpiAuthority", EscrowC!FindCpiAuthorityPda))
          /\ Q(EscrowC!Default("treasuryConfig", EscrowC!TreasuryConfig))
          /\ Q(EscrowC!Default("staykeCoreProgram", EscrowC!Fixed("core")))
          /\ Q(EscrowC!Default("staykeTreasuryProgram", EscrowC!Fixed("treasury")))
          /\ Q(EscrowC!Default("tokenProgram", EscrowC!Fixed("token")))
      BY <3>6, <1>10, <1>25, <1>9, <1>58, <1>43, <1>59, <1>26
    <3>15. \A i \in DOMAIN D : S("hostCancelBookingCrossYear", D[i])
      BY <3>14, SMTT(60) DEF EscrowC!HostCancelBookingCrossYear, EscrowC!Builder
    <3> QED BY <3>13, <3>15
  <2> QED BY <2>2, <2>3 DEF N, M, D
<1>79. Apt("hostRejectBooking", EscrowC!HostRejectBooking, EscrowC!HostRejectBookingParse,
        EscrowA!HostRejectBooking)
  <2> DEFINE N == EscrowC!HostRejectBookingParse
         M == Means("escrow", "hostRejectBooking", stay, as)
         L == EscrowA!HostRejectBooking
         D == EscrowC!HostRejectBooking.defaults
  <2>1. /\ 2 \in DOMAIN N /\ N[2] = "host"
        /\ 3 \in DOMAIN N /\ N[3] = "hostProfile"
        /\ 4 \in DOMAIN N /\ N[4] = "guest"
        /\ 5 \in DOMAIN N /\ N[5] = "booking"
        /\ 6 \in DOMAIN N /\ N[6] = "bookingDays"
        /\ 7 \in DOMAIN N /\ N[7] = "globalConfig"
        /\ 8 \in DOMAIN N /\ N[8] = "escrowTokenAccount"
        /\ 9 \in DOMAIN N /\ N[9] = "guestTokenAccount"
        /\ 10 \in DOMAIN N /\ N[10] = "mint"
        /\ 11 \in DOMAIN N /\ N[11] = "tokenProgram"
    BY DEF EscrowC!HostRejectBookingParse
  <2>2. \A i \in DOMAIN N : N[i] \in PlacedNames \cup {"payer"}
    BY SMTT(60) DEF EscrowC!HostRejectBookingParse, PlacedNames, OwnPlaces, SharedNames
  <2> HIDE DEF N
  <2>3. ASSUME as \in Roles("hostRejectBooking"), Agree(T, N, M)
        PROVE  /\ \A i \in DOMAIN L : P(L[i])
               /\ \A i \in DOMAIN D : S("hostRejectBooking", D[i])
    <3>0. MeantAt(M, "escrow", "hostRejectBooking", stay, as)
      BY MeansPlaces
    <3> HIDE DEF M
    <3>1. as = "host"
      BY <2>3 DEF Roles, PartyOps, HostOps
    <3>2. /\ T["host"] = M["host"]
          /\ T["hostProfile"] = M["hostProfile"]
          /\ T["guest"] = M["guest"]
          /\ T["booking"] = M["booking"]
          /\ T["bookingDays"] = M["bookingDays"]
          /\ T["globalConfig"] = M["globalConfig"]
          /\ T["escrowTokenAccount"] = M["escrowTokenAccount"]
          /\ T["guestTokenAccount"] = M["guestTokenAccount"]
          /\ T["mint"] = M["mint"]
          /\ T["tokenProgram"] = M["tokenProgram"]
      BY <2>1, <2>3 DEF Agree
    <3>4. /\ M["host"] = HostOf(stay)
          /\ M["hostProfile"] = Profiled(HostOf(stay))
          /\ M["guest"] = Profiled(GuestOf(stay))
          /\ M["booking"] = StayBooking(stay)
          /\ M["bookingDays"] = Occupied(ListingOf(stay), Year[Stay[stay].checkIn])
          /\ M["globalConfig"] = Address("config", <<Lit("global_config")>>)
          /\ M["escrowTokenAccount"] = MoneyOf(StayBooking(stay))
          /\ M["guestTokenAccount"] = TokensOf(GuestOf(stay))
          /\ M["mint"] = Mint
          /\ M["tokenProgram"] = Deployed("token")
      BY <3>0 DEF MeantAt
    <3>5. /\ T["host"] = HostOf(stay)
          /\ T["hostProfile"] = Profiled(HostOf(stay))
          /\ T["guest"] = Profiled(GuestOf(stay))
          /\ T["booking"] = StayBooking(stay)
          /\ T["bookingDays"] = Occupied(ListingOf(stay), Year[Stay[stay].checkIn])
          /\ T["globalConfig"] = Address("config", <<Lit("global_config")>>)
          /\ T["escrowTokenAccount"] = MoneyOf(StayBooking(stay))
          /\ T["guestTokenAccount"] = TokensOf(GuestOf(stay))
          /\ T["mint"] = Mint
          /\ T["tokenProgram"] = Deployed("token")
      BY <3>2, <3>4
    <3>6. /\ P(EscrowA!CreditedSigns("payer", {}))
          /\ P(EscrowA!Signs("host", {}))
          /\ P(EscrowA!Ro("hostProfile", EscrowA!UserProfile,
               {EscrowA!ProfileOf("host"), EscrowA!Held("booking", "host")}))
          /\ P(EscrowA!PartyRule("guest", "guest"))
          /\ P(EscrowA!Closed("booking", EscrowA!Booking, {EscrowA!BookingBy("booking")}))
          /\ P(EscrowA!DaysRule)
          /\ P(EscrowA!GlobalConfigRule)
          /\ P(EscrowA!OwnTokensRule)
          /\ P(EscrowA!TokensRule("guestTokenAccount", "guest"))
          /\ P(EscrowA!MintRule("mint"))
          /\ P(EscrowA!TokenRule)
      BY <3>5, <1>60, <1>49, <1>50, <1>28, <1>29, <1>32, <1>7, <1>30, <1>31, <1>20, <1>21
    <3> DEFINE X == {EscrowA!CreditedSigns("payer", {}),
                        EscrowA!Signs("host", {}),
                        EscrowA!Ro("hostProfile", EscrowA!UserProfile,
                                {EscrowA!ProfileOf("host"), EscrowA!Held("booking", "host")}),
                        EscrowA!PartyRule("guest", "guest"),
                        EscrowA!Closed("booking", EscrowA!Booking, {EscrowA!BookingBy("booking")}),
                        EscrowA!DaysRule,
                        EscrowA!GlobalConfigRule,
                        EscrowA!OwnTokensRule,
                        EscrowA!TokensRule("guestTokenAccount", "guest"),
                        EscrowA!MintRule("mint"),
                        EscrowA!TokenRule}
    <3>7. \A rule \in X : P(rule)
      BY <3>6
    <3>8. <<EscrowA!CreditedSigns("payer", {})>> \in Seq(X)
      OBVIOUS
    <3>9. <<EscrowA!Signs("host", {}),
            EscrowA!Ro("hostProfile", EscrowA!UserProfile,
                    {EscrowA!ProfileOf("host"), EscrowA!Held("booking", "host")}),
            EscrowA!PartyRule("guest", "guest"),
            EscrowA!Closed("booking", EscrowA!Booking, {EscrowA!BookingBy("booking")})>> \in Seq(X)
      OBVIOUS
    <3>10. <<EscrowA!DaysRule>> \in Seq(X)
      OBVIOUS
    <3>11. <<EscrowA!GlobalConfigRule,
            EscrowA!OwnTokensRule,
            EscrowA!TokensRule("guestTokenAccount", "guest"),
            EscrowA!MintRule("mint"),
            EscrowA!TokenRule>> \in Seq(X)
      OBVIOUS
    <3> HIDE DEF X
    <3>12. L \in Seq(X)
      BY <3>8, <3>9, <3>10, <3>11, Joining DEF EscrowA!HostRejectBooking, EscrowA!Rejection
    <3>13. \A i \in DOMAIN L : P(L[i])
      BY <3>7, <3>12
    <3>14. /\ Q(EscrowC!Default("hostProfile", EscrowC!UserProfileOf("host")))
          /\ Q(EscrowC!Default("globalConfig", EscrowC!GlobalConfig))
          /\ Q(EscrowC!Default("escrowTokenAccount", EscrowC!FindEscrowTokenAccountPda("booking")))
          /\ Q(EscrowC!Default("tokenProgram", EscrowC!Fixed("token")))
      BY <3>5, <1>51, <1>10, <1>25, <1>26
    <3>15. \A i \in DOMAIN D : S("hostRejectBooking", D[i])
      BY <3>14, SMTT(60) DEF EscrowC!HostRejectBooking, EscrowC!Builder
    <3> QED BY <3>13, <3>15
  <2> QED BY <2>2, <2>3 DEF N, M, D
<1>80. Apt("hostRejectBookingCrossYear", EscrowC!HostRejectBookingCrossYear,
        EscrowC!HostRejectBookingCrossYearParse, EscrowA!HostRejectBookingCrossYear)
  <2> DEFINE N == EscrowC!HostRejectBookingCrossYearParse
         M == Means("escrow", "hostRejectBookingCrossYear", stay, as)
         L == EscrowA!HostRejectBookingCrossYear
         D == EscrowC!HostRejectBookingCrossYear.defaults
  <2>1. /\ 2 \in DOMAIN N /\ N[2] = "host"
        /\ 3 \in DOMAIN N /\ N[3] = "hostProfile"
        /\ 4 \in DOMAIN N /\ N[4] = "guest"
        /\ 5 \in DOMAIN N /\ N[5] = "booking"
        /\ 6 \in DOMAIN N /\ N[6] = "bookingDays"
        /\ 7 \in DOMAIN N /\ N[7] = "bookingDaysNext"
        /\ 8 \in DOMAIN N /\ N[8] = "globalConfig"
        /\ 9 \in DOMAIN N /\ N[9] = "escrowTokenAccount"
        /\ 10 \in DOMAIN N /\ N[10] = "guestTokenAccount"
        /\ 11 \in DOMAIN N /\ N[11] = "mint"
        /\ 12 \in DOMAIN N /\ N[12] = "tokenProgram"
    BY DEF EscrowC!HostRejectBookingCrossYearParse
  <2>2. \A i \in DOMAIN N : N[i] \in PlacedNames \cup {"payer"}
    BY SMTT(60) DEF EscrowC!HostRejectBookingCrossYearParse, PlacedNames, OwnPlaces, SharedNames
  <2> HIDE DEF N
  <2>3. ASSUME as \in Roles("hostRejectBookingCrossYear"), Agree(T, N, M)
        PROVE  /\ \A i \in DOMAIN L : P(L[i])
               /\ \A i \in DOMAIN D : S("hostRejectBookingCrossYear", D[i])
    <3>0. MeantAt(M, "escrow", "hostRejectBookingCrossYear", stay, as)
      BY MeansPlaces
    <3> HIDE DEF M
    <3>1. as = "host"
      BY <2>3 DEF Roles, PartyOps, HostOps
    <3>2. /\ T["host"] = M["host"]
          /\ T["hostProfile"] = M["hostProfile"]
          /\ T["guest"] = M["guest"]
          /\ T["booking"] = M["booking"]
          /\ T["bookingDays"] = M["bookingDays"]
          /\ T["bookingDaysNext"] = M["bookingDaysNext"]
          /\ T["globalConfig"] = M["globalConfig"]
          /\ T["escrowTokenAccount"] = M["escrowTokenAccount"]
          /\ T["guestTokenAccount"] = M["guestTokenAccount"]
          /\ T["mint"] = M["mint"]
          /\ T["tokenProgram"] = M["tokenProgram"]
      BY <2>1, <2>3 DEF Agree
    <3>4. /\ M["host"] = HostOf(stay)
          /\ M["hostProfile"] = Profiled(HostOf(stay))
          /\ M["guest"] = Profiled(GuestOf(stay))
          /\ M["booking"] = StayBooking(stay)
          /\ M["bookingDays"] = Occupied(ListingOf(stay), Year[Stay[stay].checkIn])
          /\ M["bookingDaysNext"] = Occupied(ListingOf(stay), NextYear(Stay[stay].checkIn))
          /\ M["globalConfig"] = Address("config", <<Lit("global_config")>>)
          /\ M["escrowTokenAccount"] = MoneyOf(StayBooking(stay))
          /\ M["guestTokenAccount"] = TokensOf(GuestOf(stay))
          /\ M["mint"] = Mint
          /\ M["tokenProgram"] = Deployed("token")
      BY <3>0 DEF MeantAt
    <3>5. /\ T["host"] = HostOf(stay)
          /\ T["hostProfile"] = Profiled(HostOf(stay))
          /\ T["guest"] = Profiled(GuestOf(stay))
          /\ T["booking"] = StayBooking(stay)
          /\ T["bookingDays"] = Occupied(ListingOf(stay), Year[Stay[stay].checkIn])
          /\ T["bookingDaysNext"] = Occupied(ListingOf(stay), NextYear(Stay[stay].checkIn))
          /\ T["globalConfig"] = Address("config", <<Lit("global_config")>>)
          /\ T["escrowTokenAccount"] = MoneyOf(StayBooking(stay))
          /\ T["guestTokenAccount"] = TokensOf(GuestOf(stay))
          /\ T["mint"] = Mint
          /\ T["tokenProgram"] = Deployed("token")
      BY <3>2, <3>4
    <3>6. /\ P(EscrowA!MutSigns("payer", {}))
          /\ P(EscrowA!Signs("host", {}))
          /\ P(EscrowA!Ro("hostProfile", EscrowA!UserProfile,
               {EscrowA!ProfileOf("host"), EscrowA!Held("booking", "host")}))
          /\ P(EscrowA!PartyRule("guest", "guest"))
          /\ P(EscrowA!Closed("booking", EscrowA!Booking, {EscrowA!BookingBy("booking")}))
          /\ P(EscrowA!DaysRule)
          /\ P(EscrowA!NextDaysRule)
          /\ P(EscrowA!GlobalConfigRule)
          /\ P(EscrowA!OwnTokensRule)
          /\ P(EscrowA!TokensRule("guestTokenAccount", "guest"))
          /\ P(EscrowA!MintRule("mint"))
          /\ P(EscrowA!TokenRule)
      BY <3>5, <1>2, <1>49, <1>50, <1>28, <1>29, <1>32, <1>33, <1>7, <1>30, <1>31, <1>20,
        <1>21
    <3> DEFINE X == {EscrowA!MutSigns("payer", {}),
                        EscrowA!Signs("host", {}),
                        EscrowA!Ro("hostProfile", EscrowA!UserProfile,
                                {EscrowA!ProfileOf("host"), EscrowA!Held("booking", "host")}),
                        EscrowA!PartyRule("guest", "guest"),
                        EscrowA!Closed("booking", EscrowA!Booking, {EscrowA!BookingBy("booking")}),
                        EscrowA!DaysRule,
                        EscrowA!NextDaysRule,
                        EscrowA!GlobalConfigRule,
                        EscrowA!OwnTokensRule,
                        EscrowA!TokensRule("guestTokenAccount", "guest"),
                        EscrowA!MintRule("mint"),
                        EscrowA!TokenRule}
    <3>7. \A rule \in X : P(rule)
      BY <3>6
    <3>8. <<EscrowA!MutSigns("payer", {})>> \in Seq(X)
      OBVIOUS
    <3>9. <<EscrowA!Signs("host", {}),
            EscrowA!Ro("hostProfile", EscrowA!UserProfile,
                    {EscrowA!ProfileOf("host"), EscrowA!Held("booking", "host")}),
            EscrowA!PartyRule("guest", "guest"),
            EscrowA!Closed("booking", EscrowA!Booking, {EscrowA!BookingBy("booking")})>> \in Seq(X)
      OBVIOUS
    <3>10. <<EscrowA!DaysRule,
            EscrowA!NextDaysRule>> \in Seq(X)
      OBVIOUS
    <3>11. <<EscrowA!GlobalConfigRule,
            EscrowA!OwnTokensRule,
            EscrowA!TokensRule("guestTokenAccount", "guest"),
            EscrowA!MintRule("mint"),
            EscrowA!TokenRule>> \in Seq(X)
      OBVIOUS
    <3> HIDE DEF X
    <3>12. L \in Seq(X)
      BY <3>8, <3>9, <3>10, <3>11, Joining DEF EscrowA!HostRejectBookingCrossYear,
        EscrowA!Rejection
    <3>13. \A i \in DOMAIN L : P(L[i])
      BY <3>7, <3>12
    <3>14. /\ Q(EscrowC!Default("hostProfile", EscrowC!UserProfileOf("host")))
          /\ Q(EscrowC!Default("globalConfig", EscrowC!GlobalConfig))
          /\ Q(EscrowC!Default("escrowTokenAccount", EscrowC!FindEscrowTokenAccountPda("booking")))
          /\ Q(EscrowC!Default("tokenProgram", EscrowC!Fixed("token")))
      BY <3>5, <1>51, <1>10, <1>25, <1>26
    <3>15. \A i \in DOMAIN D : S("hostRejectBookingCrossYear", D[i])
      BY <3>14, SMTT(60) DEF EscrowC!HostRejectBookingCrossYear, EscrowC!Builder
    <3> QED BY <3>13, <3>15
  <2> QED BY <2>2, <2>3 DEF N, M, D
<1>81. Apt("hostReview", EscrowC!HostReview, EscrowC!HostReviewParse, EscrowA!HostReview)
  <2> DEFINE N == EscrowC!HostReviewParse
         M == Means("escrow", "hostReview", stay, as)
         L == EscrowA!HostReview
         D == EscrowC!HostReview.defaults
  <2>1. /\ 1 \in DOMAIN N /\ N[1] = "host"
        /\ 2 \in DOMAIN N /\ N[2] = "hostProfile"
        /\ 3 \in DOMAIN N /\ N[3] = "guestProfile"
        /\ 4 \in DOMAIN N /\ N[4] = "guestReputation"
        /\ 5 \in DOMAIN N /\ N[5] = "booking"
        /\ 6 \in DOMAIN N /\ N[6] = "globalConfig"
        /\ 7 \in DOMAIN N /\ N[7] = "cpiAuthority"
        /\ 8 \in DOMAIN N /\ N[8] = "staykeCoreProgram"
    BY DEF EscrowC!HostReviewParse
  <2>2. \A i \in DOMAIN N : N[i] \in PlacedNames \cup {"payer"}
    BY SMTT(60) DEF EscrowC!HostReviewParse, PlacedNames, OwnPlaces, SharedNames
  <2> HIDE DEF N
  <2>3. ASSUME as \in Roles("hostReview"), Agree(T, N, M)
        PROVE  /\ \A i \in DOMAIN L : P(L[i])
               /\ \A i \in DOMAIN D : S("hostReview", D[i])
    <3>0. MeantAt(M, "escrow", "hostReview", stay, as)
      BY MeansPlaces
    <3> HIDE DEF M
    <3>1. as = "host"
      BY <2>3 DEF Roles, PartyOps, HostOps
    <3>2. /\ T["host"] = M["host"]
          /\ T["hostProfile"] = M["hostProfile"]
          /\ T["guestProfile"] = M["guestProfile"]
          /\ T["guestReputation"] = M["guestReputation"]
          /\ T["booking"] = M["booking"]
          /\ T["globalConfig"] = M["globalConfig"]
          /\ T["cpiAuthority"] = M["cpiAuthority"]
          /\ T["staykeCoreProgram"] = M["staykeCoreProgram"]
      BY <2>1, <2>3 DEF Agree
    <3>4. /\ M["host"] = HostOf(stay)
          /\ M["hostProfile"] = Profiled(HostOf(stay))
          /\ M["guestProfile"] = Profiled(GuestOf(stay))
          /\ M["guestReputation"] = Reputed(GuestOf(stay))
          /\ M["booking"] = StayBooking(stay)
          /\ M["globalConfig"] = Address("config", <<Lit("global_config")>>)
          /\ M["cpiAuthority"] = Address("escrow", <<Lit("cpi_authority")>>)
          /\ M["staykeCoreProgram"] = Deployed("core")
      BY <3>0 DEF MeantAt
    <3>5. /\ T["host"] = HostOf(stay)
          /\ T["hostProfile"] = Profiled(HostOf(stay))
          /\ T["guestProfile"] = Profiled(GuestOf(stay))
          /\ T["guestReputation"] = Reputed(GuestOf(stay))
          /\ T["booking"] = StayBooking(stay)
          /\ T["globalConfig"] = Address("config", <<Lit("global_config")>>)
          /\ T["cpiAuthority"] = Address("escrow", <<Lit("cpi_authority")>>)
          /\ T["staykeCoreProgram"] = Deployed("core")
      BY <3>2, <3>4
    <3>6. /\ P(EscrowA!Signs("host", {}))
          /\ P(EscrowA!Ro("hostProfile", EscrowA!UserProfile,
               {EscrowA!ProfileOf("host"), EscrowA!Held("booking", "host")}))
          /\ P(EscrowA!PartyRule("guestProfile", "guest"))
          /\ P(EscrowA!Mut("guestReputation", EscrowA!ReputationProfile,
               {EscrowA!ReputationBy("guestProfile")}))
          /\ P(EscrowA!BookingRule)
          /\ P(EscrowA!GlobalConfigRule)
          /\ P(EscrowA!AuthorityRule)
          /\ P(EscrowA!CoreProgramRule)
      BY <3>5, <1>49, <1>50, <1>35, <1>37, <1>3, <1>7, <1>6, <1>42
    <3>7. \A i \in DOMAIN L : P(L[i])
      BY <3>6, SMTT(60) DEF EscrowA!HostReview
    <3>8. /\ Q(EscrowC!Default("hostProfile", EscrowC!UserProfileOf("host")))
          /\ Q(EscrowC!Default("globalConfig", EscrowC!GlobalConfig))
          /\ Q(EscrowC!Default("cpiAuthority", EscrowC!FindCpiAuthorityPda))
          /\ Q(EscrowC!Default("staykeCoreProgram", EscrowC!Fixed("core")))
      BY <3>5, <1>51, <1>10, <1>9, <1>43
    <3>9. \A i \in DOMAIN D : S("hostReview", D[i])
      BY <3>8, SMTT(60) DEF EscrowC!HostReview, EscrowC!Builder
    <3> QED BY <3>7, <3>9
  <2> QED BY <2>2, <2>3 DEF N, M, D
<1>82. Apt("initializeEscrow", EscrowC!InitializeEscrow, EscrowC!InitializeEscrowParse,
        EscrowA!InitializeConfigEscrow)
  <2> DEFINE N == EscrowC!InitializeEscrowParse
         M == Means("escrow", "initializeEscrow", stay, as)
         L == EscrowA!InitializeConfigEscrow
         D == EscrowC!InitializeEscrow.defaults
  <2>1. /\ 1 \in DOMAIN N /\ N[1] = "authority"
        /\ 2 \in DOMAIN N /\ N[2] = "escrowConfig"
        /\ 3 \in DOMAIN N /\ N[3] = "globalConfig"
        /\ 4 \in DOMAIN N /\ N[4] = "systemProgram"
    BY DEF EscrowC!InitializeEscrowParse
  <2>2. \A i \in DOMAIN N : N[i] \in PlacedNames \cup {"payer"}
    BY SMTT(60) DEF EscrowC!InitializeEscrowParse, PlacedNames, OwnPlaces, SharedNames
  <2> HIDE DEF N
  <2>3. ASSUME as \in Roles("initializeEscrow"), Agree(T, N, M)
        PROVE  /\ \A i \in DOMAIN L : P(L[i])
               /\ \A i \in DOMAIN D : S("initializeEscrow", D[i])
    <3>0. MeantAt(M, "escrow", "initializeEscrow", stay, as)
      BY MeansPlaces
    <3> HIDE DEF M
    <3>1. as = "guest"
      BY <2>3 DEF Roles, PartyOps, HostOps
    <3>2. /\ T["authority"] = M["authority"]
          /\ T["escrowConfig"] = M["escrowConfig"]
          /\ T["globalConfig"] = M["globalConfig"]
          /\ T["systemProgram"] = M["systemProgram"]
      BY <2>1, <2>3 DEF Agree
    <3>3. "initializeEscrow" \in RootOps
      BY DEF RootOps
    <3>4. M["authority"] = Root
      BY <3>3, <3>0 DEF MeantAt
    <3>5. /\ M["escrowConfig"] = Address("escrow", <<Lit("escrow_config")>>)
          /\ M["globalConfig"] = Address("config", <<Lit("global_config")>>)
          /\ M["systemProgram"] = Deployed("system")
      BY <3>0 DEF MeantAt
    <3>6. /\ T["authority"] = Root
          /\ T["escrowConfig"] = Address("escrow", <<Lit("escrow_config")>>)
          /\ T["globalConfig"] = Address("config", <<Lit("global_config")>>)
          /\ T["systemProgram"] = Deployed("system")
      BY <3>2, <3>4, <3>5
    <3>7. /\ P(EscrowA!MutSigns("authority", {EscrowA!Held("globalConfig", "authority")}))
          /\ P(EscrowA!New("escrowConfig", EscrowA!EscrowConfig, {EscrowA!EscrowConfigPda}))
          /\ P(EscrowA!GlobalConfigRule)
          /\ P(EscrowA!SystemRule)
      BY <3>6, <1>61, <1>62, <1>7, <1>16
    <3>8. \A i \in DOMAIN L : P(L[i])
      BY <3>7, SMTT(60) DEF EscrowA!InitializeConfigEscrow
    <3>9. /\ Q(EscrowC!Default("escrowConfig", EscrowC!FindEscrowConfigPda))
          /\ Q(EscrowC!Default("globalConfig", EscrowC!GlobalConfig))
          /\ Q(EscrowC!Default("systemProgram", EscrowC!Fixed("system")))
      BY <3>6, <1>63, <1>10, <1>24
    <3>10. \A i \in DOMAIN D : S("initializeEscrow", D[i])
      BY <3>9, SMTT(60) DEF EscrowC!InitializeEscrow, EscrowC!Builder
    <3> QED BY <3>8, <3>10
  <2> QED BY <2>2, <2>3 DEF N, M, D
<1>83. Apt("releaseFunds", EscrowC!ReleaseFunds, EscrowC!ReleaseFundsParse, EscrowA!ReleaseFunds)
  <2> DEFINE N == EscrowC!ReleaseFundsParse
         M == Means("escrow", "releaseFunds", stay, as)
         L == EscrowA!ReleaseFunds
         D == EscrowC!ReleaseFunds.defaults
  <2>1. /\ 2 \in DOMAIN N /\ N[2] = "guestProfile"
        /\ 3 \in DOMAIN N /\ N[3] = "hostProfile"
        /\ 4 \in DOMAIN N /\ N[4] = "booking"
        /\ 5 \in DOMAIN N /\ N[5] = "globalConfig"
        /\ 6 \in DOMAIN N /\ N[6] = "escrowTokenAccount"
        /\ 7 \in DOMAIN N /\ N[7] = "hostTokenAccount"
        /\ 8 \in DOMAIN N /\ N[8] = "platformVault"
        /\ 9 \in DOMAIN N /\ N[9] = "mint"
        /\ 10 \in DOMAIN N /\ N[10] = "cpiAuthority"
        /\ 11 \in DOMAIN N /\ N[11] = "staykeCoreProgram"
        /\ 12 \in DOMAIN N /\ N[12] = "tokenProgram"
    BY DEF EscrowC!ReleaseFundsParse
  <2>2. \A i \in DOMAIN N : N[i] \in PlacedNames \cup {"payer"}
    BY SMTT(60) DEF EscrowC!ReleaseFundsParse, PlacedNames, OwnPlaces, SharedNames
  <2> HIDE DEF N
  <2>3. ASSUME as \in Roles("releaseFunds"), Agree(T, N, M)
        PROVE  /\ \A i \in DOMAIN L : P(L[i])
               /\ \A i \in DOMAIN D : S("releaseFunds", D[i])
    <3>0. MeantAt(M, "escrow", "releaseFunds", stay, as)
      BY MeansPlaces
    <3> HIDE DEF M
    <3>1. as = "guest"
      BY <2>3 DEF Roles, PartyOps, HostOps
    <3>2. /\ T["guestProfile"] = M["guestProfile"]
          /\ T["hostProfile"] = M["hostProfile"]
          /\ T["booking"] = M["booking"]
          /\ T["globalConfig"] = M["globalConfig"]
          /\ T["escrowTokenAccount"] = M["escrowTokenAccount"]
          /\ T["hostTokenAccount"] = M["hostTokenAccount"]
          /\ T["platformVault"] = M["platformVault"]
          /\ T["mint"] = M["mint"]
          /\ T["cpiAuthority"] = M["cpiAuthority"]
          /\ T["staykeCoreProgram"] = M["staykeCoreProgram"]
          /\ T["tokenProgram"] = M["tokenProgram"]
      BY <2>1, <2>3 DEF Agree
    <3>4. /\ M["guestProfile"] = Profiled(GuestOf(stay))
          /\ M["hostProfile"] = Profiled(HostOf(stay))
          /\ M["booking"] = StayBooking(stay)
          /\ M["globalConfig"] = Address("config", <<Lit("global_config")>>)
          /\ M["escrowTokenAccount"] = MoneyOf(StayBooking(stay))
          /\ M["hostTokenAccount"] = TokensOf(HostOf(stay))
          /\ M["platformVault"] = PlatformVault
          /\ M["mint"] = Mint
          /\ M["cpiAuthority"] = Address("escrow", <<Lit("cpi_authority")>>)
          /\ M["staykeCoreProgram"] = Deployed("core")
          /\ M["tokenProgram"] = Deployed("token")
      BY <3>0 DEF MeantAt
    <3>5. /\ T["guestProfile"] = Profiled(GuestOf(stay))
          /\ T["hostProfile"] = Profiled(HostOf(stay))
          /\ T["booking"] = StayBooking(stay)
          /\ T["globalConfig"] = Address("config", <<Lit("global_config")>>)
          /\ T["escrowTokenAccount"] = MoneyOf(StayBooking(stay))
          /\ T["hostTokenAccount"] = TokensOf(HostOf(stay))
          /\ T["platformVault"] = PlatformVault
          /\ T["mint"] = Mint
          /\ T["cpiAuthority"] = Address("escrow", <<Lit("cpi_authority")>>)
          /\ T["staykeCoreProgram"] = Deployed("core")
          /\ T["tokenProgram"] = Deployed("token")
      BY <3>2, <3>4
    <3>6. /\ P(EscrowA!MutSigns("payer", {}))
          /\ P(EscrowA!MutPartyRule("guestProfile", "guest"))
          /\ P(EscrowA!MutPartyRule("hostProfile", "host"))
          /\ P(EscrowA!BookingRule)
          /\ P(EscrowA!GlobalConfigRule)
          /\ P(EscrowA!OwnTokensRule)
          /\ P(EscrowA!TokensRule("hostTokenAccount", "hostProfile"))
          /\ P(EscrowA!VaultRule("platformVault"))
          /\ P(EscrowA!MutMintRule("mint"))
          /\ P(EscrowA!AuthorityRule)
          /\ P(EscrowA!CoreProgramRule)
          /\ P(EscrowA!TokenRule)
      BY <3>5, <1>2, <1>64, <1>53, <1>3, <1>7, <1>30, <1>39, <1>40, <1>41, <1>6, <1>42,
        <1>21
    <3>7. \A i \in DOMAIN L : P(L[i])
      BY <3>6, SMTT(60) DEF EscrowA!ReleaseFunds
    <3>8. /\ Q(EscrowC!Default("globalConfig", EscrowC!GlobalConfig))
          /\ Q(EscrowC!Default("escrowTokenAccount", EscrowC!FindEscrowTokenAccountPda("booking")))
          /\ Q(EscrowC!Default("cpiAuthority", EscrowC!FindCpiAuthorityPda))
          /\ Q(EscrowC!Default("staykeCoreProgram", EscrowC!Fixed("core")))
          /\ Q(EscrowC!Default("tokenProgram", EscrowC!Fixed("token")))
      BY <3>5, <1>10, <1>25, <1>9, <1>43, <1>26
    <3>9. \A i \in DOMAIN D : S("releaseFunds", D[i])
      BY <3>8, SMTT(60) DEF EscrowC!ReleaseFunds, EscrowC!Builder
    <3> QED BY <3>7, <3>9
  <2> QED BY <2>2, <2>3 DEF N, M, D
<1> HIDE DEF Apt
<1>84. \A op \in Ops("escrow") :
        Apt(op, EscrowC!Plugin[op], EscrowC!Parsers[op], EscrowA!Rules[op])
  BY <1>65, <1>66, <1>67, <1>68, <1>69, <1>70, <1>71, <1>72, <1>73, <1>74, <1>75, <1>76,
    <1>77, <1>78, <1>79, <1>80, <1>81, <1>82, <1>83 DEF Ops, Demands, EscrowA!Rules,
    EscrowC!Plugin, EscrowC!Parsers
<1> QED BY <1>84 DEF Apt, P, Q, S, Sound

-----------------------------------------------------------------------------
(***************************************************************************)
(* A caller's request, whatever the program: the accounts he means are     *)
(* where its rules demand them and where its defaults lead.                *)
(***************************************************************************)
LEMMA RequestRole ==
  ASSUME NEW r \in Requests
  PROVE  /\ r.program \in {"config", "core", "disputes", "escrow", "treasury"}
         /\ r.as \in Roles(r.op)
         /\ r.args = ArgsOf(r.stay, r.as)
         /\ MeantAt(MeansOf(r), r.program, r.op, r.stay, r.as)
<1>1. PICK wish \in Wishes : r = Ask(wish)
  BY Zenon DEF Requests
<1>2. PICK task \in Tasks : \E branch, kind, change : wish = Wish(task, branch, kind, change)
  <2>1. PICK task \in Tasks : wish \in WishesOf(task)
    BY Zenon DEF Wishes
  <2> QED BY <2>1 DEF WishesOf
<1>3. task.as \in Roles(task.op)
  BY DEF Tasks
<1>4. /\ r.program = wish.program /\ r.op = wish.op /\ r.stay = wish.stay /\ r.as = wish.as
      /\ r.args = Means(wish.program, wish.op, wish.stay, wish.as).args
  BY <1>1 DEF Ask
<1>5. wish.as \in Roles(wish.op)
  BY <1>2, <1>3 DEF Wish
<1>6. r.program \in {"config", "core", "disputes", "escrow", "treasury"}
  BY RequestEntry DEF Programs, Plugins
<1>7. MeantAt(MeansOf(r), r.program, r.op, r.stay, r.as)
  BY <1>6, MeansPlaces DEF MeansOf
<1>8. MeansOf(r)["args"] = ArgsOf(r.stay, r.as)
  BY <1>7 DEF MeantAt
<1> QED BY <1>4, <1>5, <1>6, <1>7, <1>8 DEF MeansOf

\* A table of accounts that are those he means, but for the payer.
Meant(r, T) == \A n \in Names(r) : n = "payer" \/ T[n] = MeansOf(r)[n]

LEMMA RequestSeated ==
  ASSUME NEW r \in Requests, ~ CpiOnly(r.builder)
  PROVE  /\ Names(r) \subseteq PlacedNames \cup {"payer"}
         /\ \A T : Meant(r, T) =>
              /\ \A i \in DOMAIN r.rules : Seated(r.rules[i], T, r.args)
              /\ \A i \in DOMAIN Defaults(r) : Sound(r.op, Defaults(r)[i], T, r.args)
<1> DEFINE plugin == Plugins[r.program][r.op]
<1> DEFINE names == Parsed[r.program][r.op]
<1>1. /\ r.op \in Ops(r.program)
      /\ Usual(r) \/ Faultless(r)
      /\ r.builder.accounts = plugin.accounts
  BY RequestEntry, EntriesAgree DEF SameInstruction
<1>2. ~ CpiOnly(plugin)
  BY <1>1 DEF CpiOnly
<1>3. SameOrder(Metas(r), names, r.rules)
  BY RequestAgrees
<1>4. Names(r) = {names[i] : i \in DOMAIN names}
  BY <1>3 DEF Names, SameOrder
<1>5. \A i \in DOMAIN Defaults(r) : \E j \in DOMAIN plugin.defaults :
        Defaults(r)[i] = plugin.defaults[j]
  BY RequestAssumption
<1>6. \A T : Meant(r, T) => Agree(T, names, Means(r.program, r.op, r.stay, r.as))
  BY <1>4 DEF Meant, Agree, MeansOf
<1> DEFINE Apt(T, program, op, builder, listed, rules) ==
       \/ CpiOnly(builder)
       \/ /\ \A i \in DOMAIN listed : listed[i] \in PlacedNames \cup {"payer"}
          /\ (r.as \in Roles(op) /\ Agree(T, listed, Means(program, op, r.stay, r.as)))
               => /\ \A i \in DOMAIN rules : Seated(rules[i], T, r.args)
                  /\ \A i \in DOMAIN builder.defaults : Sound(op, builder.defaults[i], T, r.args)
<1>7. ASSUME NEW T PROVE Apt(T, r.program, r.op, plugin, names, r.rules)
  <2> DEFINE All(program) ==
        \A op \in Ops(program) :
          Apt(T, program, op, Plugins[program][op], Parsed[program][op], Demands[program][op])
  <2>1. r.args = ArgsOf(r.stay, r.as)
    BY RequestRole
  <2>2. All("config")
    <3>1. /\ Plugins["config"] = ConfigC!Plugin /\ Parsed["config"] = ConfigC!Parsers
          /\ Demands["config"] = ConfigA!Rules
      BY DEF Plugins, Parsed, Demands
    <3>2. \A op \in Ops("config") :
            Apt(T, "config", op, ConfigC!Plugin[op], ConfigC!Parsers[op], ConfigA!Rules[op])
      BY <2>1, ConfigSeated
    <3> HIDE DEF Apt
    <3> QED BY <3>1, <3>2
  <2>3. All("core")
    <3>1. /\ Plugins["core"] = CoreC!Plugin /\ Parsed["core"] = CoreC!Parsers
          /\ Demands["core"] = CoreA!Rules
      BY DEF Plugins, Parsed, Demands
    <3>2. \A op \in Ops("core") :
            Apt(T, "core", op, CoreC!Plugin[op], CoreC!Parsers[op], CoreA!Rules[op])
      BY <2>1, CoreSeated
    <3> HIDE DEF Apt
    <3> QED BY <3>1, <3>2
  <2>4. /\ All("disputes")
        /\ Apt(T, "disputes", "resolveDispute", Plugins["disputes"]["resolveDispute"],
               Parsed["disputes"]["resolveDispute"], DisputesA!ResolveWithoutFault)
    <3>1. /\ Plugins["disputes"] = DisputesC!Plugin /\ Parsed["disputes"] = DisputesC!Parsers
          /\ Demands["disputes"] = DisputesA!Rules
      BY DEF Plugins, Parsed, Demands
    <3>2. \A op \in Ops("disputes") : \A rules \in DisputesTables(op) :
            Apt(T, "disputes", op, DisputesC!Plugin[op], DisputesC!Parsers[op], rules)
      BY <2>1, DisputesSeated
    <3> HIDE DEF Apt
    <3>3. /\ \A op : DisputesA!Rules[op] \in DisputesTables(op)
          /\ DisputesA!ResolveWithoutFault \in DisputesTables("resolveDispute")
      BY DEF DisputesTables
    <3>4. "resolveDispute" \in Ops("disputes")
      BY DEF Ops, Demands, DisputesA!Rules
    <3> QED BY <3>1, <3>2, <3>3, <3>4
  <2>5. All("escrow")
    <3>1. /\ Plugins["escrow"] = EscrowC!Plugin /\ Parsed["escrow"] = EscrowC!Parsers
          /\ Demands["escrow"] = EscrowA!Rules
      BY DEF Plugins, Parsed, Demands
    <3>2. \A op \in Ops("escrow") :
            Apt(T, "escrow", op, EscrowC!Plugin[op], EscrowC!Parsers[op], EscrowA!Rules[op])
      BY <2>1, EscrowSeated
    <3> HIDE DEF Apt
    <3> QED BY <3>1, <3>2
  <2>6. All("treasury")
    <3>1. /\ Plugins["treasury"] = TreasuryC!Plugin /\ Parsed["treasury"] = TreasuryC!Parsers
          /\ Demands["treasury"] = TreasuryA!Rules
      BY DEF Plugins, Parsed, Demands
    <3>2. \A op \in Ops("treasury") :
            Apt(T, "treasury", op, TreasuryC!Plugin[op], TreasuryC!Parsers[op], TreasuryA!Rules[op])
      BY <2>1, TreasurySeated
    <3> HIDE DEF Apt
    <3> QED BY <3>1, <3>2
  <2> HIDE DEF Apt, All
  <2>7. All(r.program)
    BY <2>2, <2>3, <2>4, <2>5, <2>6, RequestRole
  <2>8. CASE Usual(r)
    BY <1>1, <2>7, <2>8 DEF All, Usual
  <2>9. CASE Faultless(r)
    BY <2>4, <2>9 DEF Faultless
  <2> QED BY <1>1, <2>8, <2>9
<1>8. Names(r) \subseteq PlacedNames \cup {"payer"}
  BY <1>2, <1>4, <1>7
<1>9. ASSUME NEW T, Meant(r, T)
      PROVE  /\ \A i \in DOMAIN r.rules : Seated(r.rules[i], T, r.args)
             /\ \A i \in DOMAIN Defaults(r) : Sound(r.op, Defaults(r)[i], T, r.args)
  <2>1. Agree(T, names, Means(r.program, r.op, r.stay, r.as)) /\ r.as \in Roles(r.op)
    BY <1>6, <1>9, RequestRole
  <2>2. /\ \A i \in DOMAIN r.rules : Seated(r.rules[i], T, r.args)
        /\ \A i \in DOMAIN plugin.defaults : Sound(r.op, plugin.defaults[i], T, r.args)
    BY <1>2, <2>1, <1>7
  <2> QED BY <2>2, <1>5
<1> QED BY <1>8, <1>9

LEMMA MeantKnown ==
  ASSUME NEW r \in Requests, ~ CpiOnly(r.builder), NEW n \in Names(r), n # "payer"
  PROVE  n \in DOMAIN MeansOf(r) /\ MeansOf(r)[n] # None
<1>1. n \in PlacedNames
  BY RequestSeated
<1>2. r.program \in Programs
  BY RequestEntry
<1> QED BY <1>1, <1>2, MeansKnown DEF MeansOf

\* What a builder leaves as he gave it, and what a default of it led to.
LEMMA HonestSource ==
  ASSUME FillInv, NEW s \in Sessions, Built(s), request[s].honest, ~ CpiOnly(BuilderIn(s)),
         NEW n \in Names(request[s]), n # "payer"
  PROVE  LET r == request[s]
         IN \/ table[s][n] = MeansOf(r)[n] /\ Original(r)[n] # None
            \/ /\ Original(r)[n] = None
               /\ \E i \in DOMAIN Defaults(r) :
                    /\ Defaults(r)[i].account = n
                    /\ table[s][n] = Derive(Defaults(r)[i].from, table[s], r.args)
                    /\ table[s][n] # None
<1> DEFINE r == request[s]
<1>1. r \in Requests
  BY DEF FillInv, Typed, Built
<1>2. Original(r)[n] # None \/ n \notin Defaulted(r.builder) => table[s][n] = Original(r)[n]
  BY DEF FillInv, GivenKept, Built
<1>3. n \in DOMAIN MeansOf(r) /\ MeansOf(r)[n] # None
  BY <1>1, MeantKnown DEF BuilderIn
<1>4. /\ r.given[n] \in {None, MeansOf(r)[n]}
      /\ n \notin Defaulted(r.builder) => r.given[n] = MeansOf(r)[n]
  BY <1>1, <1>3, HonestGives
<1>5. Original(r)[n] = r.given[n]
  BY DEF Original
<1>6. CASE Original(r)[n] # None
  BY <1>2, <1>4, <1>5, <1>6
<1>7. CASE Original(r)[n] = None
  <2>1. n \in Defaulted(r.builder)
    BY <1>3, <1>4, <1>5, <1>7
  <2>2. PICK i \in DOMAIN Defaults(r) : Defaults(r)[i].account = n
    BY <2>1 DEF Defaulted, Defaults
  <2>3. i < next[s]
    BY <2>2 DEF FillInv, Finished
  <2>4. table[s][n] # None /\ table[s][n] = Derive(Defaults(r)[i].from, table[s], r.args)
    BY <1>7, <2>2, <2>3 DEF FillInv, Progress, Settled, Built
  <2> QED BY <1>7, <2>2, <2>4
<1> QED BY <1>6, <1>7

\* Unless a default is divergent he gets what he means, layer by layer: what
\* is given, the profiles, the booking, and the rest.
LEMMA MeantTable ==
  ASSUME FillInv, NEW s \in Sessions, Built(s), request[s].honest, ~ CpiOnly(BuilderIn(s)),
         ~ UsesDivergent(s)
  PROVE  Meant(request[s], table[s])
<1> DEFINE r == request[s]
<1> DEFINE M == MeansOf(r)
<1> DEFINE T == table[s]
<1> DEFINE Right(n) == T[n] = M[n]
<1> DEFINE From(n, d) ==
      /\ d.account = n /\ Layered(d)
      /\ M[n] = Derive(d.from, M, r.args) /\ T[n] = Derive(d.from, T, r.args)
      /\ Reads(d.from) \subseteq Names(r)
      /\ d.from.program # "held"
      /\ \A j \in DOMAIN d.from.seeds : d.from.seeds[j][1] \in {"lit", "name", "key", "arg"}
<1>1. r \in Requests
  BY DEF FillInv, Typed, Built
<1>2. \A i \in DOMAIN Defaults(r) : Sound(r.op, Defaults(r)[i], M, r.args)
  <2>1. Meant(r, M)
    BY DEF Meant
  <2> QED BY <1>1, <2>1, RequestSeated DEF BuilderIn
<1>3. ASSUME NEW n \in Names(r), n # "payer"
      PROVE  Right(n) \/ \E d : From(n, d)
  <2>1. \/ T[n] = M[n]
        \/ /\ Original(r)[n] = None
           /\ \E i \in DOMAIN Defaults(r) :
                /\ Defaults(r)[i].account = n
                /\ T[n] = Derive(Defaults(r)[i].from, T, r.args)
    BY <1>3, HonestSource
  <2>2. ASSUME NEW i \in DOMAIN Defaults(r), Original(r)[n] = None, Defaults(r)[i].account = n,
               T[n] = Derive(Defaults(r)[i].from, T, r.args)
        PROVE  From(n, Defaults(r)[i])
    <3> DEFINE d == Defaults(r)[i]
    <3>1. <<r.op, n>> \notin DivergentDefaults
      <4>1. <<r.op, n>>[1] = r.op /\ <<r.op, n>>[2] = n
        OBVIOUS
      <4> QED BY <2>2, <4>1 DEF UsesDivergent
    <3>2. Sure(d, M, r.args)
      BY <1>2, <2>2, <3>1 DEF Sound
    <3>3. Layered(d) /\ M[n] = Derive(d.from, M, r.args)
      BY <2>2, <3>2 DEF Sure, At
    <3>4. /\ Reads(d.from) \subseteq Names(r) /\ d.from.program # "held"
          /\ \A j \in DOMAIN d.from.seeds : d.from.seeds[j][1] \in {"lit", "name", "key", "arg"}
      BY <1>1, RequestAssumption
    <3> HIDE DEF d, M, T, r
    <3> QED BY <2>2, <3>3, <3>4 DEF d
  <2> HIDE DEF From
  <2> QED BY <2>1, <2>2
<1>4. ASSUME NEW n, NEW d, From(n, d), \A m \in Reads(d.from) : Right(m)
      PROVE  Right(n)
  <2>1. Derive(d.from, T, r.args) = Derive(d.from, M, r.args)
    BY <1>4, DerivedFromReads
  <2> QED BY <1>4, <2>1
<1>5. \A n, d : From(n, d) => Layered(d) /\ d.account = n /\ Reads(d.from) \subseteq Names(r)
  OBVIOUS
<1>6. "payer" \notin Bottom \cup Middle \cup {"booking"}
  BY DEF Bottom, Middle
<1> HIDE DEF From, Right, r
<1>7. \A n \in Names(r) \cap Bottom : Right(n)
  BY <1>3, <1>5, <1>6 DEF Layered
<1>8. \A n \in Names(r) \cap Middle : Right(n)
  <2>1. ASSUME NEW n \in Names(r) \cap Middle PROVE Right(n)
    <3>1. ASSUME NEW d, From(n, d) PROVE Right(n)
      <4>1. Reads(d.from) \subseteq Names(r) \cap Bottom
        BY <1>5, <3>1 DEF Layered
      <4> QED BY <1>4, <1>7, <3>1, <4>1
    <3> QED BY <1>3, <1>6, <3>1
  <2> QED BY <2>1
<1>9. "booking" \in Names(r) => Right("booking")
  <2>1. ASSUME NEW d, From("booking", d) PROVE Right("booking")
    <3>1. Reads(d.from) \subseteq Names(r) \cap (Bottom \cup Middle)
      BY <1>5, <2>1 DEF Layered
    <3> QED BY <1>4, <1>7, <1>8, <2>1, <3>1
  <2> QED BY <1>3, <1>6, <2>1
<1>10. ASSUME NEW n \in Names(r), n # "payer" PROVE Right(n)
  <2>1. ASSUME NEW d, From(n, d) PROVE Right(n)
    <3>1. Reads(d.from) \subseteq Names(r) \cap (Bottom \cup Middle \cup {"booking"})
      BY <1>5, <2>1 DEF Layered
    <3> QED BY <1>4, <1>7, <1>8, <1>9, <2>1, <3>1
  <2> QED BY <1>3, <1>10, <2>1
<1> QED BY <1>10 DEF Meant, Right, r

-----------------------------------------------------------------------------
(***************************************************************************)
(* What he has looked at before he asks.                                   *)
(***************************************************************************)
\* The account in the place of a rule is one of those he looked for.
LEMMA RequestSeen ==
  ASSUME NEW r \in Requests, r.honest, NEW i \in DOMAIN r.rules,
         r.rules[i].name # "payer", r.rules[i].name \in DOMAIN MeansOf(r)
  PROVE  LET a == MeansOf(r)[r.rules[i].name]
         IN /\ r.rules[i].life \in {"old", "closed"} => a \in r.sees \/ Outside(a)
            /\ r.rules[i].life = "new" => a \in r.misses
<1>1. PICK wish \in Wishes : r = Ask(wish)
  BY Zenon DEF Requests
<1> DEFINE means == Means(wish.program, wish.op, wish.stay, wish.as)
<1> DEFINE rules == DemandsOf(wish)
<1> DEFINE pair == <<wish.change, means>>
<1> DEFINE bound(rule) ==
        LET given == FirstOf(pair)[rule.name]
        IN IF given = None THEN means[rule.name] ELSE given
<1> DEFINE found(lives) ==
        {bound(rules[j]) : j \in {k \in DOMAIN rules : rules[k].life \in lives}}
<1>2. /\ r.program = wish.program /\ r.op = wish.op /\ r.stay = wish.stay /\ r.as = wish.as
      /\ r.change = wish.change /\ r.rules = rules
      /\ r.sees = {a \in found({"old", "closed"}) : ~ Outside(a)}
      /\ r.misses = found({"new"})
  BY <1>1 DEF Ask
<1>3. means = MeansOf(r)
  BY <1>2 DEF MeansOf
<1> DEFINE n == r.rules[i].name
<1>4. bound(r.rules[i]) = means[n]
  <2>1. /\ DOMAIN pair = 1..2 /\ pair[1] = wish.change /\ pair[2] = means
    OBVIOUS
  <2> HIDE DEF pair
  <2>2. n \in DOMAIN pair[2] /\ 2 \in DOMAIN pair
    BY <1>3, <2>1
  <2>3. PICK j \in DOMAIN pair : n \in DOMAIN pair[j] /\ FirstOf(pair)[n] = pair[j][n]
    <3>1. \E j \in DOMAIN pair : n \in DOMAIN pair[j]
      BY <2>2
    <3> HIDE DEF n
    <3> QED BY <2>1, <3>1, FirstOne
  <2>4. \A m \in DOMAIN r.change : m = "payer" \/ r.change[m] = MeansOf(r)[m]
    BY RequestGiven
  <2>5. n \in DOMAIN pair[1] => pair[1][n] = means[n]
    <3>1. pair[1] = r.change
      BY <1>2, <2>1
    <3> HIDE DEF means
    <3> QED BY <1>3, <2>4, <3>1
  <2>6. FirstOf(pair)[n] = means[n]
    <3>1. j = 1 \/ j = 2
      BY <2>1
    <3> HIDE DEF means, n
    <3> QED BY <2>1, <2>3, <2>5, <3>1
  <2> QED BY <2>6
<1> HIDE DEF means, bound, pair, rules
<1>5. ASSUME NEW lives, r.rules[i].life \in lives PROVE means[n] \in found(lives)
  BY <1>2, <1>4, <1>5
<1> HIDE DEF found
<1>6. r.rules[i].life \in {"old", "closed"} => means[n] \in r.sees \/ Outside(means[n])
  BY <1>2, <1>5
<1>7. r.rules[i].life = "new" => means[n] \in r.misses
  BY <1>2, <1>5
<1> QED BY <1>3, <1>6, <1>7

-----------------------------------------------------------------------------
(***************************************************************************)
(* What rests on no divergent default lands unless it was overtaken.       *)
(***************************************************************************)
LEMMA MeantInPlace ==
  ASSUME FillInv, NEW s \in Sessions, Built(s), request[s].honest, ~ CpiOnly(BuilderIn(s)),
         Timely(request[s]), Meant(request[s], table[s])
  PROVE  InPlace(s)
<1> DEFINE r == request[s]
<1> DEFINE M == MeansOf(r)
<1> DEFINE rules == RulesOf(s)
<1>1. r \in Requests /\ ~ CpiOnly(r.builder) /\ Known(s)
  BY DEF FillInv, Typed, Built, BuilderIn, Known
<1>2. /\ \A i \in DOMAIN rules :
            /\ rules[i].name \in Names(r)
            /\ Tx(s).metas[i].address = Sent(s)[rules[i].name]
      /\ Bind(rules, Tx(s)) = Sent(s)
  BY <1>1, SentInPlace
<1>3. Tx(s).args = r.args
  BY DEF Tx, Transaction
<1>4. \A n \in Names(r) : n # "payer" => n \in DOMAIN M /\ M[n] # None /\ Sent(s)[n] = M[n]
  <2>1. \A n \in Names(r) : n # "payer" => n \in DOMAIN M /\ M[n] # None
    BY <1>1, MeantKnown
  <2>2. \A n \in Names(r) : n # "payer" => table[s][n] = M[n]
    BY DEF Meant
  <2> QED BY <2>1, <2>2 DEF Sent
<1>5. Meant(r, Sent(s))
  BY <1>4 DEF Meant
<1>6. \A i \in DOMAIN rules : Seated(rules[i], Sent(s), r.args)
  BY <1>1, <1>5, RequestSeated DEF RulesOf
<1>7. ASSUME NEW i \in DOMAIN rules
      PROVE  Lives(rules[i], Tx(s).metas[i].address, store)
  <2> DEFINE n == rules[i].name
  <2> DEFINE a == Tx(s).metas[i].address
  <2>1. a = Sent(s)[n] /\ n \in Names(r)
    BY <1>2
  <2>2. CASE n = "payer"
    BY <1>6, <2>2 DEF Seated, Lives
  <2>3. CASE n # "payer"
    <3>1. a = M[n] /\ n \in DOMAIN M
      BY <1>4, <2>1, <2>3
    <3>2. /\ rules[i].life \in {"old", "closed"} => M[n] \in r.sees \/ Outside(M[n])
          /\ rules[i].life = "new" => M[n] \in r.misses
      BY <1>1, <2>3, <3>1, RequestSeen DEF RulesOf
    <3>3. r.sees \subseteq store /\ r.misses \cap store = {}
      BY DEF Timely
    <3>4. rules[i].life \in {"old", "closed"} => Type(a) \in rules[i].type
      BY <1>6, <2>1 DEF Seated
    <3> HIDE DEF a, n, M, r, rules
    <3> QED BY <3>1, <3>2, <3>3, <3>4 DEF Lives, a, n
  <2> QED BY <2>2, <2>3
<1>8. WellPlaced(rules, Tx(s))
  BY <1>2, <1>3, <1>6 DEF WellPlaced, Seated, At
<1> QED BY <1>7, <1>8 DEF InPlace

-----------------------------------------------------------------------------
(***************************************************************************)
(* What rests on a divergent default never lands: it is derived from other *)
(* seeds, or under another program, than the rule demands.                 *)
(***************************************************************************)
LEMMA SecondOf ==
  ASSUME NEW X, NEW s \in Seq(X), NEW t \in Seq(X), NEW u \in Seq(X), Len(t) >= 1
  PROVE  /\ Len(s) + 1 \in DOMAIN ((s \o t) \o u)
         /\ ((s \o t) \o u)[Len(s) + 1] = t[1]
<1> DEFINE i == Len(s) + 1
<1>1. s \o t \in Seq(X) /\ Len(s \o t) = Len(s) + Len(t) /\ (s \o t)[i] = t[1]
  OBVIOUS
<1>2. i \in 1..Len(s \o t) /\ Len(s) \in Nat /\ Len(t) \in Nat /\ Len(u) \in Nat
  BY <1>1
<1> DEFINE st == s \o t
<1>3. /\ st \in Seq(X) /\ i \in 1..Len(st) /\ st[i] = t[1]
  BY <1>1, <1>2
<1> HIDE DEF st, i
<1>4. i \in DOMAIN (st \o u) /\ (st \o u)[i] = st[i]
  BY <1>2, <1>3
<1> QED BY <1>3, <1>4 DEF st, i

\* The days of a booking, as its creation demands them.
LEMMA CreationDays ==
  ASSUME NEW rules \in Creations
  PROVE  \E i \in DOMAIN rules :
           /\ rules[i].name = "bookingDays"
           /\ rules[i].at = {DaysOf(Key("property"), Arg("year", "checkIn"))}
<1> DEFINE day == EscrowA!BookedDays("bookingDays", "year")
<1> DEFINE later == EscrowA!BookedDays("bookingDaysNext", "nextYear")
<1> DEFINE first == <<EscrowA!MutSigns("payer", {}), EscrowA!Signs("client", {}),
                 EscrowA!Ro("clientProfile", EscrowA!UserProfile, {EscrowA!ProfileOf("client")}),
                 EscrowA!Ro("hostProfile", EscrowA!UserProfile,
                            {EscrowA!ProfileBy("hostProfile")}),
                 EscrowA!New("booking", EscrowA!Booking,
                   {EscrowA!BookingOf(EscrowA!Key("property"), EscrowA!Key("clientProfile"),
                                      EscrowA!Arg("i64", "checkIn"))}),
                 EscrowA!Ro("property", EscrowA!Listing,
                            {EscrowA!SameListing("hostProfile", "property")}),
                 EscrowA!GlobalConfigRule, EscrowA!SystemRule>>
<1> DEFINE last == <<EscrowA!New("escrowTokenAccount", EscrowA!TokenAccount,
                             {EscrowA!EscrowTokensOf("booking")}),
                 EscrowA!Mut("clientTokenAccount", EscrowA!TokenAccount,
                             {EscrowA!TokensOfSigner("client")}),
                 EscrowA!MintRule("mint"), EscrowA!TokenRule>>
<1> DEFINE X == {first[j] : j \in 1..8} \cup {last[j] : j \in 1..4} \cup {day, later}
<1>1. PICK days \in {<<day>>, <<day, later>>} : rules = (first \o days) \o last
  BY DEF Creations, EscrowA!CreateBooking, EscrowA!CreateBookingCrossYear,
         EscrowA!CreateBookingWith
<1>2. first \in Seq(X) /\ Len(first) = 8
  OBVIOUS
<1>3. last \in Seq(X)
  OBVIOUS
<1>4. day \in X /\ later \in X
  OBVIOUS
<1> HIDE DEF X, first, last, day, later
<1>5. days \in Seq(X) /\ Len(days) >= 1 /\ days[1] = day
  <2>1. CASE days = <<day>>
    BY <1>4, <2>1
  <2>2. CASE days = <<day, later>>
    BY <1>4, <2>2
  <2> QED BY <1>1, <2>1, <2>2
<1>6. Len(first) + 1 \in DOMAIN rules /\ rules[Len(first) + 1] = day
  <2>1. /\ Len(first) + 1 \in DOMAIN ((first \o days) \o last)
        /\ ((first \o days) \o last)[Len(first) + 1] = days[1]
    BY <1>2, <1>3, <1>5, SecondOf
  <2> QED BY <1>1, <1>5, <2>1
<1>7. /\ day.name = "bookingDays"
      /\ day.at = {DaysOf(Key("property"), Arg("year", "checkIn"))}
  BY DEF day, EscrowA!BookedDays, EscrowA!Needed, EscrowA!Rule, EscrowA!DaysOf, DaysOf,
         EscrowA!Key, Key, EscrowA!Arg, Arg, EscrowA!Derivation, Derivation, EscrowA!Lit, Lit
<1> QED BY <1>6, <1>7

\* Two addresses under different programs, or with other third seeds.
LEMMA AddressesApart ==
  /\ \A p, q, s, t : p # q => Address(p, s) # Address(q, t)
  /\ \A p, q, a, b, c, d, e, f :
       c # f => Address(p, <<a, b, c>>) # Address(q, <<d, e, f>>)
<1>1. \A p, s : Address(p, s).program = p /\ Address(p, s).seeds = s
  BY DEF Address
<1>2. \A a, b, c : <<a, b, c>>[3] = c
  OBVIOUS
<1> QED BY <1>1, <1>2

\* Where a divergent default leads, and where the rule demands the account.
Diverges(r, n) ==
  \E i \in DOMAIN r.rules :
    /\ r.rules[i].name = n
    /\ \E d \in r.rules[i].at : \A A, B : \A j \in DOMAIN Defaults(r) :
         Defaults(r)[j].account = n
           => Derive(Defaults(r)[j].from, A, r.args) # Derive(d, B, r.args)

LEMMA DaysDiverge ==
  ASSUME NEW r \in Requests, r.op \in {"createBooking", "createBookingCrossYear"}
  PROVE  Diverges(r, "bookingDays")
<1>1. r.program = "escrow"
  <2>1. r.op \in Ops(r.program)
    BY RequestEntry
  <2>2. r.program # "config"
    BY <2>1 DEF Ops, Demands, ConfigA!Rules
  <2>3. r.program # "core"
    BY <2>1 DEF Ops, Demands, CoreA!Rules
  <2>4. r.program # "disputes"
    BY <2>1 DEF Ops, Demands, DisputesA!Rules
  <2>5. r.program # "treasury"
    BY <2>1 DEF Ops, Demands, TreasuryA!Rules
  <2> QED BY RequestRole, <2>2, <2>3, <2>4, <2>5
<1>2. r.rules \in Creations
  BY <1>1, RequestEntry DEF Usual, Faultless, Demands, EscrowA!Rules, Creations
<1>3. PICK i \in DOMAIN r.rules :
        /\ r.rules[i].name = "bookingDays"
        /\ r.rules[i].at = {DaysOf(Key("property"), Arg("year", "checkIn"))}
  BY <1>2, CreationDays
<1> DEFINE found == EscrowC!FindBookingDaysPda("property", "checkIn")
<1>4. ASSUME NEW j \in DOMAIN Defaults(r), Defaults(r)[j].account = "bookingDays"
      PROVE  Defaults(r)[j].from = found
  <2>1. \A k \in DOMAIN EscrowC!CreateBooking.defaults :
          EscrowC!CreateBooking.defaults[k].account = "bookingDays"
            => EscrowC!CreateBooking.defaults[k].from = found
    <3> HIDE DEF found
    <3> QED BY SMTT(40) DEF EscrowC!CreateBooking, EscrowC!Builder, EscrowC!Default, found
  <2>2. \A k \in DOMAIN EscrowC!CreateBookingCrossYear.defaults :
          EscrowC!CreateBookingCrossYear.defaults[k].account = "bookingDays"
            => EscrowC!CreateBookingCrossYear.defaults[k].from = found
    <3> HIDE DEF found
    <3> QED BY SMTT(40) DEF EscrowC!CreateBookingCrossYear, EscrowC!Builder, EscrowC!Default, found
  <2>3. Plugins[r.program][r.op] \in {EscrowC!CreateBooking, EscrowC!CreateBookingCrossYear}
    BY <1>1 DEF Plugins, EscrowC!Plugin
  <2>4. PICK k \in DOMAIN Plugins[r.program][r.op].defaults :
          Defaults(r)[j] = Plugins[r.program][r.op].defaults[k]
    BY RequestAssumption
  <2> HIDE DEF found
  <2> QED BY <1>4, <2>1, <2>2, <2>3, <2>4
<1>5. found = Derivation("escrow", <<Lit("booking_days"), Key("property"), Arg("i64", "checkIn")>>)
  BY DEF EscrowC!FindBookingDaysPda, EscrowC!Derivation, Derivation, EscrowC!Lit, Lit,
         EscrowC!Key, Key, EscrowC!Arg, Arg
<1> HIDE DEF found
<1>6. ASSUME NEW A, NEW B
      PROVE  Derive(found, A, r.args)
               # Derive(DaysOf(Key("property"), Arg("year", "checkIn")), B, r.args)
  <2>1. Derive(found, A, r.args)
          = Address("escrow", <<SeedValue(Lit("booking_days"), A, r.args),
                                SeedValue(Key("property"), A, r.args),
                                SeedValue(Arg("i64", "checkIn"), A, r.args)>>)
    BY <1>5, Derivations
  <2>2. SeedValue(Arg("i64", "checkIn"), A, r.args) = <<"i64", r.args["checkIn"]>>
    BY ArgValue, Encoding
  <2>3. Derive(DaysOf(Key("property"), Arg("year", "checkIn")), B, r.args)
          = Occupied(B["property"], Year[r.args["checkIn"]])
    <3> DEFINE args == r.args
    <3> HIDE DEF args
    <3>1. Derive(DaysOf(Key("property"), Arg("year", "checkIn")), B, args)
            = Occupied(B["property"], Year[args["checkIn"]])
      BY DaysPlace
    <3> QED BY <3>1 DEF args
  <2>4. Occupied(B["property"], Year[r.args["checkIn"]])
          = Address("escrow", <<Lit("booking_days"), <<"key", B["property"]>>,
                                <<"u32", Year[r.args["checkIn"]]>>>>)
    BY DEF Occupied
  <2>5. <<"i64", r.args["checkIn"]>> # <<"u32", Year[r.args["checkIn"]]>>
    OBVIOUS
  <2> QED BY <2>1, <2>2, <2>3, <2>4, <2>5, AddressesApart
<1> QED BY <1>3, <1>4, <1>6 DEF Diverges

LEMMA ProfileDiverges ==
  ASSUME NEW r \in Requests, r.op \in {"depositGuarantee", "withdrawGuarantee"}
  PROVE  Diverges(r, "userProfile")
<1>1. r.program = "treasury"
  <2>1. r.op \in Ops(r.program)
    BY RequestEntry
  <2>2. r.program # "config"
    BY <2>1 DEF Ops, Demands, ConfigA!Rules
  <2>3. r.program # "core"
    BY <2>1 DEF Ops, Demands, CoreA!Rules
  <2>4. r.program # "disputes"
    BY <2>1 DEF Ops, Demands, DisputesA!Rules
  <2>5. r.program # "escrow"
    BY <2>1 DEF Ops, Demands, EscrowA!Rules
  <2> QED BY RequestRole, <2>2, <2>3, <2>4, <2>5
<1> DEFINE rule == TreasuryA!Mut("userProfile", TreasuryA!UserProfile,
                                 {TreasuryA!ProfileOf("signer")})
<1>2. \E i \in DOMAIN r.rules : r.rules[i] = rule
  <2>1. 8 \in DOMAIN TreasuryA!DepositGuarantee /\ TreasuryA!DepositGuarantee[8] = rule
    BY SMTT(40) DEF TreasuryA!DepositGuarantee
  <2>2. 9 \in DOMAIN TreasuryA!WithdrawGuarantee /\ TreasuryA!WithdrawGuarantee[9] = rule
    BY SMTT(40) DEF TreasuryA!WithdrawGuarantee
  <2>3. r.rules \in {TreasuryA!DepositGuarantee, TreasuryA!WithdrawGuarantee}
    BY <1>1, RequestEntry DEF Usual, Faultless, Demands, TreasuryA!Rules
  <2> HIDE DEF rule
  <2> QED BY <2>1, <2>2, <2>3
<1>3. rule.name = "userProfile" /\ rule.at = {ProfileOf("signer")}
  BY DEF TreasuryA!Mut, TreasuryA!Rule, TreasuryA!ProfileOf, ProfileOf, TreasuryA!Derivation,
         Derivation, TreasuryA!Lit, Lit, TreasuryA!Key, Key
<1> DEFINE found == TreasuryC!FindUserProfilePda("signer")
<1>4. ASSUME NEW j \in DOMAIN Defaults(r), Defaults(r)[j].account = "userProfile"
      PROVE  Defaults(r)[j].from = found
  <2>1. \A k \in DOMAIN TreasuryC!DepositGuarantee.defaults :
          TreasuryC!DepositGuarantee.defaults[k].account = "userProfile"
            => TreasuryC!DepositGuarantee.defaults[k].from = found
    <3> HIDE DEF found
    <3> QED BY SMTT(40) DEF TreasuryC!DepositGuarantee, TreasuryC!Builder, TreasuryC!Default, found
  <2>2. \A k \in DOMAIN TreasuryC!WithdrawGuarantee.defaults :
          TreasuryC!WithdrawGuarantee.defaults[k].account = "userProfile"
            => TreasuryC!WithdrawGuarantee.defaults[k].from = found
    <3> HIDE DEF found
    <3> QED BY SMTT(40) DEF TreasuryC!WithdrawGuarantee, TreasuryC!Builder, TreasuryC!Default, found
  <2>3. Plugins[r.program][r.op] \in {TreasuryC!DepositGuarantee, TreasuryC!WithdrawGuarantee}
    BY <1>1 DEF Plugins, TreasuryC!Plugin
  <2>4. PICK k \in DOMAIN Plugins[r.program][r.op].defaults :
          Defaults(r)[j] = Plugins[r.program][r.op].defaults[k]
    BY RequestAssumption
  <2> HIDE DEF found
  <2> QED BY <1>4, <2>1, <2>2, <2>3, <2>4
<1>5. found.program = "treasury"
  BY DEF TreasuryC!FindUserProfilePda, TreasuryC!Derivation
<1> HIDE DEF found, rule
<1>6. ASSUME NEW A, NEW B
      PROVE  Derive(found, A, r.args) # Derive(ProfileOf("signer"), B, r.args)
  <2>1. Derive(found, A, r.args).program = "treasury"
    BY <1>5 DEF Derive, Address
  <2>2. Derive(ProfileOf("signer"), B, r.args) = Profiled(B["signer"])
    BY ProfilePlace
  <2>3. Profiled(B["signer"]).program = "core"
    BY DEF Profiled, Address
  <2> QED BY <2>1, <2>2, <2>3
<1> QED BY <1>2, <1>3, <1>4, <1>6 DEF Diverges

LEMMA DivergentRefused ==
  ASSUME FillInv, NEW s \in Sessions, Built(s), request[s].honest, ~ CpiOnly(BuilderIn(s)),
         UsesDivergent(s)
  PROVE  ~ InPlace(s)
<1> DEFINE r == request[s]
<1> DEFINE rules == RulesOf(s)
<1> DEFINE T == table[s]
<1>1. r \in Requests /\ Known(s)
  BY DEF FillInv, Typed, Built, Known
<1>2. PICK n : /\ Original(r)[n] = None
               /\ \/ /\ r.op \in {"createBooking", "createBookingCrossYear"}
                     /\ n = "bookingDays"
                  \/ /\ r.op \in {"depositGuarantee", "withdrawGuarantee"}
                     /\ n = "userProfile"
  <2>1. PICK d \in DivergentDefaults : r.op = d[1] /\ Original(r)[d[2]] = None
    BY DEF UsesDivergent
  <2>2. \/ d[1] \in {"createBooking", "createBookingCrossYear"} /\ d[2] = "bookingDays"
        \/ d[1] \in {"depositGuarantee", "withdrawGuarantee"} /\ d[2] = "userProfile"
    BY DEF DivergentDefaults
  <2> QED BY <2>1, <2>2
<1>3. Diverges(r, n)
  BY <1>1, <1>2, DaysDiverge, ProfileDiverges
<1>4. PICK i \in DOMAIN rules :
        /\ rules[i].name = n
        /\ \E d \in rules[i].at : \A A, B : \A j \in DOMAIN Defaults(r) :
             Defaults(r)[j].account = n
               => Derive(Defaults(r)[j].from, A, r.args) # Derive(d, B, r.args)
  BY <1>3 DEF Diverges, RulesOf
<1>5. /\ n \in Names(r) /\ Tx(s).metas[i].address = Sent(s)[n]
      /\ Bind(rules, Tx(s)) = Sent(s)
  BY <1>1, <1>4, SentInPlace
<1>6. n # "payer"
  BY <1>2
<1>7. PICK j \in DOMAIN Defaults(r) :
        /\ Defaults(r)[j].account = n
        /\ T[n] = Derive(Defaults(r)[j].from, T, r.args)
        /\ T[n] # None
  BY <1>2, <1>5, <1>6, HonestSource
<1>8. Sent(s)[n] = T[n]
  BY <1>5, <1>7 DEF Sent
<1>9. Tx(s).args = r.args
  BY DEF Tx, Transaction
<1>10. PICK d \in rules[i].at : \A A, B :
         Derive(Defaults(r)[j].from, A, r.args) # Derive(d, B, r.args)
  BY <1>4, <1>7
<1>11. T[n] # Derive(d, Sent(s), r.args)
  BY <1>7, <1>10
<1>12. ASSUME InPlace(s) PROVE FALSE
  <2>1. Tx(s).metas[i].address = Derive(d, Bind(rules, Tx(s)), Tx(s).args)
    BY <1>12 DEF InPlace, WellPlaced
  <2> QED BY <1>5, <1>8, <1>9, <1>11, <2>1
<1> QED BY <1>12

\* For any stays and any number of sessions: what an honest caller asks for
\* has its accounts where the program demands them unless another overtook
\* him, but for the four defaults the two sides do not share, which never are.
THEOREM RefusedAlways == Spec => []RefusedOnlyIfOvertaken
<1>1. ASSUME FillInv, NEW s \in Sessions, Built(s), request[s].honest, ~ CpiOnly(BuilderIn(s)),
             Timely(request[s])
      PROVE  InPlace(s) <=> ~ UsesDivergent(s)
  <2>1. CASE UsesDivergent(s)
    BY <1>1, <2>1, DivergentRefused
  <2>2. CASE ~ UsesDivergent(s)
    BY <1>1, <2>2, MeantTable, MeantInPlace
  <2> QED BY <2>1, <2>2
<1>2. FillInv => RefusedOnlyIfOvertaken
  BY <1>1 DEF RefusedOnlyIfOvertaken
<1> QED BY <1>2, Filling, PTL
=============================================================================
