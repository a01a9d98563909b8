--------------------------- MODULE EscrowAccounts ---------------------------
(***************************************************************************)
(* The accounts of the instructions of programs/stayke-escrow.  A cross-   *)
(* year instruction takes those of the plain one and the days of the year  *)
(* after the check-in's.                                                   *)
(***************************************************************************)
EXTENDS AccountRules

BookingRule == Mut("booking", Booking, {BookingBy("booking")})
\* Mutant: any token account of the program's will do.
OwnTokensAnywhere == Closed("escrowTokenAccount", TokenAccount, {})

OwnTokensRule == Closed("escrowTokenAccount", TokenAccount, {EscrowTokensOf("booking")})

DaysRule == Mut("bookingDays", BookingDays, {DaysBy("booking")})
NextDaysRule == Mut("bookingDaysNext", BookingDays, {NextDaysBy("booking")})
AuthorityRule == Unchecked("cpiAuthority", {CpiAuthority("escrow")})
CoreProgramRule == ProgramRule("staykeCoreProgram", "core")
TokensRule(name, profile) == Mut(name, TokenAccount, {TokensBy(profile)})

\* Mutant: a profile at its own address, of whoever.
PartyAnywhere(name, role) == Ro(name, UserProfile, {ProfileBy(name)})

\* A profile at its own address, and of the booking's guest or host.
PartyRule(name, role) ==
  Ro(name, UserProfile, {ProfileBy(name), Held("booking", role)})
MutPartyRule(name, role) ==
  Mut(name, UserProfile, {ProfileBy(name), Held("booking", role)})

InitializeConfigEscrow ==
  <<MutSigns("authority", {Held("globalConfig", "authority")}),
    New("escrowConfig", EscrowConfig, {EscrowConfigPda}), GlobalConfigRule, SystemRule>>

-----------------------------------------------------------------------------
\* The handler requires the property to be a listing of the given host.
CreateBookingWith(days) ==
  <<MutSigns("payer", {}), Signs("client", {}),
    Ro("clientProfile", UserProfile, {ProfileOf("client")}),
    Ro("hostProfile", UserProfile, {ProfileBy("hostProfile")}),
    New("booking", Booking,
        {BookingOf(Key("property"), Key("clientProfile"), Arg("i64", "checkIn"))}),
    Ro("property", Listing, {SameListing("hostProfile", "property")}), GlobalConfigRule,
    SystemRule>>
  \o days \o
  <<New("escrowTokenAccount", TokenAccount, {EscrowTokensOf("booking")}),
    Mut("clientTokenAccount", TokenAccount, {TokensOfSigner("client")}), MintRule("mint"),
    TokenRule>>

BookedDays(name, year) ==
  Needed(name, BookingDays, {DaysOf(Key("property"), Arg(year, "checkIn"))})

CreateBooking == CreateBookingWith(<<BookedDays("bookingDays", "year")>>)

CreateBookingCrossYear ==
  CreateBookingWith(<<BookedDays("bookingDays", "year"),
                      BookedDays("bookingDaysNext", "nextYear")>>)

HostAcceptBooking ==
  <<MutSigns("payer", {}), Signs("host", {}),
    Ro("hostProfile", UserProfile, {ProfileOf("host"), Held("booking", "host")}), BookingRule,
    GlobalConfigRule>>

\* What a rejection takes after its payer.
Rejection(days) ==
  <<Signs("host", {}),
    Ro("hostProfile", UserProfile, {ProfileOf("host"), Held("booking", "host")}),
    PartyRule("guest", "guest"), Closed("booking", Booking, {BookingBy("booking")})>>
  \o days \o
  <<GlobalConfigRule, OwnTokensRule, TokensRule("guestTokenAccount", "guest"),
    MintRule("mint"), TokenRule>>

\* The payer of a plain rejection is credited, though not marked mut.
HostRejectBooking == <<CreditedSigns("payer", {})>> \o Rejection(<<DaysRule>>)

HostRejectBookingCrossYear ==
  <<MutSigns("payer", {})>> \o Rejection(<<DaysRule, NextDaysRule>>)

ExpireBookingWith(days) ==
  <<MutSigns("payer", {}), PartyRule("guest", "guest"),
    Closed("booking", Booking, {BookingBy("booking")}), OwnTokensRule,
    TokensRule("guestTokenAccount", "guest")>>
  \o days \o <<GlobalConfigRule, MintRule("mint"), TokenRule>>

ExpireBooking == ExpireBookingWith(<<DaysRule>>)

ExpireBookingCrossYear == ExpireBookingWith(<<DaysRule, NextDaysRule>>)

-----------------------------------------------------------------------------
GuestCancelBookingWith(days) ==
  <<MutSigns("caller", {Held("guestProfile", "authority")}), PartyRule("guestProfile", "guest"),
    PartyRule("hostProfile", "host"),
    Mut("guestReputation", ReputationProfile, {ReputationBy("guestProfile")}), BookingRule>>
  \o days \o
  <<GlobalConfigRule, OwnTokensRule, TokensRule("guestTokenAccount", "guestProfile"),
    TokensRule("hostTokenAccount", "hostProfile"), VaultRule("platformVault"),
    MutMintRule("mint"), AuthorityRule, CoreProgramRule, TokenRule>>

GuestCancelBooking == GuestCancelBookingWith(<<DaysRule>>)

GuestCancelBookingCrossYear == GuestCancelBookingWith(<<DaysRule, NextDaysRule>>)

\* The treasury's own rules place its authority; here it is unchecked.
HostCancelBookingWith(days) ==
  <<MutSigns("caller", {Held("hostProfile", "authority")}), PartyRule("guestProfile", "guest"),
    MutPartyRule("hostProfile", "host"),
    Mut("hostReputation", ReputationProfile, {ReputationBy("hostProfile")}), BookingRule>>
  \o days \o
  <<GlobalConfigRule, OwnTokensRule, TokensRule("guestTokenAccount", "guestProfile"),
    MutMintRule("mint"), AuthorityRule,
    Ro("treasuryConfig", TreasuryConfigAcc, {TreasuryConfigPda}),
    Mut("treasuryVault", TokenAccount, {Held("treasuryConfig", "treasuryVault")}),
    Unchecked("treasuryPda", {}), CoreProgramRule,
    ProgramRule("staykeTreasuryProgram", "treasury"), TokenRule>>

HostCancelBooking == HostCancelBookingWith(<<DaysRule>>)

HostCancelBookingCrossYear == HostCancelBookingWith(<<DaysRule, NextDaysRule>>)

-----------------------------------------------------------------------------
BookingStarts ==
  <<MutSigns("payer", {}), BookingRule, MutPartyRule("guest", "guest"),
    Ro("hostProfile", UserProfile, {ProfileBy("hostProfile")}), AuthorityRule,
    GlobalConfigRule, ProgramRule("staykeCore", "core")>>

BookingCompletes == <<MutSigns("payer", {}), BookingRule>>

ReleaseFunds ==
  <<MutSigns("payer", {}), MutPartyRule("guestProfile", "guest"),
    MutPartyRule("hostProfile", "host"), BookingRule, GlobalConfigRule, OwnTokensRule,
    TokensRule("hostTokenAccount", "hostProfile"), VaultRule("platformVault"),
    MutMintRule("mint"), AuthorityRule, CoreProgramRule, TokenRule>>

\* The handler requires the listing to be one of the host's.
GuestReview ==
  <<Signs("guest", {}),
    Ro("guestProfile", UserProfile, {ProfileOf("guest"), Held("booking", "guest")}),
    PartyRule("hostProfile", "host"),
    Mut("hostReputation", ReputationProfile, {ReputationBy("hostProfile")}),
    Mut("listing", Listing,
        {Held("booking", "property"), SameListing("hostProfile", "listing")}),
    BookingRule, GlobalConfigRule, AuthorityRule, CoreProgramRule>>

HostReview ==
  <<Signs("host", {}),
    Ro("hostProfile", UserProfile, {ProfileOf("host"), Held("booking", "host")}),
    PartyRule("guestProfile", "guest"),
    Mut("guestReputation", ReputationProfile, {ReputationBy("guestProfile")}), BookingRule,
    GlobalConfigRule, AuthorityRule, CoreProgramRule>>

-----------------------------------------------------------------------------
UpdateBookingStatusCpi ==
  <<GlobalConfigRule, Mut("booking", Booking, {}), Callers({"disputes"})>>

\* The two profiles are the booking's parties, and not the same.
ResolveDisputeTransferCpi ==
  <<Callers({"disputes"}), BookingRule,
    OneOf({Held("booking", "host"), Held("booking", "guest")},
          Ro("guiltyProfile", UserProfile, {ProfileBy("guiltyProfile")})),
    OneOf({Held("booking", "guest"), Held("booking", "host")},
          Ro("victimProfile", UserProfile, {ProfileBy("victimProfile")})),
    GlobalConfigRule, OwnTokensRule, TokensRule("guiltyTokenAccount", "guiltyProfile"),
    TokensRule("victimTokenAccount", "victimProfile"), VaultRule("platformVaultTokenAccount"),
    MutMintRule("mint"), TokenRule>>

Rules ==
  [bookingCompletes |-> BookingCompletes, bookingStarts |-> BookingStarts,
   cpiResolveDisputeTransfer |-> ResolveDisputeTransferCpi,
   cpiUpdateBookingStatus |-> UpdateBookingStatusCpi, createBooking |-> CreateBooking,
   createBookingCrossYear |-> CreateBookingCrossYear, expireBooking |-> ExpireBooking,
   expireBookingCrossYear |-> ExpireBookingCrossYear,
   guestCancelBooking |-> GuestCancelBooking,
   guestCancelBookingCrossYear |-> GuestCancelBookingCrossYear, guestReview |-> GuestReview,
   hostAcceptBooking |-> HostAcceptBooking, hostCancelBooking |-> HostCancelBooking,
   hostCancelBookingCrossYear |-> HostCancelBookingCrossYear,
   hostRejectBooking |-> HostRejectBooking,
   hostRejectBookingCrossYear |-> HostRejectBookingCrossYear, hostReview |-> HostReview,
   initializeEscrow |-> InitializeConfigEscrow, releaseFunds |-> ReleaseFunds]
=============================================================================
