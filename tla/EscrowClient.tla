---------------------------- MODULE EscrowClient ----------------------------
(***************************************************************************)
(* The generated client of the bookings program: packages/stayke_escrow.   *)
(* Of each instruction, the asynchronous builder, the synchronous one,     *)
(* and the accounts its parser reads in order.                             *)
(***************************************************************************)
EXTENDS Builders

\* pdas of the package.
\* Mutant: without the check-in.
FindBookingPdaOfParties(property, clientProfile, checkIn) ==
  Derivation("escrow", <<Lit("booking"), Key(property), Key(clientProfile)>>)

FindBookingPda(property, clientProfile, checkIn) ==
  Derivation("escrow", <<Lit("booking"), Key(property), Key(clientProfile), Arg("i64", checkIn)>>)
\* The seed is the whole check-in, where the program takes its year.
FindBookingDaysPda(property, checkIn) ==
  Derivation("escrow", <<Lit("booking_days"), Key(property), Arg("i64", checkIn)>>)
FindCpiAuthorityPda == Derivation("escrow", <<Lit("cpi_authority")>>)
FindEscrowConfigPda == Derivation("escrow", <<Lit("escrow_config")>>)
FindEscrowTokenAccountPda(booking) == Derivation("escrow", <<Lit("escrow"), Key(booking)>>)

-----------------------------------------------------------------------------
BookingCompletes ==
  Builder("escrow", "booking_completes",
    <<WS("payer"), W("booking")>>,
    <<>>,
    <<>>)
BookingCompletesParse ==
  <<"payer", "booking">>

BookingStarts ==
  Builder("escrow", "booking_starts",
    <<WS("payer"), W("booking"), W("guest"), R("hostProfile"), R("cpiAuthority"),
      R("globalConfig"), R("staykeCore")>>,
    <<>>,
    <<Default("cpiAuthority", FindCpiAuthorityPda), Default("globalConfig", GlobalConfig),
      Default("staykeCore", Fixed("core"))>>)
BookingStartsSync == FixedOnly(BookingStarts)
BookingStartsParse ==
  <<"payer", "booking", "guest", "hostProfile", "cpiAuthority", "globalConfig", "staykeCore">>

CpiResolveDisputeTransfer ==
  Builder("escrow", "cpi_resolve_dispute_transfer",
    <<RS("cpiAuthority"), W("booking"), R("guiltyProfile"), R("victimProfile"), R("globalConfig"),
      W("escrowTokenAccount"), W("guiltyTokenAccount"), W("victimTokenAccount"),
      W("platformVaultTokenAccount"), W("mint"), R("tokenProgram")>>,
    <<"slashBps">>,
    <<Default("globalConfig", GlobalConfig),
      Default("escrowTokenAccount", FindEscrowTokenAccountPda("booking")),
      Default("tokenProgram", Fixed("token"))>>)
CpiResolveDisputeTransferSync == FixedOnly(CpiResolveDisputeTransfer)
CpiResolveDisputeTransferParse ==
  <<"cpiAuthority", "booking", "guiltyProfile", "victimProfile", "globalConfig",
    "escrowTokenAccount", "guiltyTokenAccount", "victimTokenAccount", "platformVaultTokenAccount",
    "mint", "tokenProgram">>

CpiUpdateBookingStatus ==
  Builder("escrow", "cpi_update_booking_status",
    <<R("globalConfig"), W("booking"), RS("cpiAuthority")>>,
    <<"status">>,
    <<Default("globalConfig", GlobalConfig)>>)
CpiUpdateBookingStatusSync == FixedOnly(CpiUpdateBookingStatus)
CpiUpdateBookingStatusParse ==
  <<"globalConfig", "booking", "cpiAuthority">>

CreateBooking ==
  Builder("escrow", "create_booking",
    <<WS("payer"), RS("client"), R("clientProfile"), R("hostProfile"), W("booking"),
      R("property"), R("globalConfig"), R("systemProgram"), W("bookingDays"),
      W("escrowTokenAccount"), W("clientTokenAccount"), R("mint"), R("tokenProgram")>>,
    <<"checkIn", "checkOut">>,
    <<Default("clientProfile", UserProfileOf("client")),
      Default("booking", FindBookingPda("property", "clientProfile", "checkIn")),
      Default("globalConfig", GlobalConfig), Default("systemProgram", Fixed("system")),
      Default("bookingDays", FindBookingDaysPda("property", "checkIn")),
      Default("escrowTokenAccount", FindEscrowTokenAccountPda("booking")),
      Default("tokenProgram", Fixed("token"))>>)
CreateBookingSync == FixedOnly(CreateBooking)
CreateBookingParse ==
  <<"payer", "client", "clientProfile", "hostProfile", "booking", "property", "globalConfig",
    "systemProgram", "bookingDays", "escrowTokenAccount", "clientTokenAccount", "mint",
    "tokenProgram">>

CreateBookingCrossYear ==
  Builder("escrow", "create_booking_cross_year",
    <<WS("payer"), RS("client"), R("clientProfile"), R("hostProfile"), W("booking"),
      R("property"), R("globalConfig"), R("systemProgram"), W("bookingDays"),
      W("bookingDaysNext"), W("escrowTokenAccount"), W("clientTokenAccount"), R("mint"),
      R("tokenProgram")>>,
    <<"checkIn", "checkOut">>,
    <<Default("clientProfile", UserProfileOf("client")),
      Default("booking", FindBookingPda("property", "clientProfile", "checkIn")),
      Default("globalConfig", GlobalConfig), Default("systemProgram", Fixed("system")),
      Default("bookingDays", FindBookingDaysPda("property", "checkIn")),
      Default("escrowTokenAccount", FindEscrowTokenAccountPda("booking")),
      Default("tokenProgram", Fixed("token"))>>)
CreateBookingCrossYearSync == FixedOnly(CreateBookingCrossYear)
CreateBookingCrossYearParse ==
  <<"payer", "client", "clientProfile", "hostProfile", "booking", "property", "globalConfig",
    "systemProgram", "bookingDays", "bookingDaysNext", "escrowTokenAccount", "clientTokenAccount",
    "mint", "tokenProgram">>

ExpireBooking ==
  Builder("escrow", "expire_booking",
    <<WS("payer"), R("guest"), W("booking"), W("escrowTokenAccount"), W("guestTokenAccount"),
      W("bookingDays"), R("globalConfig"), R("mint"), R("tokenProgram")>>,
    <<>>,
    <<Default("escrowTokenAccount", FindEscrowTokenAccountPda("booking")),
      Default("globalConfig", GlobalConfig), Default("tokenProgram", Fixed("token"))>>)
ExpireBookingSync == FixedOnly(ExpireBooking)
ExpireBookingParse ==
  <<"payer", "guest", "booking", "escrowTokenAccount", "guestTokenAccount", "bookingDays",
    "globalConfig", "mint", "tokenProgram">>

ExpireBookingCrossYear ==
  Builder("escrow", "expire_booking_cross_year",
    <<WS("payer"), R("guest"), W("booking"), W("escrowTokenAccount"), W("guestTokenAccount"),
      W("bookingDays"), W("bookingDaysNext"), R("globalConfig"), R("mint"), R("tokenProgram")>>,
    <<>>,
    <<Default("escrowTokenAccount", FindEscrowTokenAccountPda("booking")),
      Default("globalConfig", GlobalConfig), Default("tokenProgram", Fixed("token"))>>)
ExpireBookingCrossYearSync == FixedOnly(ExpireBookingCrossYear)
ExpireBookingCrossYearParse ==
  <<"payer", "guest", "booking", "escrowTokenAccount", "guestTokenAccount", "bookingDays",
    "bookingDaysNext", "globalConfig", "mint", "tokenProgram">>

GuestCancelBooking ==
  Builder("escrow", "guest_cancel_booking",
    <<WS("caller"), R("guestProfile"), R("hostProfile"), W("guestReputation"), W("booking"),
      W("bookingDays"), R("globalConfig"), W("escrowTokenAccount"), W("guestTokenAccount"),
      W("hostTokenAccount"), W("platformVault"), W("mint"), R("cpiAuthority"),
      R("staykeCoreProgram"), R("tokenProgram")>>,
    <<>>,
    <<Default("globalConfig", GlobalConfig),
      Default("escrowTokenAccount", FindEscrowTokenAccountPda("booking")),
      Default("cpiAuthority", FindCpiAuthorityPda), Default("staykeCoreProgram", Fixed("core")),
      Default("tokenProgram", Fixed("token"))>>)
GuestCancelBookingSync == FixedOnly(GuestCancelBooking)
GuestCancelBookingParse ==
  <<"caller", "guestProfile", "hostProfile", "guestReputation", "booking", "bookingDays",
    "globalConfig", "escrowTokenAccount", "guestTokenAccount", "hostTokenAccount",
    "platformVault", "mint", "cpiAuthority", "staykeCoreProgram", "tokenProgram">>

GuestCancelBookingCrossYear ==
  Builder("escrow", "guest_cancel_booking_cross_year",
    <<WS("caller"), R("guestProfile"), R("hostProfile"), W("guestReputation"), W("booking"),
      W("bookingDays"), W("bookingDaysNext"), R("globalConfig"), W("escrowTokenAccount"),
      W("guestTokenAccount"), W("hostTokenAccount"), W("platformVault"), W("mint"),
      R("cpiAuthority"), R("staykeCoreProgram"), R("tokenProgram")>>,
    <<>>,
    <<Default("globalConfig", GlobalConfig),
      Default("escrowTokenAccount", FindEscrowTokenAccountPda("booking")),
      Default("cpiAuthority", FindCpiAuthorityPda), Default("staykeCoreProgram", Fixed("core")),
      Default("tokenProgram", Fixed("token"))>>)
GuestCancelBookingCrossYearSync == FixedOnly(GuestCancelBookingCrossYear)
GuestCancelBookingCrossYearParse ==
  <<"caller", "guestProfile", "hostProfile", "guestReputation", "booking", "bookingDays",
    "bookingDaysNext", "globalConfig", "escrowTokenAccount", "guestTokenAccount",
    "hostTokenAccount", "platformVault", "mint", "cpiAuthority", "staykeCoreProgram",
    "tokenProgram">>

GuestReview ==
  Builder("escrow", "guest_review",
    <<RS("guest"), R("guestProfile"), R("hostProfile"), W("hostReputation"), W("listing"),
      W("booking"), R("globalConfig"), R("cpiAuthority"), R("staykeCoreProgram")>>,
    <<"score">>,
    <<Default("guestProfile", UserProfileOf("guest")), Default("globalConfig", GlobalConfig),
      Default("cpiAuthority", FindCpiAuthorityPda), Default("staykeCoreProgram", Fixed("core"))>>)
GuestReviewSync == FixedOnly(GuestReview)
GuestReviewParse ==
  <<"guest", "guestProfile", "hostProfile", "hostReputation", "listing", "booking",
    "globalConfig", "cpiAuthority", "staykeCoreProgram">>

HostAcceptBooking ==
  Builder("escrow", "host_accept_booking",
    <<WS("payer"), RS("host"), R("hostProfile"), W("booking"), R("globalConfig")>>,
    <<>>,
    <<Default("hostProfile", UserProfileOf("host")), Default("globalConfig", GlobalConfig)>>)
HostAcceptBookingSync == FixedOnly(HostAcceptBooking)
HostAcceptBookingParse ==
  <<"payer", "host", "hostProfile", "booking", "globalConfig">>

HostCancelBooking ==
  Builder("escrow", "host_cancel_booking",
    <<WS("caller"), R("guestProfile"), W("hostProfile"), W("hostReputation"), W("booking"),
      W("bookingDays"), R("globalConfig"), W("escrowTokenAccount"), W("guestTokenAccount"),
      W("mint"), R("cpiAuthority"), R("treasuryConfig"), W("treasuryVault"), R("treasuryPda"),
      R("staykeCoreProgram"), R("staykeTreasuryProgram"), R("tokenProgram")>>,
    <<>>,
    <<Default("globalConfig", GlobalConfig),
      Default("escrowTokenAccount", FindEscrowTokenAccountPda("booking")),
      Default("cpiAuthority", FindCpiAuthorityPda), Default("treasuryConfig", TreasuryConfig),
      Default("staykeCoreProgram", Fixed("core")),
      Default("staykeTreasuryProgram", Fixed("treasury")),
      Default("tokenProgram", Fixed("token"))>>)
HostCancelBookingSync == FixedOnly(HostCancelBooking)
HostCancelBookingParse ==
  <<"caller", "guestProfile", "hostProfile", "hostReputation", "booking", "bookingDays",
    "globalConfig", "escrowTokenAccount", "guestTokenAccount", "mint", "cpiAuthority",
    "treasuryConfig", "treasuryVault", "treasuryPda", "staykeCoreProgram",
    "staykeTreasuryProgram", "tokenProgram">>

HostCancelBookingCrossYear ==
  Builder("escrow", "host_cancel_booking_cross_year",
    <<WS("caller"), R("guestProfile"), W("hostProfile"), W("hostReputation"), W("booking"),
      W("bookingDays"), W("bookingDaysNext"), R("globalConfig"), W("escrowTokenAccount"),
      W("guestTokenAccount"), W("mint"), R("cpiAuthority"), R("treasuryConfig"),
      W("treasuryVault"), R("treasuryPda"), R("staykeCoreProgram"), R("staykeTreasuryProgram"),
      R("tokenProgram")>>,
    <<>>,
    <<Default("globalConfig", GlobalConfig),
      Default("escrowTokenAccount", FindEscrowTokenAccountPda("booking")),
      Default("cpiAuthority", FindCpiAuthorityPda), Default("treasuryConfig", TreasuryConfig),
      Default("staykeCoreProgram", Fixed("core")),
      Default("staykeTreasuryProgram", Fixed("treasury")),
      Default("tokenProgram", Fixed("token"))>>)
HostCancelBookingCrossYearSync == FixedOnly(HostCancelBookingCrossYear)
HostCancelBookingCrossYearParse ==
  <<"caller", "guestProfile", "hostProfile", "hostReputation", "booking", "bookingDays",
    "bookingDaysNext", "globalConfig", "escrowTokenAccount", "guestTokenAccount", "mint",
    "cpiAuthority", "treasuryConfig", "treasuryVault", "treasuryPda", "staykeCoreProgram",
    "staykeTreasuryProgram", "tokenProgram">>

HostRejectBooking ==
  Builder("escrow", "host_reject_booking",
    <<RS("payer"), RS("host"), R("hostProfile"), R("guest"), W("booking"), W("bookingDays"),
      R("globalConfig"), W("escrowTokenAccount"), W("guestTokenAccount"), R("mint"),
      R("tokenProgram")>>,
    <<>>,
    <<Default("hostProfile", UserProfileOf("host")), Default("globalConfig", GlobalConfig),
      Default("escrowTokenAccount", FindEscrowTokenAccountPda("booking")),
      Default("tokenProgram", Fixed("token"))>>)
HostRejectBookingSync == FixedOnly(HostRejectBooking)
HostRejectBookingParse ==
  <<"payer", "host", "hostProfile", "guest", "booking", "bookingDays", "globalConfig",
    "escrowTokenAccount", "guestTokenAccount", "mint", "tokenProgram">>

HostRejectBookingCrossYear ==
  Builder("escrow", "host_reject_booking_cross_year",
    <<WS("payer"), RS("host"), R("hostProfile"), R("guest"), W("booking"), W("bookingDays"),
      W("bookingDaysNext"), R("globalConfig"), W("escrowTokenAccount"), W("guestTokenAccount"),
      R("mint"), R("tokenProgram")>>,
    <<>>,
    <<Default("hostProfile", UserProfileOf("host")), Default("globalConfig", GlobalConfig),
      Default("escrowTokenAccount", FindEscrowTokenAccountPda("booking")),
      Default("tokenProgram", Fixed("token"))>>)
HostRejectBookingCrossYearSync == FixedOnly(HostRejectBookingCrossYear)
HostRejectBookingCrossYearParse ==
  <<"payer", "host", "hostProfile", "guest", "booking", "bookingDays", "bookingDaysNext",
    "globalConfig", "escrowTokenAccount", "guestTokenAccount", "mint", "tokenProgram">>

HostReview ==
  Builder("escrow", "host_review",
    <<RS("host"), R("hostProfile"), R("guestProfile"), W("guestReputation"), W("booking"),
      R("globalConfig"), R("cpiAuthority"), R("staykeCoreProgram")>>,
    <<"score">>,
    <<Default("hostProfile", UserProfileOf("host")), Default("globalConfig", GlobalConfig),
      Default("cpiAuthority", FindCpiAuthorityPda), Default("staykeCoreProgram", Fixed("core"))>>)
HostReviewSync == FixedOnly(HostReview)
HostReviewParse ==
  <<"host", "hostProfile", "guestProfile", "guestReputation", "booking", "globalConfig",
    "cpiAuthority", "staykeCoreProgram">>

InitializeEscrow ==
  Builder("escrow", "initialize_escrow",
    <<WS("authority"), W("escrowConfig"), R("globalConfig"), R("systemProgram")>>,
    <<>>,
    <<Default("escrowConfig", FindEscrowConfigPda), Default("globalConfig", GlobalConfig),
      Default("systemProgram", Fixed("system"))>>)
InitializeEscrowSync == FixedOnly(InitializeEscrow)
InitializeEscrowParse ==
  <<"authority", "escrowConfig", "globalConfig", "systemProgram">>

ReleaseFunds ==
  Builder("escrow", "release_funds",
    <<WS("payer"), W("guestProfile"), W("hostProfile"), W("booking"), R("globalConfig"),
      W("escrowTokenAccount"), W("hostTokenAccount"), W("platformVault"), W("mint"),
      R("cpiAuthority"), R("staykeCoreProgram"), R("tokenProgram")>>,
    <<>>,
    <<Default("globalConfig", GlobalConfig),
      Default("escrowTokenAccount", FindEscrowTokenAccountPda("booking")),
      Default("cpiAuthority", FindCpiAuthorityPda), Default("staykeCoreProgram", Fixed("core")),
      Default("tokenProgram", Fixed("token"))>>)
ReleaseFundsSync == FixedOnly(ReleaseFunds)
ReleaseFundsParse ==
  <<"payer", "guestProfile", "hostProfile", "booking", "globalConfig", "escrowTokenAccount",
    "hostTokenAccount", "platformVault", "mint", "cpiAuthority", "staykeCoreProgram",
    "tokenProgram">>

-----------------------------------------------------------------------------
\* The builders the client plugin offers.
Plugin ==
  [bookingCompletes |-> BookingCompletes, bookingStarts |-> BookingStarts,
    cpiResolveDisputeTransfer |-> CpiResolveDisputeTransfer,
    cpiUpdateBookingStatus |-> CpiUpdateBookingStatus, createBooking |-> CreateBooking,
    createBookingCrossYear |-> CreateBookingCrossYear, expireBooking |-> ExpireBooking,
    expireBookingCrossYear |-> ExpireBookingCrossYear, guestCancelBooking |-> GuestCancelBooking,
    guestCancelBookingCrossYear |-> GuestCancelBookingCrossYear, guestReview |-> GuestReview,
    hostAcceptBooking |-> HostAcceptBooking, hostCancelBooking |-> HostCancelBooking,
    hostCancelBookingCrossYear |-> HostCancelBookingCrossYear,
    hostRejectBooking |-> HostRejectBooking,
    hostRejectBookingCrossYear |-> HostRejectBookingCrossYear, hostReview |-> HostReview,
    initializeEscrow |-> InitializeEscrow, releaseFunds |-> ReleaseFunds]

\* The synchronous ones, which the package also exports.
SyncBuilders ==
  [bookingCompletes |-> BookingCompletes, bookingStarts |-> BookingStartsSync,
    cpiResolveDisputeTransfer |-> CpiResolveDisputeTransferSync,
    cpiUpdateBookingStatus |-> CpiUpdateBookingStatusSync, createBooking |-> CreateBookingSync,
    createBookingCrossYear |-> CreateBookingCrossYearSync, expireBooking |-> ExpireBookingSync,
    expireBookingCrossYear |-> ExpireBookingCrossYearSync,
    guestCancelBooking |-> GuestCancelBookingSync,
    guestCancelBookingCrossYear |-> GuestCancelBookingCrossYearSync,
    guestReview |-> GuestReviewSync, hostAcceptBooking |-> HostAcceptBookingSync,
    hostCancelBooking |-> HostCancelBookingSync,
    hostCancelBookingCrossYear |-> HostCancelBookingCrossYearSync,
    hostRejectBooking |-> HostRejectBookingSync,
    hostRejectBookingCrossYear |-> HostRejectBookingCrossYearSync, hostReview |-> HostReviewSync,
    initializeEscrow |-> InitializeEscrowSync, releaseFunds |-> ReleaseFundsSync]

\* By discriminator, the instruction some data stands for.
Identify ==
  [booking_completes |-> "bookingCompletes", booking_starts |-> "bookingStarts",
    cpi_resolve_dispute_transfer |-> "cpiResolveDisputeTransfer",
    cpi_update_booking_status |-> "cpiUpdateBookingStatus", create_booking |-> "createBooking",
    create_booking_cross_year |-> "createBookingCrossYear", expire_booking |-> "expireBooking",
    expire_booking_cross_year |-> "expireBookingCrossYear",
    guest_cancel_booking |-> "guestCancelBooking",
    guest_cancel_booking_cross_year |-> "guestCancelBookingCrossYear",
    guest_review |-> "guestReview", host_accept_booking |-> "hostAcceptBooking",
    host_cancel_booking |-> "hostCancelBooking",
    host_cancel_booking_cross_year |-> "hostCancelBookingCrossYear",
    host_reject_booking |-> "hostRejectBooking",
    host_reject_booking_cross_year |-> "hostRejectBookingCrossYear", host_review |-> "hostReview",
    initialize_escrow |-> "initializeEscrow", release_funds |-> "releaseFunds"]

\* The accounts each parser reads, one by one.
Parsers ==
  [bookingCompletes |-> BookingCompletesParse, bookingStarts |-> BookingStartsParse,
    cpiResolveDisputeTransfer |-> CpiResolveDisputeTransferParse,
    cpiUpdateBookingStatus |-> CpiUpdateBookingStatusParse, createBooking |-> CreateBookingParse,
    createBookingCrossYear |-> CreateBookingCrossYearParse, expireBooking |-> ExpireBookingParse,
    expireBookingCrossYear |-> ExpireBookingCrossYearParse,
    guestCancelBooking |-> GuestCancelBookingParse,
    guestCancelBookingCrossYear |-> GuestCancelBookingCrossYearParse,
    guestReview |-> GuestReviewParse, hostAcceptBooking |-> HostAcceptBookingParse,
    hostCancelBooking |-> HostCancelBookingParse,
    hostCancelBookingCrossYear |-> HostCancelBookingCrossYearParse,
    hostRejectBooking |-> HostRejectBookingParse,
    hostRejectBookingCrossYear |-> HostRejectBookingCrossYearParse,
    hostReview |-> HostReviewParse, initializeEscrow |-> InitializeEscrowParse,
    releaseFunds |-> ReleaseFundsParse]
=============================================================================
