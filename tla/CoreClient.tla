----------------------------- MODULE CoreClient -----------------------------
(***************************************************************************)
(* The generated client of the profiles and listings program:              *)
(* packages/stayke_core. Of each instruction, the asynchronous builder,    *)
(* the synchronous one, and the accounts its parser reads in order.        *)
(***************************************************************************)
EXTENDS Builders

\* pdas of the package.
FindConfigPda == Derivation("core", <<Lit("config")>>)
FindIdentityPda(id) == Derivation("core", <<Arg("id", id), Lit("identity")>>)
FindListingPda(userProfile, listingId) ==
  Derivation("core", <<Lit("listing"), Key(userProfile), Arg("u16", listingId)>>)
FindReputationProfilePda(authority) ==
  Derivation("core", <<Lit("reputation_profile"), Key(authority)>>)
FindUserProfilePda(authority) ==
  Derivation("core", <<Lit("user_profile"), Key(authority)>>)

-----------------------------------------------------------------------------
AddInfraction ==
  Builder("core", "add_infraction",
    <<W("reputationProfile"), R("globalConfig"), RS("cpiAuthority")>>,
    <<"severity">>,
    <<Default("globalConfig", GlobalConfig)>>)
AddInfractionSync == FixedOnly(AddInfraction)
AddInfractionParse ==
  <<"reputationProfile", "globalConfig", "cpiAuthority">>

ClearActiveBooking ==
  Builder("core", "clear_active_booking",
    <<W("userProfile"), R("globalConfig"), RS("cpiAuthority")>>,
    <<>>,
    <<Default("globalConfig", GlobalConfig)>>)
ClearActiveBookingSync == FixedOnly(ClearActiveBooking)
ClearActiveBookingParse ==
  <<"userProfile", "globalConfig", "cpiAuthority">>

ClearListingBooking ==
  Builder("core", "clear_listing_booking",
    <<R("userProfile"), W("listing"), R("globalConfig"), RS("cpiAuthority")>>,
    <<>>,
    <<Default("globalConfig", GlobalConfig)>>)
ClearListingBookingSync == FixedOnly(ClearListingBooking)
ClearListingBookingParse ==
  <<"userProfile", "listing", "globalConfig", "cpiAuthority">>

IncrementClientCancellations ==
  Builder("core", "increment_client_cancellations",
    <<W("reputationProfile"), R("globalConfig"), RS("cpiAuthority")>>,
    <<>>,
    <<Default("globalConfig", GlobalConfig)>>)
IncrementClientCancellationsSync == FixedOnly(IncrementClientCancellations)
IncrementClientCancellationsParse ==
  <<"reputationProfile", "globalConfig", "cpiAuthority">>

IncrementCompletedStays ==
  Builder("core", "increment_completed_stays",
    <<W("userProfile"), R("globalConfig"), RS("cpiAuthority")>>,
    <<>>,
    <<Default("globalConfig", GlobalConfig)>>)
IncrementCompletedStaysSync == FixedOnly(IncrementCompletedStays)
IncrementCompletedStaysParse ==
  <<"userProfile", "globalConfig", "cpiAuthority">>

IncrementHostCancellations ==
  Builder("core", "increment_host_cancellations",
    <<W("reputationProfile"), R("globalConfig"), RS("cpiAuthority")>>,
    <<>>,
    <<Default("globalConfig", GlobalConfig)>>)
IncrementHostCancellationsSync == FixedOnly(IncrementHostCancellations)
IncrementHostCancellationsParse ==
  <<"reputationProfile", "globalConfig", "cpiAuthority">>

IncrementHostedStays ==
  Builder("core", "increment_hosted_stays",
    <<W("userProfile"), R("globalConfig"), RS("cpiAuthority")>>,
    <<>>,
    <<Default("globalConfig", GlobalConfig)>>)
IncrementHostedStaysSync == FixedOnly(IncrementHostedStays)
IncrementHostedStaysParse ==
  <<"userProfile", "globalConfig", "cpiAuthority">>

InitIdentity ==
  Builder("core", "init_identity",
    <<WS("payer"), RS("authority"), W("identity"), R("config"), R("systemProgram")>>,
    <<"id">>,
    <<Default("identity", FindIdentityPda("id")), Default("config", FindConfigPda),
      Default("systemProgram", Fixed("system"))>>)
InitIdentitySync == FixedOnly(InitIdentity)
InitIdentityParse ==
  <<"payer", "authority", "identity", "config", "systemProgram">>

InitializeConfig ==
  Builder("core", "initialize_config",
    <<W("config"), WS("authority"), R("systemProgram")>>,
    <<>>,
    <<Default("config", FindConfigPda), Default("systemProgram", Fixed("system"))>>)
InitializeConfigSync == FixedOnly(InitializeConfig)
InitializeConfigParse ==
  <<"config", "authority", "systemProgram">>

InitializeListing ==
  Builder("core", "initialize_listing",
    <<WS("payer"), RS("authority"), W("listing"), W("userProfile"), R("systemProgram")>>,
    <<"price", "listingId", "stateHash", "contentRef">>,
    <<Default("userProfile", FindUserProfilePda("authority")),
      Default("listing", FindListingPda("userProfile", "listingId")),
      Default("systemProgram", Fixed("system"))>>)
InitializeListingSync == FixedOnly(InitializeListing)
InitializeListingParse ==
  <<"payer", "authority", "listing", "userProfile", "systemProgram">>

InitializeUserProfile ==
  Builder("core", "initialize_user_profile",
    <<WS("payer"), WS("authority"), W("userProfile"), W("reputationProfile"), R("systemProgram")>>,
    <<>>,
    <<Default("userProfile", FindUserProfilePda("authority")),
      Default("reputationProfile", FindReputationProfilePda("authority")),
      Default("systemProgram", Fixed("system"))>>)
InitializeUserProfileSync == FixedOnly(InitializeUserProfile)
InitializeUserProfileParse ==
  <<"payer", "authority", "userProfile", "reputationProfile", "systemProgram">>

LinkIdentity ==
  Builder("core", "link_identity",
    <<WS("payer"), WS("authority"), W("userProfile"), W("identity"), R("config")>>,
    <<"id">>,
    <<Default("identity", FindIdentityPda("id")), Default("config", FindConfigPda)>>)
LinkIdentitySync == FixedOnly(LinkIdentity)
LinkIdentityParse ==
  <<"payer", "authority", "userProfile", "identity", "config">>

SetActiveBooking ==
  Builder("core", "set_active_booking",
    <<W("userProfile"), R("globalConfig"), RS("cpiAuthority")>>,
    <<"booking">>,
    <<Default("globalConfig", GlobalConfig)>>)
SetActiveBookingSync == FixedOnly(SetActiveBooking)
SetActiveBookingParse ==
  <<"userProfile", "globalConfig", "cpiAuthority">>

SetListingOccupied ==
  Builder("core", "set_listing_occupied",
    <<R("userProfile"), W("listing"), R("globalConfig"), RS("cpiAuthority")>>,
    <<"occupied">>,
    <<Default("globalConfig", GlobalConfig)>>)
SetListingOccupiedSync == FixedOnly(SetListingOccupied)
SetListingOccupiedParse ==
  <<"userProfile", "listing", "globalConfig", "cpiAuthority">>

UpdateClientReview ==
  Builder("core", "update_client_review",
    <<R("clientProfile"), W("clientReputation"), R("globalConfig"), RS("cpiAuthority")>>,
    <<"score">>,
    <<Default("globalConfig", GlobalConfig)>>)
UpdateClientReviewSync == FixedOnly(UpdateClientReview)
UpdateClientReviewParse ==
  <<"clientProfile", "clientReputation", "globalConfig", "cpiAuthority">>

UpdateDeposit ==
  Builder("core", "update_deposit",
    <<W("userProfile"), R("globalConfig"), RS("cpiAuthority")>>,
    <<"amount", "isDeposit">>,
    <<Default("globalConfig", GlobalConfig)>>)
UpdateDepositSync == FixedOnly(UpdateDeposit)
UpdateDepositParse ==
  <<"userProfile", "globalConfig", "cpiAuthority">>

UpdateHostReview ==
  Builder("core", "update_host_review",
    <<R("hostProfile"), W("hostReputation"), R("globalConfig"), RS("cpiAuthority")>>,
    <<"score">>,
    <<Default("globalConfig", GlobalConfig)>>)
UpdateHostReviewSync == FixedOnly(UpdateHostReview)
UpdateHostReviewParse ==
  <<"hostProfile", "hostReputation", "globalConfig", "cpiAuthority">>

UpdateListingPrice ==
  Builder("core", "update_listing_price",
    <<R("userProfile"), W("listing"), RS("authority"), WS("payer")>>,
    <<"price">>,
    <<Default("userProfile", FindUserProfilePda("authority"))>>)
UpdateListingPriceSync == FixedOnly(UpdateListingPrice)
UpdateListingPriceParse ==
  <<"userProfile", "listing", "authority", "payer">>

UpdateListingPublish ==
  Builder("core", "update_listing_publish",
    <<R("userProfile"), W("listing"), RS("authority"), WS("payer")>>,
    <<"active">>,
    <<Default("userProfile", FindUserProfilePda("authority"))>>)
UpdateListingPublishSync == FixedOnly(UpdateListingPublish)
UpdateListingPublishParse ==
  <<"userProfile", "listing", "authority", "payer">>

UpdateListingReview ==
  Builder("core", "update_listing_review",
    <<R("userProfile"), W("listing"), R("globalConfig"), RS("cpiAuthority")>>,
    <<"score", "reviewer">>,
    <<Default("globalConfig", GlobalConfig)>>)
UpdateListingReviewSync == FixedOnly(UpdateListingReview)
UpdateListingReviewParse ==
  <<"userProfile", "listing", "globalConfig", "cpiAuthority">>

UpdateListingState ==
  Builder("core", "update_listing_state",
    <<R("userProfile"), W("listing"), RS("authority"), WS("payer")>>,
    <<"state", "contentRef">>,
    <<Default("userProfile", FindUserProfilePda("authority"))>>)
UpdateListingStateSync == FixedOnly(UpdateListingState)
UpdateListingStateParse ==
  <<"userProfile", "listing", "authority", "payer">>

-----------------------------------------------------------------------------
\* The builders the client plugin offers.
Plugin ==
  [addInfraction |-> AddInfraction, clearActiveBooking |-> ClearActiveBooking,
    clearListingBooking |-> ClearListingBooking,
    incrementClientCancellations |-> IncrementClientCancellations,
    incrementCompletedStays |-> IncrementCompletedStays,
    incrementHostCancellations |-> IncrementHostCancellations,
    incrementHostedStays |-> IncrementHostedStays, initIdentity |-> InitIdentity,
    initializeConfig |-> InitializeConfig, initializeListing |-> InitializeListing,
    initializeUserProfile |-> InitializeUserProfile, linkIdentity |-> LinkIdentity,
    setActiveBooking |-> SetActiveBooking, setListingOccupied |-> SetListingOccupied,
    updateClientReview |-> UpdateClientReview, updateDeposit |-> UpdateDeposit,
    updateHostReview |-> UpdateHostReview, updateListingPrice |-> UpdateListingPrice,
    updateListingPublish |-> UpdateListingPublish, updateListingReview |-> UpdateListingReview,
    updateListingState |-> UpdateListingState]

\* The synchronous ones, which the package also exports.
SyncBuilders ==
  [addInfraction |-> AddInfractionSync, clearActiveBooking |-> ClearActiveBookingSync,
    clearListingBooking |-> ClearListingBookingSync,
    incrementClientCancellations |-> IncrementClientCancellationsSync,
    incrementCompletedStays |-> IncrementCompletedStaysSync,
    incrementHostCancellations |-> IncrementHostCancellationsSync,
    incrementHostedStays |-> IncrementHostedStaysSync, initIdentity |-> InitIdentitySync,
    initializeConfig |-> InitializeConfigSync, initializeListing |-> InitializeListingSync,
    initializeUserProfile |-> InitializeUserProfileSync, linkIdentity |-> LinkIdentitySync,
    setActiveBooking |-> SetActiveBookingSync, setListingOccupied |-> SetListingOccupiedSync,
    updateClientReview |-> UpdateClientReviewSync, updateDeposit |-> UpdateDepositSync,
    updateHostReview |-> UpdateHostReviewSync, updateListingPrice |-> UpdateListingPriceSync,
    updateListingPublish |-> UpdateListingPublishSync,
    updateListingReview |-> UpdateListingReviewSync,
    updateListingState |-> UpdateListingStateSync]

\* By discriminator, the instruction some data stands for.
Identify ==
  [add_infraction |-> "addInfraction", clear_active_booking |-> "clearActiveBooking",
    clear_listing_booking |-> "clearListingBooking",
    increment_client_cancellations |-> "incrementClientCancellations",
    increment_completed_stays |-> "incrementCompletedStays",
    increment_host_cancellations |-> "incrementHostCancellations",
    increment_hosted_stays |-> "incrementHostedStays", init_identity |-> "initIdentity",
    initialize_config |-> "initializeConfig", initialize_listing |-> "initializeListing",
    initialize_user_profile |-> "initializeUserProfile", link_identity |-> "linkIdentity",
    set_active_booking |-> "setActiveBooking", set_listing_occupied |-> "setListingOccupied",
    update_client_review |-> "updateClientReview", update_deposit |-> "updateDeposit",
    update_host_review |-> "updateHostReview", update_listing_price |-> "updateListingPrice",
    update_listing_publish |-> "updateListingPublish",
    update_listing_review |-> "updateListingReview",
    update_listing_state |-> "updateListingState"]

\* The accounts each parser reads, one by one.
Parsers ==
  [addInfraction |-> AddInfractionParse, clearActiveBooking |-> ClearActiveBookingParse,
    clearListingBooking |-> ClearListingBookingParse,
    incrementClientCancellations |-> IncrementClientCancellationsParse,
    incrementCompletedStays |-> IncrementCompletedStaysParse,
    incrementHostCancellations |-> IncrementHostCancellationsParse,
    incrementHostedStays |-> IncrementHostedStaysParse, initIdentity |-> InitIdentityParse,
    initializeConfig |-> InitializeConfigParse, initializeListing |-> InitializeListingParse,
    initializeUserProfile |-> InitializeUserProfileParse, linkIdentity |-> LinkIdentityParse,
    setActiveBooking |-> SetActiveBookingParse, setListingOccupied |-> SetListingOccupiedParse,
    updateClientReview |-> UpdateClientReviewParse, updateDeposit |-> UpdateDepositParse,
    updateHostReview |-> UpdateHostReviewParse, updateListingPrice |-> UpdateListingPriceParse,
    updateListingPublish |-> UpdateListingPublishParse,
    updateListingReview |-> UpdateListingReviewParse,
    updateListingState |-> UpdateListingStateParse]
=============================================================================
