---------------------------- MODULE CoreAccounts ----------------------------
(***************************************************************************)
(* The accounts of the instructions of programs/stayke-core.  The          *)
(* instructions the other programs call take the caller's authority as a   *)
(* signer and check it against the programs that may call them.            *)
(***************************************************************************)
EXTENDS AccountRules

InitializeConfig ==
  <<New("config", ConfigAcc, {CoreConfigPda}), MutSigns("authority", {}), SystemRule>>

InitIdentity ==
  <<MutSigns("payer", {}), Signs("authority", {Held("config", "authority")}),
    New("identity", Identity, {IdentityAt("id")}), Ro("config", ConfigAcc, {CoreConfigPda}),
    SystemRule>>

LinkIdentity ==
  <<MutSigns("payer", {}), MutSigns("authority", {Held("config", "authority")}),
    Mut("userProfile", UserProfile, {ProfileBy("userProfile")}),
    Mut("identity", Identity, {IdentityAt("id")}), Ro("config", ConfigAcc, {CoreConfigPda})>>

InitializeUserProfile ==
  <<MutSigns("payer", {}), MutSigns("authority", {}),
    New("userProfile", UserProfile, {ProfileOf("authority")}),
    New("reputationProfile", ReputationProfile, {ReputationOf("authority")}), SystemRule>>

InitializeListing ==
  <<MutSigns("payer", {}), Signs("authority", {}),
    New("listing", Listing, {ListingAt("userProfile", Arg("u16", "listingId"))}),
    Mut("userProfile", UserProfile, {ProfileOf("authority")}), SystemRule>>

UpdateListing ==
  <<Ro("userProfile", UserProfile, {ProfileOf("authority")}),
    Mut("listing", Listing, {SameListing("userProfile", "listing")}),
    Signs("authority", {}), MutSigns("payer", {})>>

-----------------------------------------------------------------------------
UpdateUserProfile(programs) ==
  <<Mut("userProfile", UserProfile, {ProfileBy("userProfile")}), GlobalConfigRule,
    Callers(programs)>>

UpdateReputationProfile(programs) ==
  <<Mut("reputationProfile", ReputationProfile, {ReputationBy("reputationProfile")}),
    GlobalConfigRule, Callers(programs)>>

ClearListingBooking ==
  <<Ro("userProfile", UserProfile, {}),
    Mut("listing", Listing, {SameListing("userProfile", "listing")}),
    GlobalConfigRule, Callers({"disputes", "escrow"})>>

SetListingOccupied ==
  <<Ro("userProfile", UserProfile, {}),
    Mut("listing", Listing, {SameListing("userProfile", "listing")}),
    GlobalConfigRule, Callers({"escrow"})>>

UpdateListingReview ==
  <<Ro("userProfile", UserProfile, {}),
    Mut("listing", Listing, {SameListing("userProfile", "listing")}),
    GlobalConfigRule, Callers({"escrow"})>>

UpdateClientReview ==
  <<Ro("clientProfile", UserProfile, {ProfileBy("clientProfile")}),
    Mut("clientReputation", ReputationProfile, {ReputationBy("clientProfile")}),
    GlobalConfigRule, Callers({"escrow"})>>

UpdateHostReview ==
  <<Ro("hostProfile", UserProfile, {ProfileBy("hostProfile")}),
    Mut("hostReputation", ReputationProfile, {ReputationBy("hostProfile")}),
    GlobalConfigRule, Callers({"escrow"})>>

Rules ==
  [addInfraction |-> UpdateReputationProfile({"disputes"}),
   clearActiveBooking |-> UpdateUserProfile({"disputes", "escrow"}),
   clearListingBooking |-> ClearListingBooking,
   incrementClientCancellations |-> UpdateReputationProfile({"escrow"}),
   incrementCompletedStays |-> UpdateUserProfile({"escrow", "disputes"}),
   incrementHostCancellations |-> UpdateReputationProfile({"escrow"}),
   incrementHostedStays |-> UpdateUserProfile({"escrow", "disputes"}),
   initIdentity |-> InitIdentity,
   initializeConfig |-> InitializeConfig,
   initializeListing |-> InitializeListing,
   initializeUserProfile |-> InitializeUserProfile,
   linkIdentity |-> LinkIdentity,
   setActiveBooking |-> UpdateUserProfile({"escrow"}),
   setListingOccupied |-> SetListingOccupied,
   updateClientReview |-> UpdateClientReview,
   updateDeposit |-> UpdateUserProfile({"treasury", "disputes", "escrow"}),
   updateHostReview |-> UpdateHostReview,
   updateListingPrice |-> UpdateListing,
   updateListingPublish |-> UpdateListing,
   updateListingReview |-> UpdateListingReview,
   updateListingState |-> UpdateListing]
=============================================================================
