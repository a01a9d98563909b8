-------------------------- MODULE DisputesAccounts --------------------------
(***************************************************************************)
(* The accounts of the instructions of programs/stayke-disputes.           *)
(***************************************************************************)
EXTENDS AccountRules

DisputeConfigRule(name) == Ro(name, DisputeConfig, {DisputeConfigPda})
BookingRule == Mut("booking", Booking, {BookingBy("booking")})
AuthorityRule == Unchecked("cpiAuthority", {CpiAuthority("disputes")})
EscrowProgramRule == ProgramRule("staykeEscrowProgram", "escrow")
CoreProgramRule == ProgramRule("staykeCoreProgram", "core")

\* A profile at its own address, and of the booking's guest or host.
PartyRule(name, role) ==
  Mut(name, UserProfile, {ProfileBy(name), Held("booking", role)})

InitializeConfig ==
  <<MutSigns("authority", {}), New("config", DisputeConfig, {DisputeConfigPda}), SystemRule>>

AddAdmin == <<Signs("admin", {}), Mut("disputeConfig", DisputeConfig, {DisputeConfigPda})>>

DeleteAdmin == <<Signs("admin", {}), Mut("disputeConfig", DisputeConfig, {DisputeConfigPda})>>

OpenDispute ==
  <<MutSigns("payer", {}), Signs("initiator", {}),
    OneOf({Held("booking", "guest"), Held("booking", "host")},
          Ro("initiatorProfile", UserProfile, {ProfileOf("initiator")})),
    BookingRule, New("dispute", DisputeAccount, {DisputeOf("booking")}), AuthorityRule,
    GlobalConfigRule, EscrowProgramRule, SystemRule>>

LinkEvidence ==
  <<Signs("signer", {}), Ro("dispute", DisputeAccount, {DisputeOf("booking")}),
    Ro("booking", Booking, {BookingBy("booking")}),
    OneOf({Held("booking", "guest"), Held("booking", "host")},
          Ro("userProfile", UserProfile, {ProfileOf("signer")}))>>

EscalateDispute == <<Mut("dispute", DisputeAccount, {DisputeBy("dispute")})>>

\* The dispute is found by its own booking, whichever booking is given.
SolveDisputeBeforeAdmin ==
  <<MutSigns("initiator", {}),
    OneOf({Held("booking", "guest"), Held("booking", "host")},
          Ro("initiatorProfile", UserProfile, {ProfileOf("initiator")})),
    Mut("dispute", DisputeAccount, {DisputeBy("dispute")}), BookingRule, AuthorityRule,
    GlobalConfigRule, EscrowProgramRule>>

\* What a verdict demands, whatever it says, but for two of the accounts.
ResolveDisputeWith(guiltyReputation, escrowTokenAccount) ==
  <<MutSigns("admin", {}), DisputeConfigRule("config"),
    Mut("dispute", DisputeAccount, {DisputeOf("booking")}), BookingRule,
    PartyRule("hostProfile", "host"), PartyRule("guestProfile", "guest"),
    guiltyReputation, GlobalConfigRule, AuthorityRule, escrowTokenAccount,
    Mut("hostTokenAccount", TokenAccount, {TokensBy("hostProfile")}),
    Mut("guestTokenAccount", TokenAccount, {TokensBy("guestProfile")}),
    VaultRule("platformVaultTokenAccount"), MutMintRule("usdcMint"),
    Mut("treasuryVault", TokenAccount, {Held("configTreasury", "treasuryVault")}),
    Unchecked("treasuryPda", {TreasuryPda}),
    Ro("configTreasury", TreasuryConfigAcc, {TreasuryConfigPda}), CoreProgramRule,
    ProgramRule("staykeTreasuryProgram", "treasury"), EscrowProgramRule, TokenRule>>

GuiltyReputation ==
  Mut("guiltyReputation", ReputationProfile, {ReputationBy("guiltyReputation")})

\* A verdict that finds someone guilty: the reputation is the guilty party's,
\* and the escrow is paid out and closed.
ResolveDispute ==
  ResolveDisputeWith(OneOf({ReputationBy("guestProfile"), ReputationBy("hostProfile")},
                           GuiltyReputation),
                     Closed("escrowTokenAccount", TokenAccount, {EscrowTokensOf("booking")}))

\* NoFaultFound: the handler uses neither account, so that any reputation
\* and any token account will do, and both stay as they are.
ResolveWithoutFault ==
  ResolveDisputeWith(GuiltyReputation, Mut("escrowTokenAccount", TokenAccount, {}))

CloseDispute ==
  <<Closed("dispute", DisputeAccount, {DisputeOf("booking")}), BookingRule,
    PartyRule("guestProfile", "guest"), PartyRule("hostProfile", "host"),
    OneOf({Held("guestProfile", "authority"), Held("hostProfile", "authority")},
          Mut("openerWallet", SignerType, {})),
    GlobalConfigRule, AuthorityRule, CoreProgramRule, EscrowProgramRule>>

Rules ==
  [addAdmin |-> AddAdmin, closeDispute |-> CloseDispute, deleteAdmin |-> DeleteAdmin,
   escalateDispute |-> EscalateDispute, initializeConfig |-> InitializeConfig,
   linkEvidente |-> LinkEvidence, openDispute |-> OpenDispute,
   resolveDispute |-> ResolveDispute, solveDisputeBeforeAdmin |-> SolveDisputeBeforeAdmin]
=============================================================================
