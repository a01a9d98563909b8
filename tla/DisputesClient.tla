--------------------------- MODULE DisputesClient ---------------------------
(***************************************************************************)
(* The generated client of the disputes program:                           *)
(* packages/stayke_disputes. Of each instruction, the asynchronous         *)
(* builder, the synchronous one, and the accounts its parser reads in      *)
(* order.                                                                  *)
(***************************************************************************)
EXTENDS Builders

\* pdas of the package.
FindCpiAuthorityPda == Derivation("disputes", <<Lit("cpi_authority")>>)
FindDisputeConfigPda == Derivation("disputes", <<Lit("dispute_config")>>)
FindDisputePda(booking) == Derivation("disputes", <<Lit("dispute"), Key(booking)>>)

-----------------------------------------------------------------------------
AddAdmin ==
  Builder("disputes", "add_admin",
    <<RS("admin"), W("disputeConfig")>>,
    <<"admin">>,
    <<Default("disputeConfig", FindDisputeConfigPda)>>)
AddAdminSync == FixedOnly(AddAdmin)
AddAdminParse ==
  <<"admin", "disputeConfig">>

CloseDispute ==
  Builder("disputes", "close_dispute",
    <<W("dispute"), W("booking"), W("guestProfile"), W("hostProfile"), W("openerWallet"),
      R("globalConfig"), R("cpiAuthority"), R("staykeCoreProgram"), R("staykeEscrowProgram")>>,
    <<>>,
    <<Default("dispute", FindDisputePda("booking")), Default("globalConfig", GlobalConfig),
      Default("cpiAuthority", FindCpiAuthorityPda), Default("staykeCoreProgram", Fixed("core")),
      Default("staykeEscrowProgram", Fixed("escrow"))>>)
CloseDisputeSync == FixedOnly(CloseDispute)
CloseDisputeParse ==
  <<"dispute", "booking", "guestProfile", "hostProfile", "openerWallet", "globalConfig",
    "cpiAuthority", "staykeCoreProgram", "staykeEscrowProgram">>

DeleteAdmin ==
  Builder("disputes", "delete_admin",
    <<RS("admin"), W("disputeConfig")>>,
    <<"admin">>,
    <<Default("disputeConfig", FindDisputeConfigPda)>>)
DeleteAdminSync == FixedOnly(DeleteAdmin)
DeleteAdminParse ==
  <<"admin", "disputeConfig">>

\* Mutant: the dispute is not marked writable.
EscalateDisputeReadOnly ==
  Builder("disputes", "escalate_dispute", <<R("dispute")>>, <<>>, <<>>)

EscalateDispute ==
  Builder("disputes", "escalate_dispute",
    <<W("dispute")>>,
    <<>>,
    <<>>)
EscalateDisputeParse ==
  <<"dispute">>

InitializeConfig ==
  Builder("disputes", "initialize_config",
    <<WS("authority"), W("config"), R("systemProgram")>>,
    <<>>,
    <<Default("config", FindDisputeConfigPda), Default("systemProgram", Fixed("system"))>>)
InitializeConfigSync == FixedOnly(InitializeConfig)
InitializeConfigParse ==
  <<"authority", "config", "systemProgram">>

LinkEvidente ==
  Builder("disputes", "link_evidente",
    <<RS("signer"), R("dispute"), R("booking"), R("userProfile")>>,
    <<"evidence">>,
    <<Default("dispute", FindDisputePda("booking")),
      Default("userProfile", UserProfileOf("signer"))>>)
LinkEvidenteSync == FixedOnly(LinkEvidente)
\* Mutant: reads two accounts in the wrong order.
LinkEvidenteParseSwapped == <<"signer", "booking", "dispute", "userProfile">>

LinkEvidenteParse ==
  <<"signer", "dispute", "booking", "userProfile">>

OpenDispute ==
  Builder("disputes", "open_dispute",
    <<WS("payer"), RS("initiator"), R("initiatorProfile"), W("booking"), W("dispute"),
      R("cpiAuthority"), R("globalConfig"), R("staykeEscrowProgram"), R("systemProgram")>>,
    <<>>,
    <<Default("initiatorProfile", UserProfileOf("initiator")),
      Default("dispute", FindDisputePda("booking")), Default("cpiAuthority", FindCpiAuthorityPda),
      Default("globalConfig", GlobalConfig), Default("staykeEscrowProgram", Fixed("escrow")),
      Default("systemProgram", Fixed("system"))>>)
OpenDisputeSync == FixedOnly(OpenDispute)
OpenDisputeParse ==
  <<"payer", "initiator", "initiatorProfile", "booking", "dispute", "cpiAuthority",
    "globalConfig", "staykeEscrowProgram", "systemProgram">>

ResolveDispute ==
  Builder("disputes", "resolve_dispute",
    <<WS("admin"), R("config"), W("dispute"), W("booking"), W("hostProfile"), W("guestProfile"),
      W("guiltyReputation"), R("globalConfig"), R("cpiAuthority"), W("escrowTokenAccount"),
      W("hostTokenAccount"), W("guestTokenAccount"), W("platformVaultTokenAccount"),
      W("usdcMint"), W("treasuryVault"), R("treasuryPda"), R("configTreasury"),
      R("staykeCoreProgram"), R("staykeTreasuryProgram"), R("staykeEscrowProgram"),
      R("tokenProgram")>>,
    <<"outcome">>,
    <<Default("config", FindDisputeConfigPda), Default("dispute", FindDisputePda("booking")),
      Default("globalConfig", GlobalConfig), Default("cpiAuthority", FindCpiAuthorityPda),
      Default("treasuryPda", TreasuryAuthority), Default("configTreasury", TreasuryConfig),
      Default("staykeCoreProgram", Fixed("core")),
      Default("staykeTreasuryProgram", Fixed("treasury")),
      Default("staykeEscrowProgram", Fixed("escrow")), Default("tokenProgram", Fixed("token"))>>)
ResolveDisputeSync == FixedOnly(ResolveDispute)
ResolveDisputeParse ==
  <<"admin", "config", "dispute", "booking", "hostProfile", "guestProfile", "guiltyReputation",
    "globalConfig", "cpiAuthority", "escrowTokenAccount", "hostTokenAccount", "guestTokenAccount",
    "platformVaultTokenAccount", "usdcMint", "treasuryVault", "treasuryPda", "configTreasury",
    "staykeCoreProgram", "staykeTreasuryProgram", "staykeEscrowProgram", "tokenProgram">>

SolveDisputeBeforeAdmin ==
  Builder("disputes", "solve_dispute_before_admin",
    <<WS("initiator"), R("initiatorProfile"), W("dispute"), W("booking"), R("cpiAuthority"),
      R("globalConfig"), R("staykeEscrowProgram")>>,
    <<>>,
    <<Default("initiatorProfile", UserProfileOf("initiator")),
      Default("cpiAuthority", FindCpiAuthorityPda), Default("globalConfig", GlobalConfig),
      Default("staykeEscrowProgram", Fixed("escrow"))>>)
SolveDisputeBeforeAdminSync == FixedOnly(SolveDisputeBeforeAdmin)
SolveDisputeBeforeAdminParse ==
  <<"initiator", "initiatorProfile", "dispute", "booking", "cpiAuthority", "globalConfig",
    "staykeEscrowProgram">>

-----------------------------------------------------------------------------
\* The builders the client plugin offers.
Plugin ==
  [addAdmin |-> AddAdmin, closeDispute |-> CloseDispute, deleteAdmin |-> DeleteAdmin,
    escalateDispute |-> EscalateDispute, initializeConfig |-> InitializeConfig,
    linkEvidente |-> LinkEvidente, openDispute |-> OpenDispute, resolveDispute |-> ResolveDispute,
    solveDisputeBeforeAdmin |-> SolveDisputeBeforeAdmin]

\* The synchronous ones, which the package also exports.
SyncBuilders ==
  [addAdmin |-> AddAdminSync, closeDispute |-> CloseDisputeSync, deleteAdmin |-> DeleteAdminSync,
    escalateDispute |-> EscalateDispute, initializeConfig |-> InitializeConfigSync,
    linkEvidente |-> LinkEvidenteSync, openDispute |-> OpenDisputeSync,
    resolveDispute |-> ResolveDisputeSync,
    solveDisputeBeforeAdmin |-> SolveDisputeBeforeAdminSync]

\* By discriminator, the instruction some data stands for.
Identify ==
  [add_admin |-> "addAdmin", close_dispute |-> "closeDispute", delete_admin |-> "deleteAdmin",
    escalate_dispute |-> "escalateDispute", initialize_config |-> "initializeConfig",
    link_evidente |-> "linkEvidente", open_dispute |-> "openDispute",
    resolve_dispute |-> "resolveDispute",
    solve_dispute_before_admin |-> "solveDisputeBeforeAdmin"]

\* The accounts each parser reads, one by one.
Parsers ==
  [addAdmin |-> AddAdminParse, closeDispute |-> CloseDisputeParse,
    deleteAdmin |-> DeleteAdminParse, escalateDispute |-> EscalateDisputeParse,
    initializeConfig |-> InitializeConfigParse, linkEvidente |-> LinkEvidenteParse,
    openDispute |-> OpenDisputeParse, resolveDispute |-> ResolveDisputeParse,
    solveDisputeBeforeAdmin |-> SolveDisputeBeforeAdminParse]
=============================================================================
