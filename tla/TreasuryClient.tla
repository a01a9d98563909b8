--------------------------- MODULE TreasuryClient ---------------------------
(***************************************************************************)
(* The generated client of the guarantees program:                         *)
(* packages/stayke_treasury. Of each instruction, the asynchronous         *)
(* builder, the synchronous one, and the accounts its parser reads in      *)
(* order.                                                                  *)
(***************************************************************************)
EXTENDS Builders

\* pdas of the package.
FindConfigPda == Derivation("treasury", <<Lit("treasury_config")>>)
FindCpiAuthorityPda == Derivation("treasury", <<Lit("cpi_authority")>>)
FindTreasuryPdaPda == Derivation("treasury", <<Lit("treasury")>>)
FindTreasuryVaultPda == Derivation("treasury", <<Lit("treasury_vault")>>)
\* The program id is this package's own, not that of the program which owns
\* the profiles.
FindUserProfilePda(signer) ==
  Derivation("treasury", <<Lit("user_profile"), Key(signer)>>)

-----------------------------------------------------------------------------
CpiPenalizeTransfer ==
  Builder("treasury", "cpi_penalize_transfer",
    <<RS("cpiAuthority"), R("config"), R("globalConfig"), W("treasuryVault"), R("treasuryPda"),
      W("destinationTokenAccount"), R("usdcMint"), R("tokenProgram")>>,
    <<"amount">>,
    <<Default("config", FindConfigPda), Default("globalConfig", GlobalConfig),
      Default("treasuryPda", FindTreasuryPdaPda), Default("tokenProgram", Fixed("token"))>>)
CpiPenalizeTransferSync == FixedOnly(CpiPenalizeTransfer)
CpiPenalizeTransferParse ==
  <<"cpiAuthority", "config", "globalConfig", "treasuryVault", "treasuryPda",
    "destinationTokenAccount", "usdcMint", "tokenProgram">>

DepositGuarantee ==
  Builder("treasury", "deposit_guarantee",
    <<WS("signer"), R("config"), R("globalConfig"), W("senderTokenAccount"), W("treasuryVault"),
      R("usdcMint"), R("tokenProgram"), W("userProfile"), R("cpiAuthority"),
      R("staykeCoreProgram")>>,
    <<"amount">>,
    <<Default("config", FindConfigPda), Default("globalConfig", GlobalConfig),
      Default("tokenProgram", Fixed("token")),
      Default("userProfile", FindUserProfilePda("signer")),
      Default("cpiAuthority", FindCpiAuthorityPda), Default("staykeCoreProgram", Fixed("core"))>>)
DepositGuaranteeSync == FixedOnly(DepositGuarantee)
DepositGuaranteeParse ==
  <<"signer", "config", "globalConfig", "senderTokenAccount", "treasuryVault", "usdcMint",
    "tokenProgram", "userProfile", "cpiAuthority", "staykeCoreProgram">>

InitializeTreasury ==
  Builder("treasury", "initialize_treasury",
    <<WS("authority"), W("config"), R("treasuryPda"), W("treasuryVault"), R("usdcMint"),
      R("globalConfig"), R("tokenProgram"), R("systemProgram")>>,
    <<>>,
    <<Default("config", FindConfigPda), Default("treasuryPda", FindTreasuryPdaPda),
      Default("treasuryVault", FindTreasuryVaultPda), Default("globalConfig", GlobalConfig),
      Default("tokenProgram", Fixed("token")), Default("systemProgram", Fixed("system"))>>)
InitializeTreasurySync == FixedOnly(InitializeTreasury)
InitializeTreasuryParse ==
  <<"authority", "config", "treasuryPda", "treasuryVault", "usdcMint", "globalConfig",
    "tokenProgram", "systemProgram">>

WithdrawGuarantee ==
  Builder("treasury", "withdraw_guarantee",
    <<WS("signer"), R("config"), R("globalConfig"), W("treasuryVault"), R("treasuryPda"),
      W("userTokenAccount"), R("usdcMint"), R("tokenProgram"), W("userProfile"),
      R("cpiAuthority"), R("staykeCoreProgram")>>,
    <<"amount">>,
    <<Default("config", FindConfigPda), Default("globalConfig", GlobalConfig),
      Default("treasuryPda", FindTreasuryPdaPda), Default("tokenProgram", Fixed("token")),
      Default("userProfile", FindUserProfilePda("signer")),
      Default("cpiAuthority", FindCpiAuthorityPda), Default("staykeCoreProgram", Fixed("core"))>>)
WithdrawGuaranteeSync == FixedOnly(WithdrawGuarantee)
WithdrawGuaranteeParse ==
  <<"signer", "config", "globalConfig", "treasuryVault", "treasuryPda", "userTokenAccount",
    "usdcMint", "tokenProgram", "userProfile", "cpiAuthority", "staykeCoreProgram">>

-----------------------------------------------------------------------------
\* The builders the client plugin offers.
Plugin ==
  [cpiPenalizeTransfer |-> CpiPenalizeTransfer, depositGuarantee |-> DepositGuarantee,
    initializeTreasury |-> InitializeTreasury, withdrawGuarantee |-> WithdrawGuarantee]

\* The synchronous ones, which the package also exports.
SyncBuilders ==
  [cpiPenalizeTransfer |-> CpiPenalizeTransferSync, depositGuarantee |-> DepositGuaranteeSync,
    initializeTreasury |-> InitializeTreasurySync, withdrawGuarantee |-> WithdrawGuaranteeSync]

\* By discriminator, the instruction some data stands for.
Identify ==
  [cpi_penalize_transfer |-> "cpiPenalizeTransfer", deposit_guarantee |-> "depositGuarantee",
    initialize_treasury |-> "initializeTreasury", withdraw_guarantee |-> "withdrawGuarantee"]

\* The accounts each parser reads, one by one.
Parsers ==
  [cpiPenalizeTransfer |-> CpiPenalizeTransferParse, depositGuarantee |-> DepositGuaranteeParse,
    initializeTreasury |-> InitializeTreasuryParse, withdrawGuarantee |-> WithdrawGuaranteeParse]
=============================================================================
