---------------------------- MODULE ConfigClient ----------------------------
(***************************************************************************)
(* The generated client of the configuration and fees program:             *)
(* packages/stayke_config. Of each instruction, the asynchronous builder,  *)
(* the synchronous one, and the accounts its parser reads in order.        *)
(***************************************************************************)
EXTENDS Builders

\* pdas of the package.
FindGlobalConfigPda == Derivation("config", <<Lit("global_config")>>)
FindPlatformVaultPda == Derivation("config", <<Lit("platform_vault_token")>>)
FindPlatformVaultPdaPda == Derivation("config", <<Lit("platform_vault")>>)

-----------------------------------------------------------------------------
InitializeConfig ==
  Builder("config", "initialize_config",
    <<W("globalConfig"), WS("authority"), R("platformVaultPda"), W("platformVault"),
      R("usdcMint"), R("tokenProgram"), R("systemProgram")>>,
    <<"minimumDeposit", "feeBps", "freeOps", "core", "escrow", "disputes", "treasury">>,
    <<Default("globalConfig", FindGlobalConfigPda),
      Default("platformVaultPda", FindPlatformVaultPdaPda),
      Default("platformVault", FindPlatformVaultPda), Default("tokenProgram", Fixed("token")),
      Default("systemProgram", Fixed("system"))>>)
InitializeConfigSync == FixedOnly(InitializeConfig)
InitializeConfigParse ==
  <<"globalConfig", "authority", "platformVaultPda", "platformVault", "usdcMint", "tokenProgram",
    "systemProgram">>

WithdrawFees ==
  Builder("config", "withdraw_fees",
    <<R("globalConfig"), RS("authority"), R("platformVaultPda"), W("platformVault"),
      W("destinationTokenAccount"), R("usdcMint"), R("tokenProgram")>>,
    <<"amount">>,
    <<Default("globalConfig", FindGlobalConfigPda),
      Default("platformVaultPda", FindPlatformVaultPdaPda),
      Default("tokenProgram", Fixed("token"))>>)
WithdrawFeesSync == FixedOnly(WithdrawFees)
WithdrawFeesParse ==
  <<"globalConfig", "authority", "platformVaultPda", "platformVault", "destinationTokenAccount",
    "usdcMint", "tokenProgram">>

-----------------------------------------------------------------------------
\* The builders the client plugin offers.
Plugin ==
  [initializeConfig |-> InitializeConfig, withdrawFees |-> WithdrawFees]

\* The synchronous ones, which the package also exports.
SyncBuilders ==
  [initializeConfig |-> InitializeConfigSync, withdrawFees |-> WithdrawFeesSync]

\* By discriminator, the instruction some data stands for.
Identify ==
  [initialize_config |-> "initializeConfig", withdraw_fees |-> "withdrawFees"]

\* The accounts each parser reads, one by one.
Parsers ==
  [initializeConfig |-> InitializeConfigParse, withdrawFees |-> WithdrawFeesParse]
=============================================================================
