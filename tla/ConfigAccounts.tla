--------------------------- MODULE ConfigAccounts ---------------------------
(***************************************************************************)
(* The accounts of the instructions of programs/stayke-config.             *)
(***************************************************************************)
EXTENDS AccountRules

InitializeConfig ==
  <<New("globalConfig", GlobalConfigAcc, {GlobalConfigPda}), MutSigns("authority", {}),
    Unchecked("platformVaultPda", {VaultAuthorityPda}), New("platformVault", TokenAccount, {VaultPda}),
    Ro("usdcMint", MintType, {}), TokenRule, SystemRule>>

WithdrawFees ==
  <<GlobalConfigRule, Signs("authority", {Held("globalConfig", "authority")}),
    Unchecked("platformVaultPda", {VaultAuthorityPda}), VaultRule("platformVault"),
    Mut("destinationTokenAccount", TokenAccount, {}), Ro("usdcMint", MintType, {}), TokenRule>>

Rules == [initializeConfig |-> InitializeConfig, withdrawFees |-> WithdrawFees]
=============================================================================
