-------------------------- MODULE TreasuryAccounts --------------------------
(***************************************************************************)
(* The accounts of the instructions of programs/stayke-treasury.           *)
(***************************************************************************)
EXTENDS AccountRules

TreasuryRule(name) == Ro(name, TreasuryConfigAcc, {TreasuryConfigPda})

InitializeTreasury ==
  <<MutSigns("authority", {}), New("config", TreasuryConfigAcc, {TreasuryConfigPda}),
    Unchecked("treasuryPda", {TreasuryPda}), New("treasuryVault", TokenAccount, {TreasuryVaultPda}),
    MintRule("usdcMint"), GlobalConfigRule, TokenRule, SystemRule>>

\* The token program checks that the signer is the authority of the account
\* the deposit is taken from.
DepositGuarantee ==
  <<MutSigns("signer", {}), TreasuryRule("config"), GlobalConfigRule,
    Mut("senderTokenAccount", TokenAccount, {TokensOfSigner("signer")}),
    Mut("treasuryVault", TokenAccount, {Held("config", "treasuryVault")}), MintRule("usdcMint"),
    TokenRule, Mut("userProfile", UserProfile, {ProfileOf("signer")}),
    Unchecked("cpiAuthority", {CpiAuthority("treasury")}),
    ProgramRule("staykeCoreProgram", "core")>>

WithdrawGuarantee ==
  <<MutSigns("signer", {}), TreasuryRule("config"), GlobalConfigRule,
    Mut("treasuryVault", TokenAccount, {Held("config", "treasuryVault")}),
    Unchecked("treasuryPda", {TreasuryPda}), Mut("userTokenAccount", TokenAccount, {}),
    MintRule("usdcMint"), TokenRule, Mut("userProfile", UserProfile, {ProfileOf("signer")}),
    Unchecked("cpiAuthority", {CpiAuthority("treasury")}),
    ProgramRule("staykeCoreProgram", "core")>>

PenalizeTransferCpi ==
  <<Callers({"disputes", "escrow"}), TreasuryRule("config"), GlobalConfigRule,
    Mut("treasuryVault", TokenAccount, {Held("config", "treasuryVault")}),
    Unchecked("treasuryPda", {TreasuryPda}), Mut("destinationTokenAccount", TokenAccount, {}),
    MintRule("usdcMint"), TokenRule>>

Rules ==
  [cpiPenalizeTransfer |-> PenalizeTransferCpi, depositGuarantee |-> DepositGuarantee,
   initializeTreasury |-> InitializeTreasury, withdrawGuarantee |-> WithdrawGuarantee]
=============================================================================
