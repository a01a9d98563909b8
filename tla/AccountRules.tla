---------------------------- MODULE AccountRules ----------------------------
(***************************************************************************)
(* What a program demands of the accounts of an instruction before, and in *)
(* a few cases within, its handler: the #[derive(Accounts)] structs of the *)
(* programs as data, and the check Anchor and the runtime make of a        *)
(* transaction against them.  Of an instruction's conditions the rules     *)
(* hold those on WHICH accounts it is given, and with which privileges;    *)
(* status, time, bans and amounts are the matter of Escrow and Disputes.   *)
(***************************************************************************)
EXTENDS Addresses, FiniteSets

AnyType == {}
SignerType == {<<"wallet", "">>}
TokenAccount ==
  {<<"tokens", "">>, <<"escrow", "escrow">>, <<"config", "platform_vault_token">>,
   <<"treasury", "treasury_vault">>}
MintType == {<<"mint", "">>}
UserProfile == {<<"core", "user_profile">>}
ReputationProfile == {<<"core", "reputation_profile">>}
Identity == {<<"core", "identity">>}
ConfigAcc == {<<"core", "config">>}
Listing == {<<"core", "listing">>}
Booking == {<<"escrow", "booking">>}
BookingDays == {<<"escrow", "booking_days">>}
EscrowConfig == {<<"escrow", "escrow_config">>}
DisputeAccount == {<<"disputes", "dispute">>}
DisputeConfig == {<<"disputes", "dispute_config">>}
GlobalConfigAcc == {<<"config", "global_config">>}
TreasuryConfigAcc == {<<"treasury", "treasury_config">>}

-----------------------------------------------------------------------------
(***************************************************************************)
(* One account of an instruction: "at" are the addresses it must have, and *)
(* "oneOf", unless empty, addresses of which it must have one.  "life" is  *)
(* "old" for an account that must exist, "new" for init, "needed" for      *)
(* init_if_needed, "closed" for one that is closed, "any" for an unchecked *)
(* one.                                                                    *)
(***************************************************************************)
Rule(name, type, signer, mut, life, at) ==
  [name |-> name, type |-> type, signer |-> signer, mut |-> mut, life |-> life,
   at |-> at, oneOf |-> {}]

OneOf(derivations, rule) == [rule EXCEPT !.oneOf = derivations]

Signs(name, at) == Rule(name, AnyType, TRUE, FALSE, "any", at)
MutSigns(name, at) == Rule(name, AnyType, TRUE, TRUE, "any", at)
Ro(name, type, at) == Rule(name, type, FALSE, FALSE, "old", at)
Mut(name, type, at) == Rule(name, type, FALSE, TRUE, "old", at)
New(name, type, at) == Rule(name, type, FALSE, TRUE, "new", at)
Needed(name, type, at) == Rule(name, type, FALSE, TRUE, "needed", at)
Closed(name, type, at) == Rule(name, type, FALSE, TRUE, "closed", at)
Unchecked(name, at) == Rule(name, AnyType, FALSE, FALSE, "any", at)

\* The wallet to which a closed account's lamports go: the runtime needs it
\* writable, whatever the struct says of it.
CreditedSigns(name, at) == [Signs(name, at) EXCEPT !.mut = TRUE]

-----------------------------------------------------------------------------
\* The seeds of the programs' accounts (constants.rs of each program).
ProfileOf(wallet) == Derivation("core", <<Lit("user_profile"), Key(wallet)>>)
ProfileBy(account) ==
  Derivation("core", <<Lit("user_profile"), Field("key", account, "authority")>>)
ReputationBy(account) ==
  Derivation("core", <<Lit("reputation_profile"), Field("key", account, "authority")>>)
ReputationOf(wallet) == Derivation("core", <<Lit("reputation_profile"), Key(wallet)>>)
ListingAt(profile, listingId) ==
  Derivation("core", <<Lit("listing"), Key(profile), listingId>>)
SameListing(profile, listing) == ListingAt(profile, Field("u16", listing, "listingId"))
IdentityAt(id) == Derivation("core", <<Arg("id", id), Lit("identity")>>)
CoreConfigPda == Derivation("core", <<Lit("config")>>)
BookingOf(property, guest, checkIn) ==
  Derivation("escrow", <<Lit("booking"), property, guest, checkIn>>)
\* The address a booking has by its own data.
BookingBy(booking) ==
  BookingOf(Field("key", booking, "property"), Field("key", booking, "guest"),
            Field("i64", booking, "checkIn"))
DaysOf(property, year) == Derivation("escrow", <<Lit("booking_days"), property, year>>)
DaysBy(booking) ==
  DaysOf(Field("key", booking, "property"), Field("year", booking, "checkIn"))
NextDaysBy(booking) ==
  DaysOf(Field("key", booking, "property"), Field("nextYear", booking, "checkIn"))
EscrowTokensOf(booking) == Derivation("escrow", <<Lit("escrow"), Key(booking)>>)
EscrowConfigPda == Derivation("escrow", <<Lit("escrow_config")>>)
DisputeOf(booking) == Derivation("disputes", <<Lit("dispute"), Key(booking)>>)
DisputeBy(dispute) ==
  Derivation("disputes", <<Lit("dispute"), Field("key", dispute, "booking")>>)
DisputeConfigPda == Derivation("disputes", <<Lit("dispute_config")>>)
GlobalConfigPda == Derivation("config", <<Lit("global_config")>>)
VaultAuthorityPda == Derivation("config", <<Lit("platform_vault")>>)
VaultPda == Derivation("config", <<Lit("platform_vault_token")>>)
TreasuryConfigPda == Derivation("treasury", <<Lit("treasury_config")>>)
TreasuryPda == Derivation("treasury", <<Lit("treasury")>>)
TreasuryVaultPda == Derivation("treasury", <<Lit("treasury_vault")>>)
CpiAuthority(program) == Derivation(program, <<Lit("cpi_authority")>>)

\* A token account whose authority is a wallet, or the owner of a profile.
TokensOfSigner(wallet) == Derivation("tokens", <<Key(wallet)>>)
TokensBy(profile) == Derivation("tokens", <<Field("key", profile, "authority")>>)

-----------------------------------------------------------------------------
\* Accounts that most instructions share.
GlobalConfigRule == Ro("globalConfig", GlobalConfigAcc, {GlobalConfigPda})
ProgramRule(name, program) == Unchecked(name, {Fixed(program)})
SystemRule == ProgramRule("systemProgram", "system")
TokenRule == ProgramRule("tokenProgram", "token")
MintRule(name) == Ro(name, MintType, {Held("globalConfig", "usdcMint")})
MutMintRule(name) == Mut(name, MintType, {Held("globalConfig", "usdcMint")})
VaultRule(name) == Mut(name, TokenAccount, {Held("globalConfig", "platformVault")})

\* Mutant: any signer will do.
CallersUnchecked(programs) == Signs("cpiAuthority", {})

\* assert_cpi_authority: the signer is the authority of an allowed program.
Callers(programs) ==
  OneOf({CpiAuthority(p) : p \in programs}, Signs("cpiAuthority", {}))

-----------------------------------------------------------------------------
(***************************************************************************)
(* A transaction with one instruction: its metas, and what the runtime     *)
(* makes of them.  An account is writable when any meta, or the fee        *)
(* payer's place, makes it so; only a key pair can sign.                   *)
(***************************************************************************)
Writable(tx) ==
  {tx.metas[i].address : i \in {j \in DOMAIN tx.metas : tx.metas[j].writable}}
    \cup {tx.feePayer}

Signers(tx) ==
  {tx.metas[i].address : i \in {j \in DOMAIN tx.metas : tx.metas[j].signer}}

Signable(tx) == \A a \in Signers(tx) : Type(a) = <<"wallet", "">>

\* The accounts by their names in the struct: they are matched by position.
Bind(rules, tx) ==
  [n \in {rules[i].name : i \in DOMAIN rules} |->
     tx.metas[CHOOSE i \in DOMAIN rules : rules[i].name = n].address]

\* Accounts no program of the platform creates.
Outside(a) == a.program \in {"wallet", "program", "tokens", "mint"}

Lives(rule, a, store) ==
  CASE rule.life \in {"old", "closed"} -> /\ Outside(a) \/ a \in store
                                          /\ Type(a) \in rule.type
    [] rule.life = "new" -> a \notin store
    [] OTHER -> TRUE

Privileged(rules, tx) ==
  \A i \in DOMAIN rules :
    /\ rules[i].signer => tx.metas[i].address \in Signers(tx)
    /\ rules[i].mut => tx.metas[i].address \in Writable(tx)

WellPlaced(rules, tx) ==
  LET accounts == Bind(rules, tx)
  IN \A i \in DOMAIN rules :
       LET a == tx.metas[i].address
       IN /\ \A d \in rules[i].at : a = Derive(d, accounts, tx.args)
          /\ rules[i].oneOf # {} =>
               \E d \in rules[i].oneOf : a = Derive(d, accounts, tx.args)

Accepts(rules, tx, store) ==
  /\ Len(tx.metas) >= Len(rules)
  /\ Signable(tx)
  /\ Privileged(rules, tx)
  /\ \A i \in DOMAIN rules : Lives(rules[i], tx.metas[i].address, store)
  /\ WellPlaced(rules, tx)

-----------------------------------------------------------------------------
AddressesOf(rules, tx, lives) ==
  {tx.metas[i].address : i \in {j \in DOMAIN rules : rules[j].life \in lives}}

Effect(rules, tx, store) ==
  (store \cup AddressesOf(rules, tx, {"new", "needed"}))
    \ AddressesOf(rules, tx, {"closed"})
=============================================================================
