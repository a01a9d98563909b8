----------------------------- MODULE Addresses -----------------------------
(***************************************************************************)
(* Account addresses, and the derivations from which both sides compute    *)
(* them: the generated clients when they fill in a default, the programs   *)
(* when they check an account.  A program-derived address is a hash of a   *)
(* program id and of seeds; it is modelled by those themselves, so that    *)
(* two addresses are equal exactly when program and seeds are.             *)
(***************************************************************************)
EXTENDS Naturals, Sequences

CONSTANT Year       \* the calendar year of a timestamp

Address(program, seeds) == [program |-> program, seeds |-> seeds]

\* The null of the client's account table.
None == Address("none", <<>>)

\* Addresses which are no program's derivation: a key pair, a deployed
\* program, the one mint, a wallet's token account.
Wallet(name) == Address("wallet", <<<<"name", name>>>>)
Deployed(name) == Address("program", <<<<"name", name>>>>)
TokensOf(owner) == Address("tokens", <<<<"key", owner>>>>)
Mint == Address("mint", <<>>)

-----------------------------------------------------------------------------
(***************************************************************************)
(* A derivation names a program and symbolic seeds.  Key reads an account  *)
(* of the instruction, Arg an argument, Field the data of an account; an   *)
(* encoding fixes the bytes: "i64", "u16" and "id" are the value's own,    *)
(* "year" and "nextYear" the u32 of a timestamp's calendar year.           *)
(***************************************************************************)
Lit(text) == <<"lit", text>>
Key(account) == <<"key", account>>
Arg(encoding, name) == <<"arg", encoding, name>>
Field(encoding, account, field) == <<"field", encoding, account, field>>

Derivation(program, seeds) == [program |-> program, seeds |-> seeds]

\* A fixed address: of a deployed program.
Fixed(name) == Derivation("program", <<<<"name", name>>>>)

\* The address a field of an account holds.
Held(account, field) == Derivation("held", <<Field("key", account, field)>>)

Encode(encoding, value) ==
  CASE encoding = "year" -> <<"u32", Year[value]>>
    [] encoding = "nextYear" -> <<"u32", Year[value] + 1>>
    [] OTHER -> <<encoding, value>>

-----------------------------------------------------------------------------
(***************************************************************************)
(* What an account holds, as far as it follows from where it is: a program *)
(* only creates it there with these contents.                              *)
(***************************************************************************)
Literal(a) ==
  LET found == {i \in DOMAIN a.seeds : a.seeds[i][1] = "lit"}
  IN IF found = {} THEN "" ELSE a.seeds[CHOOSE i \in found : TRUE][2]

\* An account's type: the owner program and, of a derived one, its literal.
Type(a) == <<a.program, Literal(a)>>

Seed(a, i) == a.seeds[i][2]

\* The UserProfile of the owner of a listing.
Owner(listing) == Seed(listing, 2)

PlatformVault == Address("config", <<Lit("platform_vault_token")>>)
TreasuryVault == Address("treasury", <<Lit("treasury_vault")>>)

\* The authority which initialised the platform and its registries.
Root == Wallet("root")

Data(a, field) ==
  CASE field = "property" -> Seed(a, 2)             \* Booking
    [] field = "guest" -> Seed(a, 3)
    [] field = "checkIn" -> Seed(a, 4)
    [] field = "host" -> Owner(Seed(a, 2))
    [] field = "booking" -> Seed(a, 2)              \* DisputeAccount
    [] field = "listingId" -> Seed(a, 3)            \* Listing
    [] field = "authority" /\ Len(a.seeds) > 1 -> Seed(a, 2)     \* profiles
    [] field = "authority" /\ Len(a.seeds) <= 1 -> Root         \* the configurations
    [] field = "platformVault" -> PlatformVault     \* GlobalConfig
    [] field = "usdcMint" -> Mint
    [] field = "treasuryVault" -> TreasuryVault     \* TreasuryConfig

-----------------------------------------------------------------------------
SeedValue(seed, accounts, args) ==
  CASE seed[1] \in {"lit", "name"} -> seed
    [] seed[1] = "key" -> <<"key", accounts[seed[2]]>>
    [] seed[1] = "arg" -> Encode(seed[2], args[seed[3]])
    [] seed[1] = "field" -> Encode(seed[2], Data(accounts[seed[3]], seed[4]))

\* The accounts a client's derivation reads.
Reads(d) == {d.seeds[i][2] : i \in {j \in DOMAIN d.seeds : d.seeds[j][1] = "key"}}

\* getProgramDerivedAddress, and Pubkey::find_program_address.
Derive(d, accounts, args) ==
  IF d.program = "held"
    THEN Data(accounts[d.seeds[1][3]], d.seeds[1][4])
    ELSE Address(d.program,
                 [i \in DOMAIN d.seeds |-> SeedValue(d.seeds[i], accounts, args)])
=============================================================================
