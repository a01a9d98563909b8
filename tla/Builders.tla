------------------------------ MODULE Builders ------------------------------
(***************************************************************************)
(* The instruction builders of the generated TypeScript clients            *)
(* (under packages), as data.  A builder lists its accounts in the order  *)
(* of the instruction, with the privileges the client asks for; the       *)
(* fields of the data; and, in the order in which the code tries them,     *)
(* the accounts it fills in when the caller gives none.                    *)
(***************************************************************************)
EXTENDS Addresses

Meta(name, writable, signer) ==
  [name |-> name, writable |-> writable, signer |-> signer]

R(name) == Meta(name, FALSE, FALSE)
W(name) == Meta(name, TRUE, FALSE)
RS(name) == Meta(name, FALSE, TRUE)
WS(name) == Meta(name, TRUE, TRUE)

Default(account, derivation) == [account |-> account, from |-> derivation]

\* The data's discriminator is the hash of the instruction's name, and is
\* named by it.
Builder(program, discriminator, accounts, args, defaults) ==
  [program |-> program, discriminator |-> discriminator, accounts |-> accounts,
   args |-> args, defaults |-> defaults]

\* The synchronous builder beside an asynchronous one: the same accounts and
\* data, but only program addresses are filled in, for which nothing is hashed.
IsFixed(default) == default.from.program = "program"
FixedOnly(builder) ==
  [builder EXCEPT !.defaults = SelectSeq(builder.defaults, IsFixed)]

-----------------------------------------------------------------------------
(***************************************************************************)
(* Derivations under another program's id, written out inside the builders *)
(* that need them.                                                         *)
(***************************************************************************)
GlobalConfig == Derivation("config", <<Lit("global_config")>>)
UserProfileOf(wallet) == Derivation("core", <<Lit("user_profile"), Key(wallet)>>)
TreasuryConfig == Derivation("treasury", <<Lit("treasury_config")>>)
TreasuryAuthority == Derivation("treasury", <<Lit("treasury")>>)
=============================================================================
