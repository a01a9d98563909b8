------------------------------ MODULE Callers ------------------------------
(***************************************************************************)
(* Who uses the generated clients, outside of this repository: callers     *)
(* with a stay in mind, who ask a builder for one of the instructions.     *)
(* They mean certain accounts, leave out those the builder fills in, and   *)
(* at times give a wrong one: another stay's, a relayer's as the payer,    *)
(* a program's authority as their own, or none.                            *)
(***************************************************************************)
EXTENDS AccountRules, Builders

CONSTANTS
  Stay,           \* by name: [guest, host, listingId, checkIn, crossYear]
  Visited,        \* the stays callers act on; the others are only mixed up
  Asked,          \* the instructions, and
  Kinds           \* the kinds of builders, "plugin" or "sync", they ask for

ConfigC == INSTANCE ConfigClient
CoreC == INSTANCE CoreClient
DisputesC == INSTANCE DisputesClient
EscrowC == INSTANCE EscrowClient
TreasuryC == INSTANCE TreasuryClient

ConfigA == INSTANCE ConfigAccounts
CoreA == INSTANCE CoreAccounts
DisputesA == INSTANCE DisputesAccounts
EscrowA == INSTANCE EscrowAccounts
TreasuryA == INSTANCE TreasuryAccounts

\* The packages and the programs, by program.
Plugins ==
  [config |-> ConfigC!Plugin, core |-> CoreC!Plugin, disputes |-> DisputesC!Plugin,
   escrow |-> EscrowC!Plugin, treasury |-> TreasuryC!Plugin]
Syncs ==
  [config |-> ConfigC!SyncBuilders, core |-> CoreC!SyncBuilders,
   disputes |-> DisputesC!SyncBuilders, escrow |-> EscrowC!SyncBuilders,
   treasury |-> TreasuryC!SyncBuilders]
Identifies ==
  [config |-> ConfigC!Identify, core |-> CoreC!Identify, disputes |-> DisputesC!Identify,
   escrow |-> EscrowC!Identify, treasury |-> TreasuryC!Identify]
Parsed ==
  [config |-> ConfigC!Parsers, core |-> CoreC!Parsers, disputes |-> DisputesC!Parsers,
   escrow |-> EscrowC!Parsers, treasury |-> TreasuryC!Parsers]
Demands ==
  [config |-> ConfigA!Rules, core |-> CoreA!Rules, disputes |-> DisputesA!Rules,
   escrow |-> EscrowA!Rules, treasury |-> TreasuryA!Rules]

Programs == DOMAIN Plugins
Callable == {"core", "disputes", "escrow", "treasury"}

-----------------------------------------------------------------------------
(***************************************************************************)
(* The accounts a caller means by their names: functions from names to     *)
(* accounts, of which the first that knows a name counts.                  *)
(***************************************************************************)
FirstOf(sources) ==
  [n \in UNION {DOMAIN sources[i] : i \in DOMAIN sources} |->
     LET knowing == {i \in DOMAIN sources : n \in DOMAIN sources[i]}
         first == CHOOSE i \in knowing : \A j \in knowing : i <= j
     IN sources[first][n]]
Only(n, a) == [m \in {n} |-> a]

Relayer == Wallet("relayer")
Pda(d) == Derive(d, <<>>, <<>>)
ProfileAt(wallet) == Derive(ProfileOf("wallet"), [wallet |-> wallet], <<>>)
ReputationAt(wallet) == Derive(ReputationOf("wallet"), [wallet |-> wallet], <<>>)

\* What belongs to a stay, seen by one of its parties.
Belongings(stay, as) ==
  LET guest == Wallet(Stay[stay].guest)
      host == Wallet(Stay[stay].host)
      actor == IF as = "guest" THEN guest ELSE host
      other == IF as = "guest" THEN host ELSE guest
      args == [listingId |-> Stay[stay].listingId, checkIn |-> Stay[stay].checkIn, id |-> actor]
      profiles == [guestProfile |-> ProfileAt(guest), hostProfile |-> ProfileAt(host)]
      listing == Derive(ListingAt("hostProfile", Arg("u16", "listingId")), profiles, args)
      placed == FirstOf(<<profiles, [property |-> listing]>>)
      booking == Derive(BookingOf(Key("property"), Key("guestProfile"), Arg("i64", "checkIn")),
                        placed, args)
      days(year) == Derive(DaysOf(Key("property"), Arg(year, "checkIn")), placed, args)
      ofBooking(d) == Derive(d, [booking |-> booking], <<>>)
  IN FirstOf(<<placed,
        [args |-> args, actor |-> actor, listing |-> listing, booking |-> booking,
         bookingDays |-> days("year"), bookingDaysNext |-> days("nextYear"),
         dispute |-> ofBooking(DisputeOf("booking")),
         escrowTokenAccount |-> ofBooking(EscrowTokensOf("booking")),
         guest |-> profiles.guestProfile, client |-> guest, host |-> host,
         clientProfile |-> profiles.guestProfile, clientReputation |-> ReputationAt(guest),
         guestReputation |-> ReputationAt(guest), hostReputation |-> ReputationAt(host),
         guestTokenAccount |-> TokensOf(guest), clientTokenAccount |-> TokensOf(guest),
         hostTokenAccount |-> TokensOf(host),
         identity |-> Derive(IdentityAt("id"), <<>>, args)],
        [n \in {"caller", "signer", "initiator", "openerWallet", "authority", "payer"} |-> actor],
        [n \in {"userProfile", "initiatorProfile", "guiltyProfile"} |-> ProfileAt(actor)],
        [n \in {"reputationProfile", "guiltyReputation"} |-> ReputationAt(actor)],
        [n \in {"senderTokenAccount", "userTokenAccount", "guiltyTokenAccount"} |->
           TokensOf(actor)],
        [victimProfile |-> ProfileAt(other), victimTokenAccount |-> TokensOf(other)]>>)

\* What the platform has once.
Shared ==
  [globalConfig |-> Pda(GlobalConfigPda), escrowConfig |-> Pda(EscrowConfigPda),
   disputeConfig |-> Pda(DisputeConfigPda), treasuryConfig |-> Pda(TreasuryConfigPda),
   configTreasury |-> Pda(TreasuryConfigPda), platformVaultPda |-> Pda(VaultAuthorityPda),
   platformVault |-> PlatformVault, platformVaultTokenAccount |-> PlatformVault,
   treasuryPda |-> Pda(TreasuryPda), treasuryVault |-> TreasuryVault,
   mint |-> Mint, usdcMint |-> Mint, admin |-> Root, destinationTokenAccount |-> TokensOf(Root),
   systemProgram |-> Deployed("system"), tokenProgram |-> Deployed("token"),
   staykeCore |-> Deployed("core"), staykeCoreProgram |-> Deployed("core"),
   staykeEscrowProgram |-> Deployed("escrow"), staykeTreasuryProgram |-> Deployed("treasury")]

\* What a name stands for in one program only.
Local(program) ==
  [config |-> CASE program = "core" -> Pda(CoreConfigPda)
                [] program = "disputes" -> Pda(DisputeConfigPda)
                [] OTHER -> Pda(TreasuryConfigPda),
   cpiAuthority |-> Pda(CpiAuthority(program))]

\* The platform's instructions: its authority sends them.
RootOps ==
  {"initializeConfig", "initializeEscrow", "initializeTreasury", "withdrawFees",
   "initIdentity", "linkIdentity", "addAdmin", "deleteAdmin", "resolveDispute"}
RootSigns(op) == IF op \in RootOps THEN [authority |-> Root, payer |-> Root] ELSE <<>>
GuestSigns(op, stay) ==
  IF op = "guestReview" THEN [guest |-> Wallet(Stay[stay].guest)] ELSE <<>>

Means(program, op, stay, as) ==
  FirstOf(<<RootSigns(op), GuestSigns(op, stay), Local(program), Shared, Belongings(stay, as)>>)

-----------------------------------------------------------------------------
(***************************************************************************)
(* Requests, by the program, the instruction, the kind of builder, the     *)
(* stay, the role of the caller and what he changes of what he means.      *)
(***************************************************************************)
Ops(program) == DOMAIN Demands[program]

CrossYearOps ==
  {"createBookingCrossYear", "expireBookingCrossYear", "guestCancelBookingCrossYear",
   "hostCancelBookingCrossYear", "hostRejectBookingCrossYear"}
HostOps ==
  {"hostAcceptBooking", "hostRejectBooking", "hostRejectBookingCrossYear",
   "hostCancelBooking", "hostCancelBookingCrossYear", "hostReview", "initializeListing",
   "updateListingPrice", "updateListingPublish", "updateListingState", "updateListingReview",
   "clearListingBooking", "setListingOccupied", "updateHostReview"}
\* Either party's; evidence and identities are the guest's only, as a bound.
PartyOps == {"openDispute", "solveDisputeBeforeAdmin", "closeDispute", "initializeUserProfile"}
Roles(op) ==
  CASE op \in PartyOps -> {"guest", "host"}
    [] op \in HostOps -> {"host"}
    [] OTHER -> {"guest"}

NamesOf(builder) == {builder.accounts[i].name : i \in DOMAIN builder.accounts}
Defaulted(builder) == {builder.defaults[i].account : i \in DOMAIN builder.defaults}

\* The instruction is meant for other programs: their authority signs it.
CpiOnly(builder) ==
  \E i \in DOMAIN builder.accounts :
    builder.accounts[i].name = "cpiAuthority" /\ builder.accounts[i].signer

\* What is mixed up together: all accounts of one party, or of a booking.
Groups ==
  {{"guest", "guestProfile", "guestReputation", "guestTokenAccount", "client", "clientProfile",
    "clientTokenAccount"},
   {"host", "hostProfile", "hostReputation", "hostTokenAccount", "property"},
   {"booking", "bookingDays", "bookingDaysNext", "dispute", "escrowTokenAccount"},
   {"caller", "signer", "initiator", "initiatorProfile", "userProfile", "openerWallet"}}

\* A change is a function from names to the accounts given for them: one or a
\* group of another stay's, and some choices that are no slips.
Changes(program, op, stay, as) ==
  LET builder == Plugins[program][op]
      names == NamesOf(builder)
      asked == names \ Defaulted(builder)
      means == Means(program, op, stay, as)
      mixedUp(other) ==
        LET others == Means(program, op, other, as)
            differing == {n \in names : others[n] # means[n]}
        IN {[n \in mixed |-> others[n]] :
              mixed \in {{n} : n \in differing}
                          \cup {group \cap differing \cap asked : group \in Groups}}
      authorities ==
        IF CpiOnly(builder)
          THEN {Only("cpiAuthority", Pda(CpiAuthority(p))) : p \in Callable}
                 \cup {Only("cpiAuthority", means.actor)}
          ELSE {}
      relayed == {Only(n, Relayer) : n \in names \cap {"payer"}}
      explicit == {Only(n, means[n]) : n \in Defaulted(builder) \cap {"bookingDays", "userProfile"}}
      forgotten == {Only(n, None) : n \in asked \cap {"booking", "property", "authority"}}
  IN {<<>>} \cup authorities \cup relayed \cup explicit \cup forgotten
       \cup UNION {mixedUp(other) : other \in DOMAIN Stay \ {stay}}

Fits(op, stay) ==
  CASE Stay[stay].crossYear -> op \in CrossYearOps
    [] OTHER -> op \notin CrossYearOps

Tasks ==
  {task \in [program : Programs, op : Asked, stay : Visited, as : {"guest", "host"}] :
     /\ task.op \in Ops(task.program)
     /\ Fits(task.op, task.stay)
     /\ task.as \in Roles(task.op)}

\* An argument decides what else the program demands: a verdict without a
\* fault is a branch of its own.
BranchesOf(op) == {op} \cup (IF op = "resolveDispute" THEN {"resolveWithoutFault"} ELSE {})

Wish(task, branch, kind, change) ==
  [program |-> task.program, op |-> task.op, branch |-> branch, stay |-> task.stay,
   as |-> task.as, kind |-> kind, change |-> change]

\* All requests; only through the plugin do callers make changes.
WishesOf(task) ==
  {Wish(task, branch, "sync", <<>>) : branch \in BranchesOf(task.op)}
    \cup {Wish(task, branch, "plugin", change) :
            branch \in BranchesOf(task.op),
            change \in Changes(task.program, task.op, task.stay, task.as)}

Wishes == {wish \in UNION {WishesOf(task) : task \in Tasks} : wish.kind \in Kinds}

BuilderOf(wish) ==
  IF wish.kind = "plugin" THEN Plugins[wish.program][wish.op] ELSE Syncs[wish.program][wish.op]

\* What the program demands of the wish's accounts.
DemandsOf(wish) ==
  IF wish.branch = "resolveWithoutFault"
    THEN DisputesA!ResolveWithoutFault
    ELSE Demands[wish.program][wish.op]

(***************************************************************************)
(* A request: the wish, its builder and what the caller gives it (None for *)
(* what he leaves out), the fee payer, the program's rules, and the        *)
(* accounts which the caller has seen to exist, or not to, before he asks;  *)
(* an honest one means what he gives, and who pays is his choice.          *)
(***************************************************************************)
Ask(wish) ==
  LET builder == BuilderOf(wish)
      means == Means(wish.program, wish.op, wish.stay, wish.as)
      rules == DemandsOf(wish)
      bound(rule) ==
        LET given == FirstOf(<<wish.change, means>>)[rule.name]
        IN IF given = None THEN means[rule.name] ELSE given
      found(lives) ==
        {bound(rules[i]) : i \in {j \in DOMAIN rules : rules[j].life \in lives}}
  IN [program |-> wish.program, op |-> wish.op, branch |-> wish.branch, stay |-> wish.stay,
      as |-> wish.as, kind |-> wish.kind, change |-> wish.change, builder |-> builder,
      rules |-> rules,
      given |->
        FirstOf(<<wish.change, [n \in Defaulted(builder) |-> None],
                  IF wish.kind = "plugin" THEN Only("payer", None) ELSE <<>>, means>>),
      feePayer |-> IF wish.op \in RootOps THEN Root ELSE means.actor,
      args |-> means.args,
      honest |-> \A n \in DOMAIN wish.change : n = "payer" \/ wish.change[n] = means[n],
      sees |-> {a \in found({"old", "closed"}) : ~ Outside(a)},
      misses |-> found({"new"})]

Requests == {Ask(wish) : wish \in Wishes}

-----------------------------------------------------------------------------
(***************************************************************************)
(* What there is before a booking is asked for: the platform's accounts,   *)
(* those of every party, and a stay that others have under way.            *)
(***************************************************************************)
PlatformNames ==
  {"globalConfig", "escrowConfig", "disputeConfig", "treasuryConfig", "platformVault",
   "treasuryVault"}
PartyNames == {"userProfile", "reputationProfile", "identity", "listing"}
BookingNames == {"booking", "bookingDays", "escrowTokenAccount", "dispute"}

OfParties(stay) ==
  {Belongings(stay, as)[n] : as \in {"guest", "host"}, n \in PartyNames}
Grounds ==
  {Pda(CoreConfigPda)} \cup {Shared[n] : n \in PlatformNames}
    \cup UNION {OfParties(stay) : stay \in DOMAIN Stay}
Ready ==
  Grounds
    \cup {Belongings(stay, "guest")[n] : stay \in DOMAIN Stay \ Visited, n \in BookingNames}
=============================================================================
