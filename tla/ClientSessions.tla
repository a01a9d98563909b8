--------------------------- MODULE ClientSessions ---------------------------
(***************************************************************************)
(* The generated clients at work.  A session asks a builder for an         *)
(* instruction, which fills in the missing accounts one after the other,   *)
(* and sends it; between building and landing, other sessions land theirs. *)
(* The chain is the set of the accounts that exist, and what a dispute     *)
(* holds of the evidence linked to it.                                     *)
(*                                                                         *)
(* A builder awaits every hash it derives.  It copies its input before it  *)
(* starts, so that nothing it reads can change meanwhile: only landing     *)
(* depends on the other sessions.                                          *)
(***************************************************************************)
EXTENDS Callers

CONSTANTS
  Sessions,
  Together,       \* the instructions two sessions may be at, once each
  Setup,          \* those that set the platform up
  FreshToo,       \* whether to start from an empty chain as well
  NoRequest

VARIABLES
  phase,          \* "idle", "resolving" or "built"
  request,        \* what a session was asked
  table,          \* the builder's table of accounts, None where unknown
  next,           \* the default the builder tries next
  store,          \* the accounts that exist
  linked,         \* the evidence EvidenceLinked has announced
  evidence        \* the evidence the disputes hold

sessionVars == <<phase, request, table, next>>
vars == <<sessionVars, store, linked, evidence>>

-----------------------------------------------------------------------------
\* Mutant: tried from the last to the first.
DefaultsReversed(r) ==
  [i \in DOMAIN r.builder.defaults |-> r.builder.defaults[Len(r.builder.defaults) + 1 - i]]

Defaults(r) == r.builder.defaults
Metas(r) == r.builder.accounts
Names(r) == {Metas(r)[i].name : i \in DOMAIN Metas(r)}

\* What the builders have in common: an account has one default at most, no
\* key pair, which is read off accounts of the instruction and its arguments;
\* and a synchronous builder has none that the plugin's has not.
ASSUME RequestAssumption ==
  \A r \in Requests :
    /\ DOMAIN Defaults(r) = 1 .. Len(Defaults(r))
    /\ Len(Defaults(r)) \in Nat
    /\ \A i \in DOMAIN Defaults(r) :
         /\ Defaults(r)[i].account \in Names(r)
         /\ \E j \in DOMAIN Plugins[r.program][r.op].defaults :
              Defaults(r)[i] = Plugins[r.program][r.op].defaults[j]
         /\ Defaults(r)[i].from.program \notin {"none", "held", "wallet"}
         /\ \A j \in DOMAIN Defaults(r)[i].from.seeds :
              Defaults(r)[i].from.seeds[j][1] \in {"lit", "name", "key", "arg"}
         /\ Reads(Defaults(r)[i].from) \subseteq Names(r)
    /\ \A i, j \in DOMAIN Defaults(r) :
         Defaults(r)[i].account = Defaults(r)[j].account => i = j

ASSUME NoRequestAssumption == NoRequest \notin Requests

\* Mutant: the table only starts with what the caller gave.
OriginalGiven(r) ==
  [n \in {m \in Names(r) : r.given[m] # None} |-> r.given[n]]

\* The accounts as the caller gives them.  The plugin pays with its own key
\* pair, that of the fee payer, unless told otherwise.
Original(r) ==
  [n \in Names(r) |->
     IF n = "payer" /\ r.given[n] = None
       THEN r.feePayer
       ELSE r.given[n]]

\* An account nobody knows is replaced by the program's own address, without
\* privileges.
MetaOf(r, known, m) ==
  IF known[m.name] = None
    THEN [address |-> Deployed(r.builder.program), writable |-> FALSE, signer |-> FALSE]
    ELSE [address |-> known[m.name], writable |-> m.writable, signer |-> m.signer]

\* The instruction a builder returns, in a transaction of its own.
Transaction(r, known) ==
  [program |-> r.program,
   discriminator |-> r.builder.discriminator,
   metas |-> [i \in DOMAIN Metas(r) |-> MetaOf(r, known, Metas(r)[i])],
   args |-> r.args,
   feePayer |-> r.feePayer]

Tx(s) == Transaction(request[s], table[s])
RulesOf(s) == request[s].rules
Built(s) == phase[s] = "built"
Acceptable(s) == Built(s) /\ Accepts(RulesOf(s), Tx(s), store)

-----------------------------------------------------------------------------
Init ==
  /\ phase = [s \in Sessions |-> "idle"]
  /\ request = [s \in Sessions |-> NoRequest]
  /\ table = [s \in Sessions |-> <<>>]
  /\ next = [s \in Sessions |-> 0]
  /\ store \in {Ready} \cup (IF FreshToo THEN {{}} ELSE {})
  /\ linked = {}
  /\ evidence = {}

\* The caller has looked at the chain, and reads there what his request needs.
Timely(r) ==
  /\ r.op \in Setup \/ Grounds \subseteq store
  /\ r.sees \subseteq store
  /\ r.misses \cap store = {}

\* A bound: two sessions are only under way with some of the plain requests.
Joint(r) == r.op \in Together /\ r.kind = "sync"

Open(s, r) ==
  /\ phase[s] = "idle"
  /\ \A other \in Sessions :
       request[other] # NoRequest => Joint(r) /\ Joint(request[other])
  /\ Timely(r)
  /\ phase' = [phase EXCEPT ![s] = "resolving"]
  /\ request' = [request EXCEPT ![s] = r]
  /\ table' = [table EXCEPT ![s] = Original(r)]
  /\ next' = [next EXCEPT ![s] = 1]
  /\ UNCHANGED <<store, linked, evidence>>

Pending(s) ==
  /\ phase[s] = "resolving"
  /\ next[s] \in DOMAIN Defaults(request[s])

Due(s) == Defaults(request[s])[next[s]]

Forget(s) ==
  /\ phase' = [phase EXCEPT ![s] = "idle"]
  /\ request' = [request EXCEPT ![s] = NoRequest]
  /\ table' = [table EXCEPT ![s] = <<>>]
  /\ next' = [next EXCEPT ![s] = 0]

\* The account is known: the default is not used.
Keep(s) ==
  /\ Pending(s)
  /\ table[s][Due(s).account] # None
  /\ next' = [next EXCEPT ![s] = @ + 1]
  /\ UNCHANGED <<phase, request, table, store, linked, evidence>>

Fillable(known, default) ==
  /\ known[default.account] = None
  /\ \A n \in Reads(default.from) : known[n] # None

\* Mutant: derived from the accounts the caller gave.
FilledFromGiven(r, known, default) == Derive(default.from, Original(r), r.args)

Filled(r, known, default) == Derive(default.from, known, r.args)

Fill(s) ==
  /\ Pending(s)
  /\ Fillable(table[s], Due(s))
  /\ table' = [table EXCEPT ![s][Due(s).account] = Filled(request[s], table[s], Due(s))]
  /\ next' = [next EXCEPT ![s] = @ + 1]
  /\ UNCHANGED <<phase, request, store, linked, evidence>>

\* getAddressFromResolvedInstructionAccount throws on an unknown account.
Throw(s) ==
  /\ Pending(s)
  /\ table[s][Due(s).account] = None
  /\ ~ Fillable(table[s], Due(s))
  /\ Forget(s)
  /\ UNCHANGED <<store, linked, evidence>>

Build(s) ==
  /\ phase[s] = "resolving"
  /\ next[s] \notin DOMAIN Defaults(request[s])
  /\ phase' = [phase EXCEPT ![s] = "built"]
  /\ UNCHANGED <<request, table, next, store, linked, evidence>>

-----------------------------------------------------------------------------
\* link_evidence announces the signer's evidence, and writes it into the
\* dispute: kept when the account is among those saved afterwards.
Links(s) == request[s].op = "linkEvidente"
Item(s) == <<table[s]["dispute"], table[s]["userProfile"]>>
Saved(s, name) ==
  \E i \in DOMAIN RulesOf(s) : RulesOf(s)[i].name = name /\ RulesOf(s)[i].mut
OfLiving(items, living) == {item \in items : item[1] \in living}

Land(s) ==
  /\ Acceptable(s)
  /\ store' = Effect(RulesOf(s), Tx(s), store)
  /\ linked' =
       OfLiving(linked \cup (IF Links(s) THEN {Item(s)} ELSE {}), store')
  /\ evidence' =
       OfLiving(evidence \cup (IF Links(s) /\ Saved(s, "dispute") THEN {Item(s)} ELSE {}),
                store')
  /\ Forget(s)

\* The chain refuses the accounts, the handler refuses for a reason of its
\* own, or the transaction expires.
Drop(s) ==
  /\ Built(s)
  /\ Forget(s)
  /\ UNCHANGED <<store, linked, evidence>>

Step(s) ==
  \/ \E r \in Requests : Open(s, r)
  \/ Keep(s)
  \/ Fill(s)
  \/ Throw(s)
  \/ Build(s)
  \/ Land(s)
  \/ Drop(s)

Next == \E s \in Sessions : Step(s)

Spec == Init /\ [][Next]_vars

-----------------------------------------------------------------------------
(***************************************************************************)
(* Properties.                                                             *)
(***************************************************************************)
\* Type correctness of the sessions: their table of accounts is the one of
\* the builder they were asked of.
SessionsTypeOK ==
  /\ phase \in [Sessions -> {"idle", "resolving", "built"}]
  /\ next \in [Sessions -> Nat]
  /\ \A s \in Sessions :
       phase[s] # "idle" => request[s] # NoRequest /\ DOMAIN table[s] = Names(request[s])

\* An account the caller gave is never replaced; one he left out is, in the
\* instruction, the address its default derives from the accounts that are
\* IN the instruction, though it was derived when some of them were still
\* unknown.
FilledFromFinal ==
  \A s \in Sessions : Built(s) =>
    /\ \A n \in Names(request[s]) :
         Original(request[s])[n] # None => table[s][n] = Original(request[s])[n]
    /\ \A i \in DOMAIN Defaults(request[s]) :
         LET default == Defaults(request[s])[i]
         IN Original(request[s])[default.account] = None =>
              table[s][default.account] =
                Derive(default.from, table[s], request[s].args)

\* The order in which a builder tries its defaults suffices: it only throws
\* when the caller left out an account that has none.
OrderedDefaults ==
  \A s \in Sessions :
    (Pending(s) /\ table[s][Due(s).account] = None /\ ~ Fillable(table[s], Due(s)))
      => \E n \in Names(request[s]) :
           /\ Original(request[s])[n] = None
           /\ \A i \in DOMAIN Defaults(request[s]) : Defaults(request[s])[i].account # n

\* Whatever the sessions land, and in whatever order, money is never held
\* for a booking that is gone.
NoOrphans ==
  \A a \in store : Type(a) = <<"escrow", "escrow">> => Seed(a, 2) \in store

\* The evidence a party has linked to a dispute, as EvidenceLinked announces,
\* is in the dispute while there is one.
EvidenceKept == linked \subseteq evidence
=============================================================================
