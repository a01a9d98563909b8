-------------------------- MODULE ClientRuleProofs --------------------------
(***************************************************************************)
(* The builders of the clients against the account rules of the programs,  *)
(* for any stays, callers and number of sessions.                          *)
(*                                                                         *)
(* First, what a builder fills in: from the one fact about the builders    *)
(* that RequestAssumption states and TLC checks of all of them.  Then what *)
(* is proved of an instruction rests on the entries it has in the tables   *)
(* of both sides, which are gone through one by one.                       *)
(***************************************************************************)
EXTENDS Clients, TLAPS

-----------------------------------------------------------------------------
(***************************************************************************)
(* The invariant follows the loop of a builder: the defaults before "next" *)
(* are known, agree with the table as it is NOW, and read nothing unknown; *)
(* those from "next" on have not touched it.                               *)
(***************************************************************************)
\* The type of the sessions, with what they were asked.
Typed ==
  /\ phase \in [Sessions -> {"idle", "resolving", "built"}]
  /\ request \in [Sessions -> Requests \cup {NoRequest}]
  /\ next \in [Sessions -> Nat]
  /\ \A s \in Sessions :
       phase[s] # "idle" => request[s] \in Requests /\ DOMAIN table[s] = Names(request[s])

Tables ==
  /\ DOMAIN table = Sessions
  /\ \A s \in Sessions : phase[s] # "idle" =>
       /\ next[s] >= 1
       /\ table[s] = [n \in Names(request[s]) |-> table[s][n]]

\* What the caller gave is still there, and nothing that has no default is
\* added to it.
GivenKept ==
  \A s \in Sessions : phase[s] # "idle" =>
    \A n \in Names(request[s]) :
      Original(request[s])[n] # None \/ n \notin Defaulted(request[s].builder)
        => table[s][n] = Original(request[s])[n]

\* A default that the builder is past: derived from known accounts only.
Settled(r, known, default) ==
  /\ known[default.account] # None
  /\ \A n \in Reads(default.from) : known[n] # None
  /\ known[default.account] = Derive(default.from, known, r.args)

Progress ==
  \A s \in Sessions : phase[s] # "idle" =>
    \A i \in DOMAIN Defaults(request[s]) :
      Original(request[s])[Defaults(request[s])[i].account] = None =>
        /\ i < next[s] => Settled(request[s], table[s], Defaults(request[s])[i])
        /\ i >= next[s] => table[s][Defaults(request[s])[i].account] = None

Finished ==
  \A s \in Sessions : Built(s) =>
    \A i \in DOMAIN Defaults(request[s]) : i < next[s]

FillInv == Typed /\ Tables /\ GivenKept /\ Progress /\ Finished

-----------------------------------------------------------------------------
\* A derivation under a program's own id is no unknown account.
LEMMA DerivedKnown ==
  ASSUME NEW d, NEW accounts, NEW args, d.program \notin {"none", "held"}
  PROVE  Derive(d, accounts, args) # None
<1>1. Derive(d, accounts, args).program = d.program
  BY DEF Derive, Address
<1>2. None.program = "none"
  BY DEF None, Address
<1> QED BY <1>1, <1>2

\* A derivation only depends on the accounts it reads.
LEMMA DerivedFromReads ==
  ASSUME NEW d, NEW before, NEW after, NEW args,
         d.program # "held",
         \A j \in DOMAIN d.seeds : d.seeds[j][1] \in {"lit", "name", "key", "arg"},
         \A n \in Reads(d) : before[n] = after[n]
  PROVE  Derive(d, before, args) = Derive(d, after, args)
<1>1. ASSUME NEW j \in DOMAIN d.seeds
      PROVE  SeedValue(d.seeds[j], before, args) = SeedValue(d.seeds[j], after, args)
  <2>1. CASE d.seeds[j][1] = "key"
    <3>1. d.seeds[j][2] \in Reads(d)
      BY <2>1 DEF Reads
    <3> QED BY <2>1, <3>1 DEF SeedValue
  <2>2. CASE d.seeds[j][1] \in {"lit", "name"}
    BY <2>2 DEF SeedValue
  <2>3. CASE d.seeds[j][1] = "arg"
    BY <2>3 DEF SeedValue
  <2> QED BY <2>1, <2>2, <2>3
<1>2. [j \in DOMAIN d.seeds |-> SeedValue(d.seeds[j], before, args)]
        = [j \in DOMAIN d.seeds |-> SeedValue(d.seeds[j], after, args)]
  BY <1>1
<1> QED BY <1>2 DEF Derive

-----------------------------------------------------------------------------
\* No session has been asked for anything at the start.
LEMMA FillInit == Init => FillInv
<1> SUFFICES ASSUME Init PROVE FillInv
  OBVIOUS
<1>1. Typed
  BY DEF Init, Typed
<1>2. Tables /\ GivenKept /\ Progress /\ Finished
  BY DEF Init, Tables, GivenKept, Progress, Finished, Built
<1> QED BY <1>1, <1>2 DEF FillInv

-----------------------------------------------------------------------------
\* Asking: the table is what the caller gave, and the first default is next.
LEMMA OpenKeeps ==
  ASSUME FillInv, NEW s \in Sessions, NEW r \in Requests, Open(s, r)
  PROVE  FillInv'
<1> USE DEF FillInv, Open
<1>1. r # NoRequest
  BY NoRequestAssumption
<1>2. DOMAIN Original(r) = Names(r)
  BY DEF Original
<1>3. /\ table'[s] = Original(r) /\ request'[s] = r /\ next'[s] = 1
      /\ phase'[s] = "resolving"
  BY DEF Typed, Tables
<1>4. \A u \in Sessions \ {s} :
        /\ table'[u] = table[u] /\ request'[u] = request[u]
        /\ next'[u] = next[u] /\ phase'[u] = phase[u]
  BY DEF Typed, Tables
<1>5. Typed'
  BY <1>2, <1>3, <1>4 DEF Typed
<1>6. Tables'
  <2>1. Original(r) = [n \in Names(r) |-> Original(r)[n]]
    BY DEF Original
  <2>2. ASSUME NEW u \in Sessions, phase'[u] # "idle"
        PROVE  /\ next'[u] >= 1
               /\ table'[u] = [n \in Names(request'[u]) |-> table'[u][n]]
    <3>1. CASE u = s
      BY <1>3, <2>1, <3>1
    <3>2. CASE u # s
      BY <1>4, <2>2, <3>2 DEF Tables
    <3> QED BY <3>1, <3>2
  <2> QED BY <2>2 DEF Tables
<1>7. GivenKept'
  BY <1>3, <1>4 DEF GivenKept
<1>8. Progress'
  <2>1. \A i \in DOMAIN Defaults(r) : i >= 1 /\ ~ (i < 1)
    BY RequestAssumption
  <2>2. ASSUME NEW u \in Sessions, phase'[u] # "idle",
               NEW i \in DOMAIN Defaults(request'[u]),
               Original(request'[u])[Defaults(request'[u])[i].account] = None
        PROVE  /\ i < next'[u] => Settled(request'[u], table'[u], Defaults(request'[u])[i])
               /\ i >= next'[u] => table'[u][Defaults(request'[u])[i].account] = None
    <3>1. CASE u = s
      BY <1>3, <2>1, <2>2, <3>1
    <3>2. CASE u # s
      BY <1>4, <2>2, <3>2 DEF Progress
    <3> QED BY <3>1, <3>2
  <2> QED BY <2>2 DEF Progress
<1>9. Finished'
  BY <1>3, <1>4 DEF Finished, Built
<1> QED BY <1>5, <1>6, <1>7, <1>8, <1>9

\* A known account needs no default; had the caller left it out, an earlier
\* default would have to be its own.
LEMMA KeepKeeps ==
  ASSUME FillInv, NEW s \in Sessions, Keep(s)
  PROVE  FillInv'
<1> USE DEF FillInv, Keep, Pending, Due
<1>1. next'[s] = next[s] + 1 /\ next[s] \in Nat
  BY DEF Typed
<1>2. \A u \in Sessions \ {s} : next'[u] = next[u]
  BY DEF Typed
<1>3. Typed'
  BY <1>1 DEF Typed
<1>4. Tables'
  BY <1>1, <1>2 DEF Tables
<1>5. GivenKept'
  BY DEF GivenKept
<1>6. Progress'
  <2>1. ASSUME NEW u \in Sessions, phase[u] # "idle", NEW i \in DOMAIN Defaults(request[u]),
               Original(request[u])[Defaults(request[u])[i].account] = None
        PROVE  /\ i < next'[u] => Settled(request[u], table[u], Defaults(request[u])[i])
               /\ i >= next'[u] => table[u][Defaults(request[u])[i].account] = None
    <3>1. CASE u # s
      BY <1>2, <2>1, <3>1 DEF Progress
    <3>2. CASE u = s
      <4>1. request[s] \in Requests
        BY DEF Typed
      <4>2. i \in Nat
        BY <2>1, <3>2, <4>1, RequestAssumption
      <4>3. i # next[s]
        <5>1. table[s][Defaults(request[s])[next[s]].account] # None
          OBVIOUS
        <5>2. Original(request[s])[Defaults(request[s])[next[s]].account] = None
                => table[s][Defaults(request[s])[next[s]].account] = None
          BY <1>1 DEF Progress
        <5> QED BY <2>1, <3>2, <5>1, <5>2
      <4>4. (i < next[s] + 1 => i < next[s]) /\ (i >= next[s] + 1 => i >= next[s])
        BY <1>1, <4>2, <4>3
      <4> QED BY <1>1, <2>1, <3>2, <4>4 DEF Progress
    <3> QED BY <3>1, <3>2
  <2> QED BY <2>1 DEF Progress
<1>7. Finished'
  BY <1>2 DEF Finished, Built
<1> QED BY <1>3, <1>4, <1>5, <1>6, <1>7

\* Filling in: what it reads is known, so it is not the account it fills in,
\* and no default before it reads that one either.
LEMMA FillKeeps ==
  ASSUME FillInv, NEW s \in Sessions, Fill(s)
  PROVE  FillInv'
<1> DEFINE r == request[s]
<1> DEFINE d == Defaults(r)[next[s]]
<1> DEFINE filled == Derive(d.from, table[s], r.args)
<1> USE DEF FillInv
<1>1. /\ r \in Requests /\ DOMAIN table[s] = Names(r) /\ phase[s] = "resolving"
      /\ next[s] \in DOMAIN Defaults(r) /\ next[s] \in Nat
  BY DEF Fill, Pending, Typed
<1>2. /\ d.account \in Names(r)
      /\ d.from.program \notin {"none", "held"}
      /\ \A j \in DOMAIN d.from.seeds : d.from.seeds[j][1] \in {"lit", "name", "key", "arg"}
      /\ Reads(d.from) \subseteq Names(r)
  BY <1>1, RequestAssumption
<1>3. /\ table[s][d.account] = None
      /\ \A n \in Reads(d.from) : table[s][n] # None
      /\ UNCHANGED <<phase, request>>
      /\ next' = [next EXCEPT ![s] = next[s] + 1]
      /\ table' = [table EXCEPT ![s][d.account] = filled]
  BY DEF Fill, Fillable, Filled, Due
<1>4. /\ table'[s][d.account] = filled
      /\ \A n \in Names(r) \ {d.account} : table'[s][n] = table[s][n]
      /\ DOMAIN table'[s] = Names(r) /\ DOMAIN table' = Sessions
  BY <1>1, <1>2, <1>3 DEF Tables
<1>5. \A u \in Sessions \ {s} : table'[u] = table[u] /\ next'[u] = next[u]
  BY <1>3 DEF Tables, Typed
<1>6. next'[s] = next[s] + 1
  BY <1>3 DEF Typed
<1>7. filled # None
  BY <1>2, DerivedKnown
<1>8. Original(r)[d.account] = None /\ d.account \in Defaulted(r.builder)
  BY <1>1, <1>2, <1>3 DEF GivenKept, Defaulted, Defaults
<1> HIDE DEF filled, d, r
<1>9. Typed'
  BY <1>3, <1>4, <1>5, <1>6, <1>1 DEF Typed, r
<1>10. Tables'
  <2>1. table'[s] = [n \in Names(r) |-> table'[s][n]]
    <3>1. table[s] = [n \in Names(r) |-> table[s][n]]
      BY <1>1 DEF Tables, r
    <3>2. table'[s] = [table[s] EXCEPT ![d.account] = filled]
      BY <1>3 DEF Tables
    <3> QED BY <1>4, <3>1, <3>2
  <2> QED BY <1>1, <1>3, <1>4, <1>5, <1>6, <2>1 DEF Tables, r
<1>11. GivenKept'
  BY <1>3, <1>4, <1>5, <1>8 DEF GivenKept, r
<1>12. Progress'
  <2>1. ASSUME NEW u \in Sessions, phase[u] # "idle", NEW i \in DOMAIN Defaults(request[u]),
               Original(request[u])[Defaults(request[u])[i].account] = None
        PROVE  /\ i < next'[u] => Settled(request[u], table'[u], Defaults(request[u])[i])
               /\ i >= next'[u] => table'[u][Defaults(request[u])[i].account] = None
    <3>1. CASE u # s
      BY <1>5, <2>1, <3>1 DEF Progress
    <3>2. CASE u = s
      <4> DEFINE e == Defaults(r)[i]
      <4>1. /\ i \in Nat
            /\ e.account \in Names(r)
            /\ e.from.program # "held"
            /\ \A j \in DOMAIN e.from.seeds : e.from.seeds[j][1] \in {"lit", "name", "key", "arg"}
            /\ Reads(e.from) \subseteq Names(r)
            /\ e.account = d.account => i = next[s]
        BY <1>1, <2>1, <3>2, RequestAssumption DEF r, d
      <4>2. ASSUME \A n \in Reads(e.from) : table[s][n] # None
            PROVE  /\ \A n \in Reads(e.from) : table'[s][n] = table[s][n]
                   /\ \A n \in Reads(e.from) : table'[s][n] # None
                   /\ Derive(e.from, table[s], r.args) = Derive(e.from, table'[s], r.args)
        <5>1. \A n \in Reads(e.from) : n # d.account /\ n \in Names(r)
          BY <1>3, <4>1, <4>2
        <5>2. \A n \in Reads(e.from) : table'[s][n] = table[s][n]
          BY <1>4, <5>1
        <5>3. Derive(e.from, table[s], r.args) = Derive(e.from, table'[s], r.args)
          BY <4>1, <5>2, DerivedFromReads
        <5> QED BY <4>2, <5>2, <5>3
      <4>3. CASE i = next[s]
        <5>1. e = d
          BY <4>3 DEF d
        <5>2. Settled(r, table'[s], e)
          BY <1>3, <1>4, <1>7, <4>2, <5>1 DEF Settled, filled
        <5>3. i < next[s] + 1 /\ ~ (i >= next[s] + 1)
          BY <1>1, <4>3
        <5> QED BY <1>6, <3>2, <5>2, <5>3 DEF r
      <4>4. CASE i # next[s]
        <5>1. e.account # d.account
          BY <4>1, <4>4
        <5>2. table'[s][e.account] = table[s][e.account]
          BY <1>4, <4>1, <5>1
        <5>3. CASE i < next[s]
          <6>1. Settled(r, table[s], e)
            BY <2>1, <3>2, <5>3 DEF Progress, r
          <6>2. Settled(r, table'[s], e)
            BY <4>2, <5>2, <6>1 DEF Settled
          <6>3. ~ (i >= next[s] + 1)
            BY <1>1, <4>1, <5>3
          <6> QED BY <1>6, <3>2, <6>2, <6>3 DEF r
        <5>4. CASE i >= next[s]
          <6>1. table[s][e.account] = None
            BY <2>1, <3>2, <5>4 DEF Progress, r
          <6>2. ~ (i < next[s] + 1)
            BY <1>1, <4>1, <4>4, <5>4
          <6> QED BY <1>6, <3>2, <5>2, <6>1, <6>2 DEF r
        <5> QED BY <1>1, <4>1, <5>3, <5>4
      <4> QED BY <4>3, <4>4
    <3> QED BY <3>1, <3>2
  <2> QED BY <1>3, <2>1 DEF Progress
<1>13. Finished'
  BY <1>1, <1>3, <1>5, <1>6 DEF Finished, Built
<1> QED BY <1>9, <1>10, <1>11, <1>12, <1>13

\* The instruction is ready when no default is left.
LEMMA BuildKeeps ==
  ASSUME FillInv, NEW s \in Sessions, Build(s)
  PROVE  FillInv'
<1> USE DEF FillInv, Build
<1>1. /\ phase'[s] = "built" /\ phase[s] = "resolving"
      /\ \A u \in Sessions \ {s} : phase'[u] = phase[u]
  BY DEF Typed
<1>2. Typed'
  BY <1>1 DEF Typed
<1>3. Tables'
  BY <1>1 DEF Tables
<1>4. GivenKept'
  BY <1>1 DEF GivenKept
<1>5. Progress'
  BY <1>1 DEF Progress
<1>6. Finished'
  <2>1. request[s] \in Requests /\ next[s] \in Nat /\ next[s] >= 1
    BY <1>1 DEF Typed, Tables
  <2>2. \A i \in DOMAIN Defaults(request[s]) : i < next[s]
    BY <2>1, RequestAssumption
  <2> QED BY <1>1, <2>2 DEF Finished, Built
<1> QED BY <1>2, <1>3, <1>4, <1>5, <1>6

\* A session that throws, lands or gives up has nothing left.
LEMMA ForgetKeeps ==
  ASSUME FillInv, NEW s \in Sessions, Forget(s)
  PROVE  FillInv'
<1> USE DEF FillInv, Forget
<1>1. phase'[s] = "idle" /\ request'[s] = NoRequest /\ next'[s] = 0
  BY DEF Typed
<1>2. \A u \in Sessions \ {s} :
        /\ table'[u] = table[u] /\ request'[u] = request[u]
        /\ next'[u] = next[u] /\ phase'[u] = phase[u]
  BY DEF Typed, Tables
<1>3. Typed'
  BY <1>1, <1>2 DEF Typed
<1>4. Tables'
  BY <1>1, <1>2 DEF Tables
<1>5. GivenKept' /\ Progress' /\ Finished'
  BY <1>1, <1>2 DEF GivenKept, Progress, Finished, Built
<1> QED BY <1>3, <1>4, <1>5

LEMMA StepKeeps == FillInv /\ [Next]_vars => FillInv'
<1> SUFFICES ASSUME FillInv, [Next]_vars PROVE FillInv'
  OBVIOUS
<1>1. ASSUME NEW s \in Sessions, Step(s) PROVE FillInv'
  <2>1. CASE \E r \in Requests : Open(s, r)
    BY <2>1, OpenKeeps
  <2>2. CASE Keep(s)
    BY <2>2, KeepKeeps
  <2>3. CASE Fill(s)
    BY <2>3, FillKeeps
  <2>4. CASE Build(s)
    BY <2>4, BuildKeeps
  <2>5. CASE Forget(s)
    BY <2>5, ForgetKeeps
  <2> QED BY <1>1, <2>1, <2>2, <2>3, <2>4, <2>5 DEF Step, Throw, Land, Drop
<1>2. CASE UNCHANGED vars
  BY <1>2 DEF vars, sessionVars, FillInv, Typed, Tables, GivenKept, Progress,
              Finished, Built
<1> QED BY <1>1, <1>2 DEF Next

-----------------------------------------------------------------------------
\* The sessions are well typed: a table always has the accounts of the
\* builder it was made for.
THEOREM SessionsTypeCorrect == Spec => []SessionsTypeOK
<1>1. FillInv => SessionsTypeOK
  BY NoRequestAssumption DEF FillInv, Typed, SessionsTypeOK
<1> QED BY <1>1, FillInit, StepKeeps, PTL DEF Spec

\* What the caller gave is in the instruction, and what a builder filled in is
\* derived from the accounts that are in the instruction, whatever the
\* requests, the defaults and their order.
THEOREM FilledAlwaysFinal == Spec => []FilledFromFinal
<1>1. FillInv => FilledFromFinal
  BY DEF FillInv, FilledFromFinal, GivenKept, Progress, Finished, Settled, Built
<1> QED BY <1>1, FillInit, StepKeeps, PTL DEF Spec

-----------------------------------------------------------------------------
\* Defaults in order: what a default reads has no default, or an earlier one.
InOrder ==
  \A r \in Requests : \A i, j \in DOMAIN Defaults(r) :
    Defaults(r)[j].account \in Reads(Defaults(r)[i].from) => j < i

\* When the defaults of every builder are in order, a builder only throws for
\* want of an account that has no default, however little the caller gives.
THEOREM OrderSuffices ==
  ASSUME InOrder
  PROVE  Spec => []OrderedDefaults
<1>1. ASSUME FillInv PROVE OrderedDefaults
  <2> SUFFICES ASSUME NEW s \in Sessions, Pending(s), table[s][Due(s).account] = None,
                      ~ Fillable(table[s], Due(s))
               PROVE  \E n \in Names(request[s]) :
                        /\ Original(request[s])[n] = None
                        /\ \A i \in DOMAIN Defaults(request[s]) :
                             Defaults(request[s])[i].account # n
    BY DEF OrderedDefaults
  <2> USE <1>1 DEF FillInv
  <2>1. /\ request[s] \in Requests /\ phase[s] # "idle"
        /\ next[s] \in DOMAIN Defaults(request[s])
        /\ Due(s) = Defaults(request[s])[next[s]]
    BY DEF Pending, Due, Typed
  <2>2. PICK n \in Reads(Due(s).from) : table[s][n] = None
    BY DEF Fillable
  <2>3. n \in Names(request[s])
    BY <2>1, <2>2, RequestAssumption
  <2>4. Original(request[s])[n] = None
    BY <2>1, <2>2, <2>3 DEF GivenKept
  <2>5. ASSUME NEW j \in DOMAIN Defaults(request[s]),
               Defaults(request[s])[j].account = n
        PROVE  FALSE
    <3>1. j < next[s]
      BY <2>1, <2>2, <2>5 DEF InOrder
    <3> QED BY <2>1, <2>2, <2>4, <2>5, <3>1 DEF Progress, Settled
  <2> QED BY <2>3, <2>4, <2>5
<1> QED BY <1>1, FillInit, StepKeeps, PTL DEF Spec

-----------------------------------------------------------------------------
(***************************************************************************)
(* A request is for an entry of the tables, or for a verdict without a     *)
(* fault, which is an entry's other branch.                                *)
(***************************************************************************)
Usual(r) == r.branch = r.op /\ r.rules = Demands[r.program][r.op]
Faultless(r) ==
  /\ r.program = "disputes" /\ r.op = "resolveDispute"
  /\ r.branch = "resolveWithoutFault" /\ r.rules = DisputesA!ResolveWithoutFault

LEMMA RequestEntry ==
  ASSUME NEW r \in Requests
  PROVE  /\ r.program \in Programs
         /\ r.op \in Ops(r.program)
         /\ Usual(r) \/ Faultless(r)
         /\ r.builder \in {Plugins[r.program][r.op], Syncs[r.program][r.op]}
<1>1. PICK wish \in Wishes : r = Ask(wish)
  BY Zenon DEF Requests
<1>2. PICK task \in Tasks :
        \E branch \in BranchesOf(task.op) : \E kind, change : wish = Wish(task, branch, kind, change)
  <2>1. PICK task \in Tasks : wish \in WishesOf(task)
    BY Zenon DEF Wishes
  <2> QED BY <2>1 DEF WishesOf
<1> PICK branch \in BranchesOf(task.op) : \E kind, change : wish = Wish(task, branch, kind, change)
  BY <1>2
<1>3. /\ task \in [program : Programs, op : Asked, stay : Visited, as : {"guest", "host"}]
      /\ task.op \in Ops(task.program)
  BY DEF Tasks
<1>4. /\ wish.program = task.program /\ wish.op = task.op /\ wish.branch = branch
      /\ wish.program \in Programs /\ wish.op \in Ops(wish.program)
  BY <1>3 DEF Wish
<1>5. BuilderOf(wish) \in {Plugins[wish.program][wish.op], Syncs[wish.program][wish.op]}
  BY DEF BuilderOf
<1>6. /\ r.program = wish.program /\ r.op = wish.op /\ r.builder = BuilderOf(wish)
      /\ r.branch = wish.branch /\ r.rules = DemandsOf(wish)
  BY <1>1 DEF Ask
<1>7. ~ \E p \in Programs : "resolveWithoutFault" \in Ops(p)
  <2>1. "resolveWithoutFault" \notin Ops("config") /\ "resolveWithoutFault" \notin Ops("core")
    BY DEF Ops, Demands, ConfigA!Rules, CoreA!Rules
  <2>2. "resolveWithoutFault" \notin Ops("disputes") /\ "resolveWithoutFault" \notin Ops("treasury")
    BY DEF Ops, Demands, DisputesA!Rules, TreasuryA!Rules
  <2>3. "resolveWithoutFault" \notin Ops("escrow")
    BY DEF Ops, Demands, EscrowA!Rules
  <2> QED BY <2>1, <2>2, <2>3 DEF Programs, Plugins
<1>8. CASE branch = task.op
  <2>1. wish.branch # "resolveWithoutFault"
    BY <1>4, <1>7, <1>8
  <2>2. r.rules = Demands[wish.program][wish.op]
    BY <1>6, <2>1 DEF DemandsOf
  <2> QED BY <1>4, <1>5, <1>6, <1>8, <2>2 DEF Usual
<1>9. CASE branch # task.op
  <2>1. task.op = "resolveDispute" /\ branch = "resolveWithoutFault"
    BY <1>9 DEF BranchesOf
  <2>2. r.rules = DisputesA!ResolveWithoutFault
    BY <1>4, <1>6, <2>1 DEF DemandsOf
  <2>3. "resolveDispute" \notin Ops("config") /\ "resolveDispute" \notin Ops("core")
    BY DEF Ops, Demands, ConfigA!Rules, CoreA!Rules
  <2>4. "resolveDispute" \notin Ops("treasury")
    BY DEF Ops, Demands, TreasuryA!Rules
  <2>5. "resolveDispute" \notin Ops("escrow")
    BY DEF Ops, Demands, EscrowA!Rules
  <2>6. wish.program = "disputes"
    BY <1>4, <2>1, <2>3, <2>4, <2>5 DEF Programs, Plugins
  <2> QED BY <1>4, <1>5, <1>6, <2>1, <2>2, <2>6 DEF Faultless
<1> QED BY <1>4, <1>5, <1>6, <1>8, <1>9

-----------------------------------------------------------------------------
(***************************************************************************)
(* Both kinds of builder send the discriminator of the instruction, and    *)
(* the same accounts.                                                      *)
(***************************************************************************)
SameInstruction(op, plugin, sync, identify) ==
  /\ sync.accounts = plugin.accounts
  /\ \A builder \in {plugin, sync} : identify[builder.discriminator] = op

LEMMA ConfigInstructions ==
  \A op \in Ops("config") :
    SameInstruction(op, ConfigC!Plugin[op], ConfigC!SyncBuilders[op], ConfigC!Identify)
<1> USE DEF SameInstruction, ConfigC!FixedOnly, ConfigC!Builder
<1>1. SameInstruction("initializeConfig", ConfigC!InitializeConfig, ConfigC!InitializeConfigSync,
                      ConfigC!Identify)
  BY DEF ConfigC!InitializeConfig, ConfigC!InitializeConfigSync, ConfigC!Identify
<1>2. SameInstruction("withdrawFees", ConfigC!WithdrawFees, ConfigC!WithdrawFeesSync, ConfigC!Identify)
  BY DEF ConfigC!WithdrawFees, ConfigC!WithdrawFeesSync, ConfigC!Identify
<1> QED BY <1>1, <1>2
  DEF Ops, Demands, ConfigA!Rules, ConfigC!Plugin, ConfigC!SyncBuilders

LEMMA CoreInstructions ==
  \A op \in Ops("core") :
    SameInstruction(op, CoreC!Plugin[op], CoreC!SyncBuilders[op], CoreC!Identify)
<1> USE DEF SameInstruction, CoreC!FixedOnly, CoreC!Builder
<1>1. SameInstruction("addInfraction", CoreC!AddInfraction, CoreC!AddInfractionSync, CoreC!Identify)
  BY DEF CoreC!AddInfraction, CoreC!AddInfractionSync, CoreC!Identify
<1>2. SameInstruction("clearActiveBooking", CoreC!ClearActiveBooking, CoreC!ClearActiveBookingSync,
                      CoreC!Identify)
  BY DEF CoreC!ClearActiveBooking, CoreC!ClearActiveBookingSync, CoreC!Identify
<1>3. SameInstruction("clearListingBooking", CoreC!ClearListingBooking, CoreC!ClearListingBookingSync,
                      CoreC!Identify)
  BY DEF CoreC!ClearListingBooking, CoreC!ClearListingBookingSync, CoreC!Identify
<1>4. SameInstruction("incrementClientCancellations", CoreC!IncrementClientCancellations, CoreC!IncrementClientCancellationsSync,
                      CoreC!Identify)
  BY DEF CoreC!IncrementClientCancellations, CoreC!IncrementClientCancellationsSync,
       CoreC!Identify
<1>5. SameInstruction("incrementCompletedStays", CoreC!IncrementCompletedStays, CoreC!IncrementCompletedStaysSync,
                      CoreC!Identify)
  BY DEF CoreC!IncrementCompletedStays, CoreC!IncrementCompletedStaysSync,
       CoreC!Identify
<1>6. SameInstruction("incrementHostCancellations", CoreC!IncrementHostCancellations, CoreC!IncrementHostCancellationsSync,
                      CoreC!Identify)
  BY DEF CoreC!IncrementHostCancellations, CoreC!IncrementHostCancellationsSync,
       CoreC!Identify
<1>7. SameInstruction("incrementHostedStays", CoreC!IncrementHostedStays, CoreC!IncrementHostedStaysSync,
                      CoreC!Identify)
  BY DEF CoreC!IncrementHostedStays, CoreC!IncrementHostedStaysSync, CoreC!Identify
<1>8. SameInstruction("initIdentity", CoreC!InitIdentity, CoreC!InitIdentitySync, CoreC!Identify)
  BY DEF CoreC!InitIdentity, CoreC!InitIdentitySync, CoreC!Identify
<1>9. SameInstruction("initializeConfig", CoreC!InitializeConfig, CoreC!InitializeConfigSync,
                      CoreC!Identify)
  BY DEF CoreC!InitializeConfig, CoreC!InitializeConfigSync, CoreC!Identify
<1>10. SameInstruction("initializeListing", CoreC!InitializeListing, CoreC!InitializeListingSync,
                       CoreC!Identify)
  BY DEF CoreC!InitializeListing, CoreC!InitializeListingSync, CoreC!Identify
<1>11. SameInstruction("initializeUserProfile", CoreC!InitializeUserProfile, CoreC!InitializeUserProfileSync,
                       CoreC!Identify)
  BY DEF CoreC!InitializeUserProfile, CoreC!InitializeUserProfileSync, CoreC!Identify
<1>12. SameInstruction("linkIdentity", CoreC!LinkIdentity, CoreC!LinkIdentitySync, CoreC!Identify)
  BY DEF CoreC!LinkIdentity, CoreC!LinkIdentitySync, CoreC!Identify
<1>13. SameInstruction("setActiveBooking", CoreC!SetActiveBooking, CoreC!SetActiveBookingSync,
                       CoreC!Identify)
  BY DEF CoreC!SetActiveBooking, CoreC!SetActiveBookingSync, CoreC!Identify
<1>14. SameInstruction("setListingOccupied", CoreC!SetListingOccupied, CoreC!SetListingOccupiedSync,
                       CoreC!Identify)
  BY DEF CoreC!SetListingOccupied, CoreC!SetListingOccupiedSync, CoreC!Identify
<1>15. SameInstruction("updateClientReview", CoreC!UpdateClientReview, CoreC!UpdateClientReviewSync,
                       CoreC!Identify)
  BY DEF CoreC!UpdateClientReview, CoreC!UpdateClientReviewSync, CoreC!Identify
<1>16. SameInstruction("updateDeposit", CoreC!UpdateDeposit, CoreC!UpdateDepositSync, CoreC!Identify)
  BY DEF CoreC!UpdateDeposit, CoreC!UpdateDepositSync, CoreC!Identify
<1>17. SameInstruction("updateHostReview", CoreC!UpdateHostReview, CoreC!UpdateHostReviewSync,
                       CoreC!Identify)
  BY DEF CoreC!UpdateHostReview, CoreC!UpdateHostReviewSync, CoreC!Identify
<1>18. SameInstruction("updateListingPrice", CoreC!UpdateListingPrice, CoreC!UpdateListingPriceSync,
                       CoreC!Identify)
  BY DEF CoreC!UpdateListingPrice, CoreC!UpdateListingPriceSync, CoreC!Identify
<1>19. SameInstruction("updateListingPublish", CoreC!UpdateListingPublish, CoreC!UpdateListingPublishSync,
                       CoreC!Identify)
  BY DEF CoreC!UpdateListingPublish, CoreC!UpdateListingPublishSync, CoreC!Identify
<1>20. SameInstruction("updateListingReview", CoreC!UpdateListingReview, CoreC!UpdateListingReviewSync,
                       CoreC!Identify)
  BY DEF CoreC!UpdateListingReview, CoreC!UpdateListingReviewSync, CoreC!Identify
<1>21. SameInstruction("updateListingState", CoreC!UpdateListingState, CoreC!UpdateListingStateSync,
                       CoreC!Identify)
  BY DEF CoreC!UpdateListingState, CoreC!UpdateListingStateSync, CoreC!Identify
<1> QED BY <1>1, <1>2, <1>3, <1>4, <1>5, <1>6, <1>7, <1>8, <1>9, <1>10, <1>11, <1>12,
    <1>13, <1>14, <1>15, <1>16, <1>17, <1>18, <1>19, <1>20, <1>21
  DEF Ops, Demands, CoreA!Rules, CoreC!Plugin, CoreC!SyncBuilders

LEMMA DisputesInstructions ==
  \A op \in Ops("disputes") :
    SameInstruction(op, DisputesC!Plugin[op], DisputesC!SyncBuilders[op], DisputesC!Identify)
<1> USE DEF SameInstruction, DisputesC!FixedOnly, DisputesC!Builder
<1>1. SameInstruction("addAdmin", DisputesC!AddAdmin, DisputesC!AddAdminSync, DisputesC!Identify)
  BY DEF DisputesC!AddAdmin, DisputesC!AddAdminSync, DisputesC!Identify
<1>2. SameInstruction("closeDispute", DisputesC!CloseDispute, DisputesC!CloseDisputeSync, DisputesC!Identify)
  BY DEF DisputesC!CloseDispute, DisputesC!CloseDisputeSync, DisputesC!Identify
<1>3. SameInstruction("deleteAdmin", DisputesC!DeleteAdmin, DisputesC!DeleteAdminSync, DisputesC!Identify)
  BY DEF DisputesC!DeleteAdmin, DisputesC!DeleteAdminSync, DisputesC!Identify
<1>4. SameInstruction("escalateDispute", DisputesC!EscalateDispute, DisputesC!EscalateDispute, DisputesC!Identify)
  BY DEF DisputesC!EscalateDispute, DisputesC!Identify
<1>5. SameInstruction("initializeConfig", DisputesC!InitializeConfig, DisputesC!InitializeConfigSync,
                      DisputesC!Identify)
  BY DEF DisputesC!InitializeConfig, DisputesC!InitializeConfigSync, DisputesC!Identify
<1>6. SameInstruction("linkEvidente", DisputesC!LinkEvidente, DisputesC!LinkEvidenteSync, DisputesC!Identify)
  BY DEF DisputesC!LinkEvidente, DisputesC!LinkEvidenteSync, DisputesC!Identify
<1>7. SameInstruction("openDispute", DisputesC!OpenDispute, DisputesC!OpenDisputeSync, DisputesC!Identify)
  BY DEF DisputesC!OpenDispute, DisputesC!OpenDisputeSync, DisputesC!Identify
<1>8. SameInstruction("resolveDispute", DisputesC!ResolveDispute, DisputesC!ResolveDisputeSync,
                      DisputesC!Identify)
  BY DEF DisputesC!ResolveDispute, DisputesC!ResolveDisputeSync, DisputesC!Identify
<1>9. SameInstruction("solveDisputeBeforeAdmin", DisputesC!SolveDisputeBeforeAdmin, DisputesC!SolveDisputeBeforeAdminSync,
                      DisputesC!Identify)
  BY DEF DisputesC!SolveDisputeBeforeAdmin, DisputesC!SolveDisputeBeforeAdminSync,
       DisputesC!Identify
<1> QED BY <1>1, <1>2, <1>3, <1>4, <1>5, <1>6, <1>7, <1>8, <1>9
  DEF Ops, Demands, DisputesA!Rules, DisputesC!Plugin, DisputesC!SyncBuilders

LEMMA EscrowInstructions ==
  \A op \in Ops("escrow") :
    SameInstruction(op, EscrowC!Plugin[op], EscrowC!SyncBuilders[op], EscrowC!Identify)
<1> USE DEF SameInstruction, EscrowC!FixedOnly, EscrowC!Builder
<1>1. SameInstruction("bookingCompletes", EscrowC!BookingCompletes, EscrowC!BookingCompletes,
                      EscrowC!Identify)
  BY DEF EscrowC!BookingCompletes, EscrowC!Identify
<1>2. SameInstruction("bookingStarts", EscrowC!BookingStarts, EscrowC!BookingStartsSync, EscrowC!Identify)
  BY DEF EscrowC!BookingStarts, EscrowC!BookingStartsSync, EscrowC!Identify
<1>3. SameInstruction("cpiResolveDisputeTransfer", EscrowC!CpiResolveDisputeTransfer, EscrowC!CpiResolveDisputeTransferSync,
                      EscrowC!Identify)
  BY DEF EscrowC!CpiResolveDisputeTransfer, EscrowC!CpiResolveDisputeTransferSync,
       EscrowC!Identify
<1>4. SameInstruction("cpiUpdateBookingStatus", EscrowC!CpiUpdateBookingStatus, EscrowC!CpiUpdateBookingStatusSync,
                      EscrowC!Identify)
  BY DEF EscrowC!CpiUpdateBookingStatus, EscrowC!CpiUpdateBookingStatusSync,
       EscrowC!Identify
<1>5. SameInstruction("createBooking", EscrowC!CreateBooking, EscrowC!CreateBookingSync, EscrowC!Identify)
  BY DEF EscrowC!CreateBooking, EscrowC!CreateBookingSync, EscrowC!Identify
<1>6. SameInstruction("createBookingCrossYear", EscrowC!CreateBookingCrossYear, EscrowC!CreateBookingCrossYearSync,
                      EscrowC!Identify)
  BY DEF EscrowC!CreateBookingCrossYear, EscrowC!CreateBookingCrossYearSync,
       EscrowC!Identify
<1>7. SameInstruction("expireBooking", EscrowC!ExpireBooking, EscrowC!ExpireBookingSync, EscrowC!Identify)
  BY DEF EscrowC!ExpireBooking, EscrowC!ExpireBookingSync, EscrowC!Identify
<1>8. SameInstruction("expireBookingCrossYear", EscrowC!ExpireBookingCrossYear, EscrowC!ExpireBookingCrossYearSync,
                      EscrowC!Identify)
  BY DEF EscrowC!ExpireBookingCrossYear, EscrowC!ExpireBookingCrossYearSync,
       EscrowC!Identify
<1>9. SameInstruction("guestCancelBooking", EscrowC!GuestCancelBooking, EscrowC!GuestCancelBookingSync,
                      EscrowC!Identify)
  BY DEF EscrowC!GuestCancelBooking, EscrowC!GuestCancelBookingSync, EscrowC!Identify
<1>10. SameInstruction("guestCancelBookingCrossYear", EscrowC!GuestCancelBookingCrossYear, EscrowC!GuestCancelBookingCrossYearSync,
                       EscrowC!Identify)
  BY DEF EscrowC!GuestCancelBookingCrossYear, EscrowC!GuestCancelBookingCrossYearSync,
       EscrowC!Identify
<1>11. SameInstruction("guestReview", EscrowC!GuestReview, EscrowC!GuestReviewSync, EscrowC!Identify)
  BY DEF EscrowC!GuestReview, EscrowC!GuestReviewSync, EscrowC!Identify
<1>12. SameInstruction("hostAcceptBooking", EscrowC!HostAcceptBooking, EscrowC!HostAcceptBookingSync,
                       EscrowC!Identify)
  BY DEF EscrowC!HostAcceptBooking, EscrowC!HostAcceptBookingSync, EscrowC!Identify
<1>13. SameInstruction("hostCancelBooking", EscrowC!HostCancelBooking, EscrowC!HostCancelBookingSync,
                       EscrowC!Identify)
  BY DEF EscrowC!HostCancelBooking, EscrowC!HostCancelBookingSync, EscrowC!Identify
<1>14. SameInstruction("hostCancelBookingCrossYear", EscrowC!HostCancelBookingCrossYear, EscrowC!HostCancelBookingCrossYearSync,
                       EscrowC!Identify)
  BY DEF EscrowC!HostCancelBookingCrossYear, EscrowC!HostCancelBookingCrossYearSync,
       EscrowC!Identify
<1>15. SameInstruction("hostRejectBooking", EscrowC!HostRejectBooking, EscrowC!HostRejectBookingSync,
                       EscrowC!Identify)
  BY DEF EscrowC!HostRejectBooking, EscrowC!HostRejectBookingSync, EscrowC!Identify
<1>16. SameInstruction("hostRejectBookingCrossYear", EscrowC!HostRejectBookingCrossYear, EscrowC!HostRejectBookingCrossYearSync,
                       EscrowC!Identify)
  BY DEF EscrowC!HostRejectBookingCrossYear, EscrowC!HostRejectBookingCrossYearSync,
       EscrowC!Identify
<1>17. SameInstruction("hostReview", EscrowC!HostReview, EscrowC!HostReviewSync, EscrowC!Identify)
  BY DEF EscrowC!HostReview, EscrowC!HostReviewSync, EscrowC!Identify
<1>18. SameInstruction("initializeEscrow", EscrowC!InitializeEscrow, EscrowC!InitializeEscrowSync,
                       EscrowC!Identify)
  BY DEF EscrowC!InitializeEscrow, EscrowC!InitializeEscrowSync, EscrowC!Identify
<1>19. SameInstruction("releaseFunds", EscrowC!ReleaseFunds, EscrowC!ReleaseFundsSync, EscrowC!Identify)
  BY DEF EscrowC!ReleaseFunds, EscrowC!ReleaseFundsSync, EscrowC!Identify
<1> QED BY <1>1, <1>2, <1>3, <1>4, <1>5, <1>6, <1>7, <1>8, <1>9, <1>10, <1>11, <1>12,
    <1>13, <1>14, <1>15, <1>16, <1>17, <1>18, <1>19
  DEF Ops, Demands, EscrowA!Rules, EscrowC!Plugin, EscrowC!SyncBuilders

LEMMA TreasuryInstructions ==
  \A op \in Ops("treasury") :
    SameInstruction(op, TreasuryC!Plugin[op], TreasuryC!SyncBuilders[op], TreasuryC!Identify)
<1> USE DEF SameInstruction, TreasuryC!FixedOnly, TreasuryC!Builder
<1>1. SameInstruction("cpiPenalizeTransfer", TreasuryC!CpiPenalizeTransfer, TreasuryC!CpiPenalizeTransferSync,
                      TreasuryC!Identify)
  BY DEF TreasuryC!CpiPenalizeTransfer, TreasuryC!CpiPenalizeTransferSync,
       TreasuryC!Identify
<1>2. SameInstruction("depositGuarantee", TreasuryC!DepositGuarantee, TreasuryC!DepositGuaranteeSync,
                      TreasuryC!Identify)
  BY DEF TreasuryC!DepositGuarantee, TreasuryC!DepositGuaranteeSync, TreasuryC!Identify
<1>3. SameInstruction("initializeTreasury", TreasuryC!InitializeTreasury, TreasuryC!InitializeTreasurySync,
                      TreasuryC!Identify)
  BY DEF TreasuryC!InitializeTreasury, TreasuryC!InitializeTreasurySync,
       TreasuryC!Identify
<1>4. SameInstruction("withdrawGuarantee", TreasuryC!WithdrawGuarantee, TreasuryC!WithdrawGuaranteeSync,
                      TreasuryC!Identify)
  BY DEF TreasuryC!WithdrawGuarantee, TreasuryC!WithdrawGuaranteeSync,
       TreasuryC!Identify
<1> QED BY <1>1, <1>2, <1>3, <1>4
  DEF Ops, Demands, TreasuryA!Rules, TreasuryC!Plugin, TreasuryC!SyncBuilders

-----------------------------------------------------------------------------
(***************************************************************************)
(* They name the accounts that the parser and the rules name, in the same  *)
(* order.                                                                  *)
(***************************************************************************)
SameOrder(metas, names, rules) ==
  /\ DOMAIN metas = DOMAIN names /\ DOMAIN rules = DOMAIN names
  /\ \A i \in DOMAIN names : metas[i].name = names[i] /\ rules[i].name = names[i]

LEMMA ConfigOrder ==
  \A op \in Ops("config") :
    SameOrder(ConfigC!Plugin[op].accounts, ConfigC!Parsers[op], ConfigA!Rules[op])
<1> USE DEF SameOrder, ConfigC!Builder, ConfigC!Meta, ConfigC!R, ConfigC!W, ConfigC!RS,
    ConfigC!WS, ConfigA!GlobalConfigRule, ConfigA!Mut, ConfigA!MutSigns, ConfigA!New,
    ConfigA!ProgramRule, ConfigA!Ro, ConfigA!Rule, ConfigA!Signs, ConfigA!SystemRule,
    ConfigA!TokenRule, ConfigA!Unchecked, ConfigA!VaultRule
<1>1. SameOrder(ConfigC!InitializeConfig.accounts, ConfigC!InitializeConfigParse,
                ConfigA!InitializeConfig)
  BY SMTT(40) DEF ConfigC!InitializeConfig, ConfigC!InitializeConfigParse,
       ConfigA!InitializeConfig
<1>2. SameOrder(ConfigC!WithdrawFees.accounts, ConfigC!WithdrawFeesParse,
                ConfigA!WithdrawFees)
  BY SMTT(40) DEF ConfigC!WithdrawFees, ConfigC!WithdrawFeesParse, ConfigA!WithdrawFees
<1> HIDE DEF SameOrder
<1> QED BY <1>1, <1>2
  DEF Ops, Demands, ConfigA!Rules, ConfigC!Plugin, ConfigC!Parsers

LEMMA CoreOrder ==
  \A op \in Ops("core") :
    SameOrder(CoreC!Plugin[op].accounts, CoreC!Parsers[op], CoreA!Rules[op])
<1> USE DEF SameOrder, CoreC!Builder, CoreC!Meta, CoreC!R, CoreC!W, CoreC!RS, CoreC!WS,
    CoreA!Callers, CoreA!GlobalConfigRule, CoreA!Mut, CoreA!MutSigns, CoreA!New,
    CoreA!OneOf, CoreA!ProgramRule, CoreA!Ro, CoreA!Rule, CoreA!Signs, CoreA!SystemRule,
    CoreA!Unchecked
<1>1. SameOrder(CoreC!AddInfraction.accounts, CoreC!AddInfractionParse,
                CoreA!UpdateReputationProfile({"disputes"}))
  BY SMTT(40) DEF CoreC!AddInfraction, CoreC!AddInfractionParse,
       CoreA!UpdateReputationProfile
<1>2. SameOrder(CoreC!ClearActiveBooking.accounts, CoreC!ClearActiveBookingParse,
                CoreA!UpdateUserProfile({"disputes", "escrow"}))
  BY SMTT(40) DEF CoreC!ClearActiveBooking, CoreC!ClearActiveBookingParse,
       CoreA!UpdateUserProfile
<1>3. SameOrder(CoreC!ClearListingBooking.accounts, CoreC!ClearListingBookingParse,
                CoreA!ClearListingBooking)
  BY SMTT(40) DEF CoreC!ClearListingBooking, CoreC!ClearListingBookingParse,
       CoreA!ClearListingBooking
<1>4. SameOrder(CoreC!IncrementClientCancellations.accounts, CoreC!IncrementClientCancellationsParse,
                CoreA!UpdateReputationProfile({"escrow"}))
  BY SMTT(40) DEF CoreC!IncrementClientCancellations,
       CoreC!IncrementClientCancellationsParse, CoreA!UpdateReputationProfile
<1>5. SameOrder(CoreC!IncrementCompletedStays.accounts, CoreC!IncrementCompletedStaysParse,
                CoreA!UpdateUserProfile({"escrow", "disputes"}))
  BY SMTT(40) DEF CoreC!IncrementCompletedStays, CoreC!IncrementCompletedStaysParse,
       CoreA!UpdateUserProfile
<1>6. SameOrder(CoreC!IncrementHostCancellations.accounts, CoreC!IncrementHostCancellationsParse,
                CoreA!UpdateReputationProfile({"escrow"}))
  BY SMTT(40) DEF CoreC!IncrementHostCancellations,
       CoreC!IncrementHostCancellationsParse, CoreA!UpdateReputationProfile
<1>7. SameOrder(CoreC!IncrementHostedStays.accounts, CoreC!IncrementHostedStaysParse,
                CoreA!UpdateUserProfile({"escrow", "disputes"}))
  BY SMTT(40) DEF CoreC!IncrementHostedStays, CoreC!IncrementHostedStaysParse,
       CoreA!UpdateUserProfile
<1>8. SameOrder(CoreC!InitIdentity.accounts, CoreC!InitIdentityParse,
                CoreA!InitIdentity)
  BY SMTT(40) DEF CoreC!InitIdentity, CoreC!InitIdentityParse, CoreA!InitIdentity
<1>9. SameOrder(CoreC!InitializeConfig.accounts, CoreC!InitializeConfigParse,
                CoreA!InitializeConfig)
  BY SMTT(40) DEF CoreC!InitializeConfig, CoreC!InitializeConfigParse,
       CoreA!InitializeConfig
<1>10. SameOrder(CoreC!InitializeListing.accounts, CoreC!InitializeListingParse,
                 CoreA!InitializeListing)
  BY SMTT(40) DEF CoreC!InitializeListing, CoreC!InitializeListingParse,
       CoreA!InitializeListing
<1>11. SameOrder(CoreC!InitializeUserProfile.accounts, CoreC!InitializeUserProfileParse,
                 CoreA!InitializeUserProfile)
  BY SMTT(40) DEF CoreC!InitializeUserProfile, CoreC!InitializeUserProfileParse,
       CoreA!InitializeUserProfile
<1>12. SameOrder(CoreC!LinkIdentity.accounts, CoreC!LinkIdentityParse,
                 CoreA!LinkIdentity)
  BY SMTT(40) DEF CoreC!LinkIdentity, CoreC!LinkIdentityParse, CoreA!LinkIdentity
<1>13. SameOrder(CoreC!SetActiveBooking.accounts, CoreC!SetActiveBookingParse,
                 CoreA!UpdateUserProfile({"escrow"}))
  BY SMTT(40) DEF CoreC!SetActiveBooking, CoreC!SetActiveBookingParse,
       CoreA!UpdateUserProfile
<1>14. SameOrder(CoreC!SetListingOccupied.accounts, CoreC!SetListingOccupiedParse,
                 CoreA!SetListingOccupied)
  BY SMTT(40) DEF CoreC!SetListingOccupied, CoreC!SetListingOccupiedParse,
       CoreA!SetListingOccupied
<1>15. SameOrder(CoreC!UpdateClientReview.accounts, CoreC!UpdateClientReviewParse,
                 CoreA!UpdateClientReview)
  BY SMTT(40) DEF CoreC!UpdateClientReview, CoreC!UpdateClientReviewParse,
       CoreA!UpdateClientReview
<1>16. SameOrder(CoreC!UpdateDeposit.accounts, CoreC!UpdateDepositParse,
                 CoreA!UpdateUserProfile({"treasury", "disputes", "escrow"}))
  BY SMTT(40) DEF CoreC!UpdateDeposit, CoreC!UpdateDepositParse, CoreA!UpdateUserProfile
<1>17. SameOrder(CoreC!UpdateHostReview.accounts, CoreC!UpdateHostReviewParse,
                 CoreA!UpdateHostReview)
  BY SMTT(40) DEF CoreC!UpdateHostReview, CoreC!UpdateHostReviewParse,
       CoreA!UpdateHostReview
<1>18. SameOrder(CoreC!UpdateListingPrice.accounts, CoreC!UpdateListingPriceParse,
                 CoreA!UpdateListing)
  BY SMTT(40) DEF CoreC!UpdateListingPrice, CoreC!UpdateListingPriceParse,
       CoreA!UpdateListing
<1>19. SameOrder(CoreC!UpdateListingPublish.accounts, CoreC!UpdateListingPublishParse,
                 CoreA!UpdateListing)
  BY SMTT(40) DEF CoreC!UpdateListingPublish, CoreC!UpdateListingPublishParse,
       CoreA!UpdateListing
<1>20. SameOrder(CoreC!UpdateListingReview.accounts, CoreC!UpdateListingReviewParse,
                 CoreA!UpdateListingReview)
  BY SMTT(40) DEF CoreC!UpdateListingReview, CoreC!UpdateListingReviewParse,
       CoreA!UpdateListingReview
<1>21. SameOrder(CoreC!UpdateListingState.accounts, CoreC!UpdateListingStateParse,
                 CoreA!UpdateListing)
  BY SMTT(40) DEF CoreC!UpdateListingState, CoreC!UpdateListingStateParse,
       CoreA!UpdateListing
<1> HIDE DEF SameOrder
<1> QED BY <1>1, <1>2, <1>3, <1>4, <1>5, <1>6, <1>7, <1>8, <1>9, <1>10, <1>11, <1>12,
    <1>13, <1>14, <1>15, <1>16, <1>17, <1>18, <1>19, <1>20, <1>21
  DEF Ops, Demands, CoreA!Rules, CoreC!Plugin, CoreC!Parsers

LEMMA DisputesOrder ==
  /\ \A op \in Ops("disputes") :
       SameOrder(DisputesC!Plugin[op].accounts, DisputesC!Parsers[op], DisputesA!Rules[op])
  /\ SameOrder(DisputesC!Plugin["resolveDispute"].accounts, DisputesC!Parsers["resolveDispute"],
               DisputesA!ResolveWithoutFault)
<1> USE DEF SameOrder, DisputesC!Builder, DisputesC!Meta, DisputesC!R, DisputesC!W,
    DisputesC!RS, DisputesC!WS, DisputesA!AuthorityRule, DisputesA!BookingRule,
    DisputesA!Closed, DisputesA!CoreProgramRule, DisputesA!DisputeConfigRule,
    DisputesA!EscrowProgramRule, DisputesA!GlobalConfigRule, DisputesA!Mut,
    DisputesA!MutMintRule, DisputesA!MutSigns, DisputesA!New, DisputesA!OneOf,
    DisputesA!PartyRule, DisputesA!ProgramRule, DisputesA!Ro, DisputesA!Rule,
    DisputesA!Signs, DisputesA!SystemRule, DisputesA!TokenRule, DisputesA!Unchecked,
    DisputesA!VaultRule
<1>1. SameOrder(DisputesC!AddAdmin.accounts, DisputesC!AddAdminParse,
                DisputesA!AddAdmin)
  BY SMTT(40) DEF DisputesC!AddAdmin, DisputesC!AddAdminParse, DisputesA!AddAdmin
<1>2. SameOrder(DisputesC!CloseDispute.accounts, DisputesC!CloseDisputeParse,
                DisputesA!CloseDispute)
  BY SMTT(40) DEF DisputesC!CloseDispute, DisputesC!CloseDisputeParse,
       DisputesA!CloseDispute
<1>3. SameOrder(DisputesC!DeleteAdmin.accounts, DisputesC!DeleteAdminParse,
                DisputesA!DeleteAdmin)
  BY SMTT(40) DEF DisputesC!DeleteAdmin, DisputesC!DeleteAdminParse,
       DisputesA!DeleteAdmin
<1>4. SameOrder(DisputesC!EscalateDispute.accounts, DisputesC!EscalateDisputeParse,
                DisputesA!EscalateDispute)
  BY SMTT(40) DEF DisputesC!EscalateDispute, DisputesC!EscalateDisputeParse,
       DisputesA!EscalateDispute
<1>5. SameOrder(DisputesC!InitializeConfig.accounts, DisputesC!InitializeConfigParse,
                DisputesA!InitializeConfig)
  BY SMTT(40) DEF DisputesC!InitializeConfig, DisputesC!InitializeConfigParse,
       DisputesA!InitializeConfig
<1>6. SameOrder(DisputesC!LinkEvidente.accounts, DisputesC!LinkEvidenteParse,
                DisputesA!LinkEvidence)
  BY SMTT(40) DEF DisputesC!LinkEvidente, DisputesC!LinkEvidenteParse,
       DisputesA!LinkEvidence
<1>7. SameOrder(DisputesC!OpenDispute.accounts, DisputesC!OpenDisputeParse,
                DisputesA!OpenDispute)
  BY SMTT(40) DEF DisputesC!OpenDispute, DisputesC!OpenDisputeParse,
       DisputesA!OpenDispute
<1>8. SameOrder(DisputesC!ResolveDispute.accounts, DisputesC!ResolveDisputeParse,
                DisputesA!ResolveDispute)
  BY SMTT(40) DEF DisputesC!ResolveDispute, DisputesC!ResolveDisputeParse,
       DisputesA!ResolveDispute, DisputesA!ResolveDisputeWith, DisputesA!GuiltyReputation
<1>10. SameOrder(DisputesC!ResolveDispute.accounts, DisputesC!ResolveDisputeParse,
                 DisputesA!ResolveWithoutFault)
  BY SMTT(40) DEF DisputesC!ResolveDispute, DisputesC!ResolveDisputeParse,
       DisputesA!ResolveWithoutFault, DisputesA!ResolveDisputeWith, DisputesA!GuiltyReputation
<1>9. SameOrder(DisputesC!SolveDisputeBeforeAdmin.accounts, DisputesC!SolveDisputeBeforeAdminParse,
                DisputesA!SolveDisputeBeforeAdmin)
  BY SMTT(40) DEF DisputesC!SolveDisputeBeforeAdmin,
       DisputesC!SolveDisputeBeforeAdminParse, DisputesA!SolveDisputeBeforeAdmin
<1> HIDE DEF SameOrder
<1> QED BY <1>1, <1>2, <1>3, <1>4, <1>5, <1>6, <1>7, <1>8, <1>9, <1>10
  DEF Ops, Demands, DisputesA!Rules, DisputesC!Plugin, DisputesC!Parsers

LEMMA EscrowOrder ==
  \A op \in Ops("escrow") :
    SameOrder(EscrowC!Plugin[op].accounts, EscrowC!Parsers[op], EscrowA!Rules[op])
<1> USE DEF SameOrder, EscrowC!Builder, EscrowC!Meta, EscrowC!R, EscrowC!W, EscrowC!RS,
    EscrowC!WS, EscrowA!AuthorityRule, EscrowA!BookedDays, EscrowA!BookingRule,
    EscrowA!Callers, EscrowA!Closed, EscrowA!CoreProgramRule, EscrowA!CreditedSigns,
    EscrowA!DaysRule, EscrowA!GlobalConfigRule, EscrowA!MintRule, EscrowA!Mut,
    EscrowA!MutMintRule, EscrowA!MutPartyRule, EscrowA!MutSigns, EscrowA!Needed,
    EscrowA!New, EscrowA!NextDaysRule, EscrowA!OneOf, EscrowA!OwnTokensRule,
    EscrowA!PartyRule, EscrowA!ProgramRule, EscrowA!Ro, EscrowA!Rule, EscrowA!Signs,
    EscrowA!SystemRule, EscrowA!TokenRule, EscrowA!TokensRule, EscrowA!Unchecked,
    EscrowA!VaultRule
<1>1. SameOrder(EscrowC!BookingCompletes.accounts, EscrowC!BookingCompletesParse,
                EscrowA!BookingCompletes)
  BY SMTT(40) DEF EscrowC!BookingCompletes, EscrowC!BookingCompletesParse,
       EscrowA!BookingCompletes
<1>2. SameOrder(EscrowC!BookingStarts.accounts, EscrowC!BookingStartsParse,
                EscrowA!BookingStarts)
  BY SMTT(40) DEF EscrowC!BookingStarts, EscrowC!BookingStartsParse,
       EscrowA!BookingStarts
<1>3. SameOrder(EscrowC!CpiResolveDisputeTransfer.accounts, EscrowC!CpiResolveDisputeTransferParse,
                EscrowA!ResolveDisputeTransferCpi)
  BY SMTT(40) DEF EscrowC!CpiResolveDisputeTransfer,
       EscrowC!CpiResolveDisputeTransferParse, EscrowA!ResolveDisputeTransferCpi
<1>4. SameOrder(EscrowC!CpiUpdateBookingStatus.accounts, EscrowC!CpiUpdateBookingStatusParse,
                EscrowA!UpdateBookingStatusCpi)
  BY SMTT(40) DEF EscrowC!CpiUpdateBookingStatus, EscrowC!CpiUpdateBookingStatusParse,
       EscrowA!UpdateBookingStatusCpi
<1>5. SameOrder(EscrowC!CreateBooking.accounts, EscrowC!CreateBookingParse,
                EscrowA!CreateBooking)
  BY SMTT(40) DEF EscrowC!CreateBooking, EscrowC!CreateBookingParse,
       EscrowA!CreateBooking, EscrowA!CreateBookingWith
<1>6. SameOrder(EscrowC!CreateBookingCrossYear.accounts, EscrowC!CreateBookingCrossYearParse,
                EscrowA!CreateBookingCrossYear)
  BY SMTT(40) DEF EscrowC!CreateBookingCrossYear, EscrowC!CreateBookingCrossYearParse,
       EscrowA!CreateBookingCrossYear, EscrowA!CreateBookingWith
<1>7. SameOrder(EscrowC!ExpireBooking.accounts, EscrowC!ExpireBookingParse,
                EscrowA!ExpireBooking)
  BY SMTT(40) DEF EscrowC!ExpireBooking, EscrowC!ExpireBookingParse,
       EscrowA!ExpireBooking, EscrowA!ExpireBookingWith
<1>8. SameOrder(EscrowC!ExpireBookingCrossYear.accounts, EscrowC!ExpireBookingCrossYearParse,
                EscrowA!ExpireBookingCrossYear)
  BY SMTT(40) DEF EscrowC!ExpireBookingCrossYear, EscrowC!ExpireBookingCrossYearParse,
       EscrowA!ExpireBookingCrossYear, EscrowA!ExpireBookingWith
<1>9. SameOrder(EscrowC!GuestCancelBooking.accounts, EscrowC!GuestCancelBookingParse,
                EscrowA!GuestCancelBooking)
  BY SMTT(40) DEF EscrowC!GuestCancelBooking, EscrowC!GuestCancelBookingParse,
       EscrowA!GuestCancelBooking, EscrowA!GuestCancelBookingWith
<1>10. SameOrder(EscrowC!GuestCancelBookingCrossYear.accounts, EscrowC!GuestCancelBookingCrossYearParse,
                 EscrowA!GuestCancelBookingCrossYear)
  BY SMTT(40) DEF EscrowC!GuestCancelBookingCrossYear,
       EscrowC!GuestCancelBookingCrossYearParse, EscrowA!GuestCancelBookingCrossYear,
       EscrowA!GuestCancelBookingWith
<1>11. SameOrder(EscrowC!GuestReview.accounts, EscrowC!GuestReviewParse,
                 EscrowA!GuestReview)
  BY SMTT(40) DEF EscrowC!GuestReview, EscrowC!GuestReviewParse, EscrowA!GuestReview
<1>12. SameOrder(EscrowC!HostAcceptBooking.accounts, EscrowC!HostAcceptBookingParse,
                 EscrowA!HostAcceptBooking)
  BY SMTT(40) DEF EscrowC!HostAcceptBooking, EscrowC!HostAcceptBookingParse,
       EscrowA!HostAcceptBooking
<1>13. SameOrder(EscrowC!HostCancelBooking.accounts, EscrowC!HostCancelBookingParse,
                 EscrowA!HostCancelBooking)
  BY SMTT(40) DEF EscrowC!HostCancelBooking, EscrowC!HostCancelBookingParse,
       EscrowA!HostCancelBooking, EscrowA!HostCancelBookingWith
<1>14. SameOrder(EscrowC!HostCancelBookingCrossYear.accounts, EscrowC!HostCancelBookingCrossYearParse,
                 EscrowA!HostCancelBookingCrossYear)
  BY SMTT(40) DEF EscrowC!HostCancelBookingCrossYear,
       EscrowC!HostCancelBookingCrossYearParse, EscrowA!HostCancelBookingCrossYear,
       EscrowA!HostCancelBookingWith
<1>15. SameOrder(EscrowC!HostRejectBooking.accounts, EscrowC!HostRejectBookingParse,
                 EscrowA!HostRejectBooking)
  BY SMTT(40) DEF EscrowC!HostRejectBooking, EscrowC!HostRejectBookingParse,
       EscrowA!HostRejectBooking, EscrowA!Rejection
<1>16. SameOrder(EscrowC!HostRejectBookingCrossYear.accounts, EscrowC!HostRejectBookingCrossYearParse,
                 EscrowA!HostRejectBookingCrossYear)
  BY SMTT(40) DEF EscrowC!HostRejectBookingCrossYear,
       EscrowC!HostRejectBookingCrossYearParse, EscrowA!HostRejectBookingCrossYear,
       EscrowA!Rejection
<1>17. SameOrder(EscrowC!HostReview.accounts, EscrowC!HostReviewParse,
                 EscrowA!HostReview)
  BY SMTT(40) DEF EscrowC!HostReview, EscrowC!HostReviewParse, EscrowA!HostReview
<1>18. SameOrder(EscrowC!InitializeEscrow.accounts, EscrowC!InitializeEscrowParse,
                 EscrowA!InitializeConfigEscrow)
  BY SMTT(40) DEF EscrowC!InitializeEscrow, EscrowC!InitializeEscrowParse,
       EscrowA!InitializeConfigEscrow
<1>19. SameOrder(EscrowC!ReleaseFunds.accounts, EscrowC!ReleaseFundsParse,
                 EscrowA!ReleaseFunds)
  BY SMTT(40) DEF EscrowC!ReleaseFunds, EscrowC!ReleaseFundsParse, EscrowA!ReleaseFunds
<1> HIDE DEF SameOrder
<1> QED BY <1>1, <1>2, <1>3, <1>4, <1>5, <1>6, <1>7, <1>8, <1>9, <1>10, <1>11, <1>12,
    <1>13, <1>14, <1>15, <1>16, <1>17, <1>18, <1>19
  DEF Ops, Demands, EscrowA!Rules, EscrowC!Plugin, EscrowC!Parsers

LEMMA TreasuryOrder ==
  \A op \in Ops("treasury") :
    SameOrder(TreasuryC!Plugin[op].accounts, TreasuryC!Parsers[op], TreasuryA!Rules[op])
<1> USE DEF SameOrder, TreasuryC!Builder, TreasuryC!Meta, TreasuryC!R, TreasuryC!W,
    TreasuryC!RS, TreasuryC!WS, TreasuryA!Callers, TreasuryA!GlobalConfigRule,
    TreasuryA!MintRule, TreasuryA!Mut, TreasuryA!MutSigns, TreasuryA!New,
    TreasuryA!OneOf, TreasuryA!ProgramRule, TreasuryA!Ro, TreasuryA!Rule,
    TreasuryA!Signs, TreasuryA!SystemRule, TreasuryA!TokenRule, TreasuryA!TreasuryRule,
    TreasuryA!Unchecked
<1>1. SameOrder(TreasuryC!CpiPenalizeTransfer.accounts, TreasuryC!CpiPenalizeTransferParse,
                TreasuryA!PenalizeTransferCpi)
  BY SMTT(40) DEF TreasuryC!CpiPenalizeTransfer, TreasuryC!CpiPenalizeTransferParse,
       TreasuryA!PenalizeTransferCpi
<1>2. SameOrder(TreasuryC!DepositGuarantee.accounts, TreasuryC!DepositGuaranteeParse,
                TreasuryA!DepositGuarantee)
  BY SMTT(40) DEF TreasuryC!DepositGuarantee, TreasuryC!DepositGuaranteeParse,
       TreasuryA!DepositGuarantee
<1>3. SameOrder(TreasuryC!InitializeTreasury.accounts, TreasuryC!InitializeTreasuryParse,
                TreasuryA!InitializeTreasury)
  BY SMTT(40) DEF TreasuryC!InitializeTreasury, TreasuryC!InitializeTreasuryParse,
       TreasuryA!InitializeTreasury
<1>4. SameOrder(TreasuryC!WithdrawGuarantee.accounts, TreasuryC!WithdrawGuaranteeParse,
                TreasuryA!WithdrawGuarantee)
  BY SMTT(40) DEF TreasuryC!WithdrawGuarantee, TreasuryC!WithdrawGuaranteeParse,
       TreasuryA!WithdrawGuarantee
<1> HIDE DEF SameOrder
<1> QED BY <1>1, <1>2, <1>3, <1>4
  DEF Ops, Demands, TreasuryA!Rules, TreasuryC!Plugin, TreasuryC!Parsers

-----------------------------------------------------------------------------
(***************************************************************************)
(* What other programs call, their authority signs, and no one else.       *)
(***************************************************************************)
Entry(rules, i, programs) ==
  /\ i \in DOMAIN rules
  /\ programs # {} /\ programs \subseteq Callable
  /\ rules[i] = Callers(programs)

Guarded(builder, rules) ==
  CpiOnly(builder) => \E i, programs : Entry(rules, i, programs)

LEMMA ConfigEntries ==
  \A op \in Ops("config") : Guarded(ConfigC!Plugin[op], ConfigA!Rules[op])
<1> USE DEF ConfigC!Builder, ConfigC!Meta, ConfigC!R, ConfigC!W, ConfigC!RS, ConfigC!WS
<1>1. ~ CpiOnly(ConfigC!InitializeConfig)
  BY DEF CpiOnly, ConfigC!InitializeConfig
<1>2. ~ CpiOnly(ConfigC!WithdrawFees)
  BY DEF CpiOnly, ConfigC!WithdrawFees
<1> QED BY <1>1, <1>2
  DEF Guarded, Ops, Demands, ConfigA!Rules, ConfigC!Plugin

LEMMA CoreEntries ==
  \A op \in Ops("core") : Guarded(CoreC!Plugin[op], CoreA!Rules[op])
<1> USE DEF CoreC!Builder, CoreC!Meta, CoreC!R, CoreC!W, CoreC!RS, CoreC!WS
<1>0. \A programs : CoreA!Callers(programs) = Callers(programs)
  BY DEF Callers, CoreA!Callers, OneOf, CoreA!OneOf, Signs, CoreA!Signs, Rule,
       CoreA!Rule, AnyType, CoreA!AnyType, CpiAuthority, CoreA!CpiAuthority, Derivation,
       CoreA!Derivation, Lit, CoreA!Lit
<1>1. Entry(CoreA!UpdateReputationProfile({"disputes"}), 3, {"disputes"})
  BY <1>0 DEF Entry, Callable, CoreA!UpdateReputationProfile
<1>2. Entry(CoreA!UpdateUserProfile({"disputes", "escrow"}), 3, {"disputes", "escrow"})
  BY <1>0 DEF Entry, Callable, CoreA!UpdateUserProfile
<1>3. Entry(CoreA!ClearListingBooking, 4, {"disputes", "escrow"})
  BY <1>0 DEF Entry, Callable, CoreA!ClearListingBooking
<1>4. Entry(CoreA!UpdateReputationProfile({"escrow"}), 3, {"escrow"})
  BY <1>0 DEF Entry, Callable, CoreA!UpdateReputationProfile
<1>5. Entry(CoreA!UpdateUserProfile({"escrow", "disputes"}), 3, {"escrow", "disputes"})
  BY <1>0 DEF Entry, Callable, CoreA!UpdateUserProfile
<1>6. Entry(CoreA!UpdateUserProfile({"escrow"}), 3, {"escrow"})
  BY <1>0 DEF Entry, Callable, CoreA!UpdateUserProfile
<1>7. Entry(CoreA!SetListingOccupied, 4, {"escrow"})
  BY <1>0 DEF Entry, Callable, CoreA!SetListingOccupied
<1>8. Entry(CoreA!UpdateClientReview, 4, {"escrow"})
  BY <1>0 DEF Entry, Callable, CoreA!UpdateClientReview
<1>9. Entry(CoreA!UpdateUserProfile({"treasury", "disputes", "escrow"}), 3,
            {"treasury", "disputes", "escrow"})
  BY <1>0 DEF Entry, Callable, CoreA!UpdateUserProfile
<1>10. Entry(CoreA!UpdateHostReview, 4, {"escrow"})
  BY <1>0 DEF Entry, Callable, CoreA!UpdateHostReview
<1>11. Entry(CoreA!UpdateListingReview, 4, {"escrow"})
  BY <1>0 DEF Entry, Callable, CoreA!UpdateListingReview
<1>12. ~ CpiOnly(CoreC!InitIdentity)
  BY DEF CpiOnly, CoreC!InitIdentity
<1>13. ~ CpiOnly(CoreC!InitializeConfig)
  BY DEF CpiOnly, CoreC!InitializeConfig
<1>14. ~ CpiOnly(CoreC!InitializeListing)
  BY DEF CpiOnly, CoreC!InitializeListing
<1>15. ~ CpiOnly(CoreC!InitializeUserProfile)
  BY DEF CpiOnly, CoreC!InitializeUserProfile
<1>16. ~ CpiOnly(CoreC!LinkIdentity)
  BY DEF CpiOnly, CoreC!LinkIdentity
<1>17. ~ CpiOnly(CoreC!UpdateListingPrice)
  BY DEF CpiOnly, CoreC!UpdateListingPrice
<1>18. ~ CpiOnly(CoreC!UpdateListingPublish)
  BY DEF CpiOnly, CoreC!UpdateListingPublish
<1>19. ~ CpiOnly(CoreC!UpdateListingState)
  BY DEF CpiOnly, CoreC!UpdateListingState
<1> QED BY <1>1, <1>2, <1>3, <1>4, <1>5, <1>6, <1>7, <1>8, <1>9, <1>10, <1>11, <1>12,
    <1>13, <1>14, <1>15, <1>16, <1>17, <1>18, <1>19
  DEF Guarded, Ops, Demands, CoreA!Rules, CoreC!Plugin

LEMMA DisputesEntries ==
  /\ \A op \in Ops("disputes") : Guarded(DisputesC!Plugin[op], DisputesA!Rules[op])
  /\ Guarded(DisputesC!Plugin["resolveDispute"], DisputesA!ResolveWithoutFault)
<1> USE DEF DisputesC!Builder, DisputesC!Meta, DisputesC!R, DisputesC!W, DisputesC!RS, DisputesC!WS
<1>1. ~ CpiOnly(DisputesC!AddAdmin)
  BY DEF CpiOnly, DisputesC!AddAdmin
<1>2. ~ CpiOnly(DisputesC!CloseDispute)
  BY DEF CpiOnly, DisputesC!CloseDispute
<1>3. ~ CpiOnly(DisputesC!DeleteAdmin)
  BY DEF CpiOnly, DisputesC!DeleteAdmin
<1>4. ~ CpiOnly(DisputesC!EscalateDispute)
  BY DEF CpiOnly, DisputesC!EscalateDispute
<1>5. ~ CpiOnly(DisputesC!InitializeConfig)
  BY DEF CpiOnly, DisputesC!InitializeConfig
<1>6. ~ CpiOnly(DisputesC!LinkEvidente)
  BY DEF CpiOnly, DisputesC!LinkEvidente
<1>7. ~ CpiOnly(DisputesC!OpenDispute)
  BY DEF CpiOnly, DisputesC!OpenDispute
<1>8. ~ CpiOnly(DisputesC!ResolveDispute)
  BY DEF CpiOnly, DisputesC!ResolveDispute
<1>9. ~ CpiOnly(DisputesC!SolveDisputeBeforeAdmin)
  BY DEF CpiOnly, DisputesC!SolveDisputeBeforeAdmin
<1> QED BY <1>1, <1>2, <1>3, <1>4, <1>5, <1>6, <1>7, <1>8, <1>9
  DEF Guarded, Ops, Demands, DisputesA!Rules, DisputesC!Plugin

LEMMA EscrowEntries ==
  \A op \in Ops("escrow") : Guarded(EscrowC!Plugin[op], EscrowA!Rules[op])
<1> USE DEF EscrowC!Builder, EscrowC!Meta, EscrowC!R, EscrowC!W, EscrowC!RS, EscrowC!WS
<1>0. \A programs : EscrowA!Callers(programs) = Callers(programs)
  BY DEF Callers, EscrowA!Callers, OneOf, EscrowA!OneOf, Signs, EscrowA!Signs, Rule,
       EscrowA!Rule, AnyType, EscrowA!AnyType, CpiAuthority, EscrowA!CpiAuthority,
       Derivation, EscrowA!Derivation, Lit, EscrowA!Lit
<1>1. Entry(EscrowA!ResolveDisputeTransferCpi, 1, {"disputes"})
  BY <1>0 DEF Entry, Callable, EscrowA!ResolveDisputeTransferCpi
<1>2. Entry(EscrowA!UpdateBookingStatusCpi, 3, {"disputes"})
  BY <1>0 DEF Entry, Callable, EscrowA!UpdateBookingStatusCpi
<1>3. ~ CpiOnly(EscrowC!BookingCompletes)
  BY DEF CpiOnly, EscrowC!BookingCompletes
<1>4. ~ CpiOnly(EscrowC!BookingStarts)
  BY DEF CpiOnly, EscrowC!BookingStarts
<1>5. ~ CpiOnly(EscrowC!CreateBooking)
  BY DEF CpiOnly, EscrowC!CreateBooking
<1>6. ~ CpiOnly(EscrowC!CreateBookingCrossYear)
  BY DEF CpiOnly, EscrowC!CreateBookingCrossYear
<1>7. ~ CpiOnly(EscrowC!ExpireBooking)
  BY DEF CpiOnly, EscrowC!ExpireBooking
<1>8. ~ CpiOnly(EscrowC!ExpireBookingCrossYear)
  BY DEF CpiOnly, EscrowC!ExpireBookingCrossYear
<1>9. ~ CpiOnly(EscrowC!GuestCancelBooking)
  BY DEF CpiOnly, EscrowC!GuestCancelBooking
<1>10. ~ CpiOnly(EscrowC!GuestCancelBookingCrossYear)
  BY DEF CpiOnly, EscrowC!GuestCancelBookingCrossYear
<1>11. ~ CpiOnly(EscrowC!GuestReview)
  BY DEF CpiOnly, EscrowC!GuestReview
<1>12. ~ CpiOnly(EscrowC!HostAcceptBooking)
  BY DEF CpiOnly, EscrowC!HostAcceptBooking
<1>13. ~ CpiOnly(EscrowC!HostCancelBooking)
  BY DEF CpiOnly, EscrowC!HostCancelBooking
<1>14. ~ CpiOnly(EscrowC!HostCancelBookingCrossYear)
  BY DEF CpiOnly, EscrowC!HostCancelBookingCrossYear
<1>15. ~ CpiOnly(EscrowC!HostRejectBooking)
  BY DEF CpiOnly, EscrowC!HostRejectBooking
<1>16. ~ CpiOnly(EscrowC!HostRejectBookingCrossYear)
  BY DEF CpiOnly, EscrowC!HostRejectBookingCrossYear
<1>17. ~ CpiOnly(EscrowC!HostReview)
  BY DEF CpiOnly, EscrowC!HostReview
<1>18. ~ CpiOnly(EscrowC!InitializeEscrow)
  BY DEF CpiOnly, EscrowC!InitializeEscrow
<1>19. ~ CpiOnly(EscrowC!ReleaseFunds)
  BY DEF CpiOnly, EscrowC!ReleaseFunds
<1> QED BY <1>1, <1>2, <1>3, <1>4, <1>5, <1>6, <1>7, <1>8, <1>9, <1>10, <1>11, <1>12,
    <1>13, <1>14, <1>15, <1>16, <1>17, <1>18, <1>19
  DEF Guarded, Ops, Demands, EscrowA!Rules, EscrowC!Plugin

LEMMA TreasuryEntries ==
  \A op \in Ops("treasury") : Guarded(TreasuryC!Plugin[op], TreasuryA!Rules[op])
<1> USE DEF TreasuryC!Builder, TreasuryC!Meta, TreasuryC!R, TreasuryC!W, TreasuryC!RS, TreasuryC!WS
<1>0. \A programs : TreasuryA!Callers(programs) = Callers(programs)
  BY DEF Callers, TreasuryA!Callers, OneOf, TreasuryA!OneOf, Signs, TreasuryA!Signs,
       Rule, TreasuryA!Rule, AnyType, TreasuryA!AnyType, CpiAuthority,
       TreasuryA!CpiAuthority, Derivation, TreasuryA!Derivation, Lit, TreasuryA!Lit
<1>1. Entry(TreasuryA!PenalizeTransferCpi, 1, {"disputes", "escrow"})
  BY <1>0 DEF Entry, Callable, TreasuryA!PenalizeTransferCpi
<1>2. ~ CpiOnly(TreasuryC!DepositGuarantee)
  BY DEF CpiOnly, TreasuryC!DepositGuarantee
<1>3. ~ CpiOnly(TreasuryC!InitializeTreasury)
  BY DEF CpiOnly, TreasuryC!InitializeTreasury
<1>4. ~ CpiOnly(TreasuryC!WithdrawGuarantee)
  BY DEF CpiOnly, TreasuryC!WithdrawGuarantee
<1> QED BY <1>1, <1>2, <1>3, <1>4
  DEF Guarded, Ops, Demands, TreasuryA!Rules, TreasuryC!Plugin

-----------------------------------------------------------------------------
(***************************************************************************)
(* The tables of both sides agree, whatever the request.                   *)
(***************************************************************************)
LEMMA EntriesAgree ==
  ASSUME NEW p \in Programs, NEW op \in Ops(p)
  PROVE  /\ SameInstruction(op, Plugins[p][op], Syncs[p][op], Identifies[p])
         /\ SameOrder(Plugins[p][op].accounts, Parsed[p][op], Demands[p][op])
         /\ Guarded(Plugins[p][op], Demands[p][op])
<1>1. p \in {"config", "core", "disputes", "escrow", "treasury"}
  BY DEF Programs, Plugins
<1>2. CASE p = "config"
  BY <1>2, ConfigInstructions, ConfigOrder, ConfigEntries
     DEF Plugins, Syncs, Identifies, Parsed, Demands
<1>3. CASE p = "core"
  BY <1>3, CoreInstructions, CoreOrder, CoreEntries
     DEF Plugins, Syncs, Identifies, Parsed, Demands
<1>4. CASE p = "disputes"
  BY <1>4, DisputesInstructions, DisputesOrder, DisputesEntries
     DEF Plugins, Syncs, Identifies, Parsed, Demands
<1>5. CASE p = "escrow"
  BY <1>5, EscrowInstructions, EscrowOrder, EscrowEntries
     DEF Plugins, Syncs, Identifies, Parsed, Demands
<1>6. CASE p = "treasury"
  BY <1>6, TreasuryInstructions, TreasuryOrder, TreasuryEntries
     DEF Plugins, Syncs, Identifies, Parsed, Demands
<1> QED BY <1>1, <1>2, <1>3, <1>4, <1>5, <1>6

LEMMA FaultlessAgrees ==
  LET op == "resolveDispute"
  IN /\ SameOrder(Plugins["disputes"][op].accounts, Parsed["disputes"][op],
                  DisputesA!ResolveWithoutFault)
     /\ Guarded(Plugins["disputes"][op], DisputesA!ResolveWithoutFault)
BY DisputesOrder, DisputesEntries DEF Plugins, Parsed

LEMMA RequestAgrees ==
  ASSUME NEW r \in Requests
  PROVE  /\ Identifies[r.program][r.builder.discriminator] = r.op
         /\ SameOrder(Metas(r), Parsed[r.program][r.op], r.rules)
         /\ Guarded(r.builder, r.rules)
<1>1. r.builder.accounts = Plugins[r.program][r.op].accounts
  BY RequestEntry, EntriesAgree DEF SameInstruction
<1>2. Identifies[r.program][r.builder.discriminator] = r.op
  BY RequestEntry, EntriesAgree DEF SameInstruction
<1>3. /\ SameOrder(Plugins[r.program][r.op].accounts, Parsed[r.program][r.op], r.rules)
      /\ Guarded(Plugins[r.program][r.op], r.rules)
  <2>1. CASE Usual(r)
    BY <2>1, RequestEntry, EntriesAgree DEF Usual
  <2>2. CASE Faultless(r)
    BY <2>2, FaultlessAgrees DEF Faultless
  <2> QED BY <2>1, <2>2, RequestEntry
<1>4. SameOrder(Metas(r), Parsed[r.program][r.op], r.rules)
  BY <1>1, <1>3 DEF Metas
<1>5. Guarded(r.builder, r.rules)
  BY <1>1, <1>3 DEF Guarded, CpiOnly
<1> QED BY <1>2, <1>4, <1>5

-----------------------------------------------------------------------------
(***************************************************************************)
(* What an accepted instruction meets, by the names of its accounts.       *)
(***************************************************************************)
Known(s) == phase[s] # "idle"

\* The account in the place of a name: the program's own when unknown.
Sent(s) ==
  [n \in Names(request[s]) |->
     IF table[s][n] = None THEN Deployed(request[s].builder.program) ELSE table[s][n]]

Meets(rules, accounts, args, living) ==
  \A i \in DOMAIN rules :
    LET a == accounts[rules[i].name]
    IN /\ Lives(rules[i], a, living)
       /\ rules[i].signer => a.program = "wallet"
       /\ \A d \in rules[i].at : a = Derive(d, accounts, args)
       /\ rules[i].oneOf # {} => \E d \in rules[i].oneOf : a = Derive(d, accounts, args)

LEMMA SentInPlace ==
  ASSUME FillInv, NEW s \in Sessions, Known(s)
  PROVE  /\ DOMAIN Tx(s).metas = DOMAIN RulesOf(s)
         /\ \A i \in DOMAIN RulesOf(s) :
              /\ RulesOf(s)[i].name \in Names(request[s])
              /\ Tx(s).metas[i].address = Sent(s)[RulesOf(s)[i].name]
         /\ Bind(RulesOf(s), Tx(s)) = Sent(s)
<1> DEFINE r == request[s]
<1> DEFINE rules == RulesOf(s)
<1>1. r \in Requests
  BY DEF FillInv, Typed, Known
<1>2. SameOrder(Metas(r), Parsed[r.program][r.op], rules)
  BY <1>1, RequestAgrees DEF RulesOf
<1>3. DOMAIN Tx(s).metas = DOMAIN rules
  BY <1>2 DEF Tx, Transaction, SameOrder
<1>4. /\ Names(r) = {rules[i].name : i \in DOMAIN rules}
      /\ \A i \in DOMAIN rules : Metas(r)[i].name = rules[i].name /\ i \in DOMAIN Metas(r)
  BY <1>2 DEF Names, SameOrder
<1>5. \A i \in DOMAIN rules : Tx(s).metas[i].address = Sent(s)[rules[i].name]
  BY <1>4 DEF Tx, Transaction, MetaOf, Sent
<1>6. Bind(rules, Tx(s)) = Sent(s)
  <2>1. ASSUME NEW n \in Names(r)
        PROVE  Tx(s).metas[CHOOSE i \in DOMAIN rules : rules[i].name = n].address = Sent(s)[n]
    <3>1. PICK i \in DOMAIN rules : rules[i].name = n
      BY <1>4
    <3>2. LET j == CHOOSE j \in DOMAIN rules : rules[j].name = n
          IN j \in DOMAIN rules /\ rules[j].name = n
      BY <3>1
    <3> QED BY <1>5, <3>2
  <2> QED BY <1>4, <2>1 DEF Bind, Sent
<1> QED BY <1>3, <1>4, <1>5, <1>6

LEMMA AcceptedMeets ==
  ASSUME FillInv, NEW s \in Sessions, Acceptable(s)
  PROVE  Meets(RulesOf(s), Sent(s), request[s].args, store)
<1> DEFINE rules == RulesOf(s)
<1>1. Known(s) /\ Accepts(rules, Tx(s), store)
  BY DEF Acceptable, Built, Known
<1>2. /\ \A i \in DOMAIN rules : Tx(s).metas[i].address = Sent(s)[rules[i].name]
      /\ Bind(rules, Tx(s)) = Sent(s)
  BY <1>1, SentInPlace
<1>3. Tx(s).args = request[s].args
  BY DEF Tx, Transaction
<1> HIDE DEF rules
<1>4. ASSUME NEW i \in DOMAIN rules
      PROVE  /\ Lives(rules[i], Sent(s)[rules[i].name], store)
             /\ rules[i].signer => Sent(s)[rules[i].name].program = "wallet"
  BY <1>1, <1>2 DEF Accepts, Privileged, Signable, Type
<1>5. ASSUME NEW i \in DOMAIN rules
      PROVE  /\ \A d \in rules[i].at :
                  Sent(s)[rules[i].name] = Derive(d, Sent(s), request[s].args)
             /\ rules[i].oneOf # {} =>
                  \E d \in rules[i].oneOf :
                    Sent(s)[rules[i].name] = Derive(d, Sent(s), request[s].args)
  BY <1>1, <1>2, <1>3 DEF Accepts, WellPlaced
<1>6. Meets(rules, Sent(s), request[s].args, store)
  BY <1>4, <1>5 DEF Meets
<1> QED BY <1>6 DEF rules

-----------------------------------------------------------------------------
LEMMA Filling == Spec => []FillInv
BY FillInit, StepKeeps, PTL DEF Spec

\* No account is in the place of an entry's authority: what must sign there
\* is derived, and derived addresses do not sign.
LEMMA EntryShut ==
  ASSUME NEW rules, NEW accounts, NEW args, NEW living, Meets(rules, accounts, args, living),
         NEW i, NEW programs, Entry(rules, i, programs)
  PROVE  FALSE
<1>1. /\ rules[i].signer /\ rules[i].oneOf = {CpiAuthority(p) : p \in programs}
      /\ rules[i].oneOf # {} /\ i \in DOMAIN rules
  BY DEF Entry, Callers, OneOf, Signs, Rule
<1> DEFINE a == accounts[rules[i].name]
<1>2. PICK p \in programs : a = Derive(CpiAuthority(p), accounts, args)
  BY <1>1 DEF Meets
<1>3. p \notin {"held", "wallet"}
  BY DEF Entry, Callable
<1>4. a.program = p
  BY <1>2, <1>3 DEF Derive, CpiAuthority, Derivation, Address
<1> QED BY <1>1, <1>3, <1>4 DEF Meets

\* No transaction reaches an entry for other programs: the authority that
\* must sign is derived, and derived addresses do not sign.
THEOREM EntriesAlwaysClosed == Spec => []EntriesClosed
<1>1. ASSUME FillInv, NEW s \in Sessions, Acceptable(s), CpiOnly(BuilderIn(s))
      PROVE  FALSE
  <2> DEFINE rules == RulesOf(s)
  <2>1. request[s] \in Requests
    BY <1>1 DEF FillInv, Typed, Acceptable, Built
  <2>2. PICK i, programs : Entry(rules, i, programs)
    BY <1>1, <2>1, RequestAgrees DEF Guarded, RulesOf, BuilderIn
  <2>3. Meets(rules, Sent(s), request[s].args, store)
    BY <1>1, AcceptedMeets
  <2> QED BY <2>2, <2>3, EntryShut
<1>2. FillInv => EntriesClosed
  BY <1>1 DEF EntriesClosed
<1> QED BY <1>2, Filling, PTL

\* An instruction is decoded as what was asked for, whatever was asked for.
THEOREM RoundTripAlways == Spec => []RoundTrip
<1>1. ASSUME FillInv, NEW s \in Sessions, Built(s), \A n \in DOMAIN table[s] : table[s][n] # None
      PROVE  Decoded(Tx(s)) = [op |-> request[s].op, accounts |-> table[s]]
  <2> DEFINE r == request[s]
  <2> DEFINE op == Identifies[Tx(s).program][Tx(s).discriminator]
  <2> DEFINE names == Parsed[Tx(s).program][op]
  <2>1. r \in Requests /\ DOMAIN table[s] = Names(r)
    BY <1>1 DEF FillInv, Typed, Built
  <2>2. Tx(s).program = r.program /\ Tx(s).discriminator = r.builder.discriminator
    BY DEF Tx, Transaction
  <2>3. op = r.op
    BY <2>1, <2>2, RequestAgrees
  <2>4. SameOrder(Metas(r), names, r.rules)
    BY <2>1, <2>2, <2>3, RequestAgrees
  <2> HIDE DEF op, names
  <2>5. Names(r) = {names[i] : i \in DOMAIN names}
    BY <2>4 DEF Names, SameOrder
  <2>6. \A i \in DOMAIN names : Tx(s).metas[i].address = table[s][names[i]]
    BY <1>1, <2>1, <2>4, <2>5 DEF Tx, Transaction, MetaOf, SameOrder
  <2>7. ASSUME NEW n \in Names(r)
        PROVE  Tx(s).metas[CHOOSE i \in DOMAIN names : names[i] = n].address = table[s][n]
    <3>1. LET i == CHOOSE i \in DOMAIN names : names[i] = n
          IN i \in DOMAIN names /\ names[i] = n
      BY <2>5
    <3> QED BY <2>6, <3>1
  <2>8. table[s] = [n \in Names(r) |-> table[s][n]]
    BY <1>1 DEF FillInv, Tables, Built
  <2>9. [n \in {names[i] : i \in DOMAIN names} |->
           Tx(s).metas[CHOOSE i \in DOMAIN names : names[i] = n].address] = table[s]
    BY <2>5, <2>7, <2>8
  <2> QED BY <2>3, <2>9 DEF Decoded, op, names
<1>2. FillInv => RoundTrip
  BY <1>1 DEF RoundTrip
<1> QED BY <1>2, Filling, PTL


-----------------------------------------------------------------------------
(***************************************************************************)
(* Which accounts an instruction creates and closes.                       *)
(***************************************************************************)
Money == Closed("escrowTokenAccount", TokenAccount, {EscrowTokensOf("booking")})
Freed == Closed("booking", Booking, {BookingBy("booking")})
Ended == Closed("dispute", DisputeAccount, {DisputeOf("booking")})
Taken ==
  New("booking", Booking,
      {BookingOf(Key("property"), Key("clientProfile"), Arg("i64", "checkIn"))})
Paid == New("escrowTokenAccount", TokenAccount, {EscrowTokensOf("booking")})

\* Neither a booking nor its money.
Elsewhere(d) ==
  \/ d.program \notin {"held", "escrow"}
  \/ d = EscrowConfigPda
  \/ \E year \in {"year", "nextYear"} : d = DaysOf(Key("property"), Arg(year, "checkIn"))

Plain(rule) ==
  \/ rule.life \in {"old", "any"}
  \/ rule.life \in {"new", "needed"} /\ \E d \in rule.at : Elsewhere(d)

\* Bookings stay; they go, and their money with them; one comes, then its money.
Calm(rules) == \A i \in DOMAIN rules : Plain(rules[i]) \/ rules[i] \in {Money, Ended}
Returning(rules) ==
  /\ \E i \in DOMAIN rules : rules[i] = Money
  /\ \A i \in DOMAIN rules : Plain(rules[i]) \/ rules[i] \in {Money, Freed}
Placing(rules) ==
  /\ \E i \in DOMAIN rules : rules[i] = Taken
  /\ \A i \in DOMAIN rules : Plain(rules[i]) \/ rules[i] \in {Taken, Paid}
Tidy(rules) == Calm(rules) \/ Returning(rules) \/ Placing(rules)

LEMMA ConfigLifetimes == \A op \in Ops("config") : Tidy(ConfigA!Rules[op])
<1>1. /\ \A n, at : Plain(ConfigA!Signs(n, at)) /\ Plain(ConfigA!MutSigns(n, at)) /\ Plain(ConfigA!Unchecked(n, at))
      /\ \A n, t, at : Plain(ConfigA!Ro(n, t, at)) /\ Plain(ConfigA!Mut(n, t, at))
  BY DEF Plain, ConfigA!Signs, ConfigA!MutSigns, ConfigA!Unchecked, ConfigA!Ro,
       ConfigA!Mut, ConfigA!Rule
<1>2. /\ Plain(ConfigA!GlobalConfigRule)
      /\ Plain(ConfigA!SystemRule)
      /\ Plain(ConfigA!TokenRule)
      /\ \A name, program : Plain(ConfigA!ProgramRule(name, program))
      /\ \A name : Plain(ConfigA!VaultRule(name))
  BY <1>1, Zenon DEF ConfigA!GlobalConfigRule, ConfigA!ProgramRule, ConfigA!SystemRule,
       ConfigA!TokenRule, ConfigA!VaultRule
<1>3. /\ \A n, t, d : Elsewhere(d) => Plain(ConfigA!New(n, t, {d}))
      /\ Elsewhere(ConfigA!GlobalConfigPda)
      /\ Elsewhere(ConfigA!VaultPda)
  BY DEF Plain, Elsewhere, ConfigA!New, ConfigA!Rule, Derivation, ConfigA!Derivation,
       Lit, ConfigA!Lit, ConfigA!GlobalConfigPda, ConfigA!VaultPda
<1>4. Calm(ConfigA!InitializeConfig)
  BY <1>1, <1>2, <1>3 DEF Calm, ConfigA!InitializeConfig
<1>5. Calm(ConfigA!WithdrawFees)
  BY <1>1, <1>2, <1>3 DEF Calm, ConfigA!WithdrawFees
<1> HIDE DEF Calm, Returning, Placing
<1> QED BY <1>4, <1>5
  DEF Tidy, Ops, Demands, ConfigA!Rules

LEMMA CoreLifetimes == \A op \in Ops("core") : Tidy(CoreA!Rules[op])
<1>1. /\ \A n, at : Plain(CoreA!Signs(n, at)) /\ Plain(CoreA!MutSigns(n, at)) /\ Plain(CoreA!Unchecked(n, at))
      /\ \A n, t, at : Plain(CoreA!Ro(n, t, at)) /\ Plain(CoreA!Mut(n, t, at))
  BY DEF Plain, CoreA!Signs, CoreA!MutSigns, CoreA!Unchecked, CoreA!Ro, CoreA!Mut,
       CoreA!Rule
<1>2. /\ Plain(CoreA!GlobalConfigRule)
      /\ Plain(CoreA!SystemRule)
      /\ \A name, program : Plain(CoreA!ProgramRule(name, program))
  BY <1>1, Zenon DEF CoreA!GlobalConfigRule, CoreA!ProgramRule, CoreA!SystemRule
<1>3. \A ds, rule : Plain(rule) => Plain(CoreA!OneOf(ds, rule))
  BY DEF Plain, CoreA!OneOf
<1>4. \A programs : Plain(CoreA!Callers(programs))
  BY DEF Plain, CoreA!Callers, CoreA!OneOf, CoreA!Signs, CoreA!Rule
<1>5. /\ \A n, t, d : Elsewhere(d) => Plain(CoreA!New(n, t, {d}))
      /\ Elsewhere(CoreA!CoreConfigPda)
      /\ \A x : Elsewhere(CoreA!IdentityAt(x))
      /\ \A x : Elsewhere(CoreA!ProfileOf(x))
      /\ \A x : Elsewhere(CoreA!ReputationOf(x))
      /\ \A x, y : Elsewhere(CoreA!ListingAt(x, y))
  BY DEF Plain, Elsewhere, CoreA!New, CoreA!Rule, Derivation, CoreA!Derivation, Lit,
       CoreA!Lit, CoreA!CoreConfigPda, CoreA!IdentityAt, CoreA!ProfileOf,
       CoreA!ReputationOf, CoreA!ListingAt
<1>6. Calm(CoreA!UpdateReputationProfile({"disputes"}))
  BY <1>1, <1>2, <1>3, <1>4, <1>5 DEF Calm, CoreA!UpdateReputationProfile
<1>7. Calm(CoreA!UpdateUserProfile({"disputes", "escrow"}))
  BY <1>1, <1>2, <1>3, <1>4, <1>5 DEF Calm, CoreA!UpdateUserProfile
<1>8. Calm(CoreA!ClearListingBooking)
  BY <1>1, <1>2, <1>3, <1>4, <1>5 DEF Calm, CoreA!ClearListingBooking
<1>9. Calm(CoreA!UpdateReputationProfile({"escrow"}))
  BY <1>1, <1>2, <1>3, <1>4, <1>5 DEF Calm, CoreA!UpdateReputationProfile
<1>10. Calm(CoreA!UpdateUserProfile({"escrow", "disputes"}))
  BY <1>1, <1>2, <1>3, <1>4, <1>5 DEF Calm, CoreA!UpdateUserProfile
<1>11. Calm(CoreA!InitIdentity)
  BY <1>1, <1>2, <1>3, <1>4, <1>5 DEF Calm, CoreA!InitIdentity
<1>12. Calm(CoreA!InitializeConfig)
  BY <1>1, <1>2, <1>3, <1>4, <1>5 DEF Calm, CoreA!InitializeConfig
<1>13. Calm(CoreA!InitializeListing)
  BY <1>1, <1>2, <1>3, <1>4, <1>5 DEF Calm, CoreA!InitializeListing
<1>14. Calm(CoreA!InitializeUserProfile)
  BY <1>1, <1>2, <1>3, <1>4, <1>5 DEF Calm, CoreA!InitializeUserProfile
<1>15. Calm(CoreA!LinkIdentity)
  BY <1>1, <1>2, <1>3, <1>4, <1>5 DEF Calm, CoreA!LinkIdentity
<1>16. Calm(CoreA!UpdateUserProfile({"escrow"}))
  BY <1>1, <1>2, <1>3, <1>4, <1>5 DEF Calm, CoreA!UpdateUserProfile
<1>17. Calm(CoreA!SetListingOccupied)
  BY <1>1, <1>2, <1>3, <1>4, <1>5 DEF Calm, CoreA!SetListingOccupied
<1>18. Calm(CoreA!UpdateClientReview)
  BY <1>1, <1>2, <1>3, <1>4, <1>5 DEF Calm, CoreA!UpdateClientReview
<1>19. Calm(CoreA!UpdateUserProfile({"treasury", "disputes", "escrow"}))
  BY <1>1, <1>2, <1>3, <1>4, <1>5 DEF Calm, CoreA!UpdateUserProfile
<1>20. Calm(CoreA!UpdateHostReview)
  BY <1>1, <1>2, <1>3, <1>4, <1>5 DEF Calm, CoreA!UpdateHostReview
<1>21. Calm(CoreA!UpdateListing)
  BY <1>1, <1>2, <1>3, <1>4, <1>5 DEF Calm, CoreA!UpdateListing
<1>22. Calm(CoreA!UpdateListingReview)
  BY <1>1, <1>2, <1>3, <1>4, <1>5 DEF Calm, CoreA!UpdateListingReview
<1> HIDE DEF Calm, Returning, Placing
<1> QED BY <1>6, <1>7, <1>8, <1>9, <1>10, <1>11, <1>12, <1>13, <1>14, <1>15, <1>16,
    <1>17, <1>18, <1>19, <1>20, <1>21, <1>22
  DEF Tidy, Ops, Demands, CoreA!Rules

LEMMA DisputesLifetimes ==
  /\ \A op \in Ops("disputes") : Tidy(DisputesA!Rules[op])
  /\ Tidy(DisputesA!ResolveWithoutFault)
<1>1. /\ \A n, at : Plain(DisputesA!Signs(n, at)) /\ Plain(DisputesA!MutSigns(n, at)) /\ Plain(DisputesA!Unchecked(n, at))
      /\ \A n, t, at : Plain(DisputesA!Ro(n, t, at)) /\ Plain(DisputesA!Mut(n, t, at))
  BY DEF Plain, DisputesA!Signs, DisputesA!MutSigns, DisputesA!Unchecked, DisputesA!Ro,
       DisputesA!Mut, DisputesA!Rule
<1>2. /\ Plain(DisputesA!AuthorityRule)
      /\ Plain(DisputesA!BookingRule)
      /\ Plain(DisputesA!CoreProgramRule)
      /\ Plain(DisputesA!EscrowProgramRule)
      /\ Plain(DisputesA!GlobalConfigRule)
      /\ Plain(DisputesA!SystemRule)
      /\ Plain(DisputesA!TokenRule)
      /\ \A name : Plain(DisputesA!DisputeConfigRule(name)) /\ Plain(DisputesA!MutMintRule(name)) /\ Plain(DisputesA!VaultRule(name))
      /\ \A name, role : Plain(DisputesA!PartyRule(name, role))
      /\ \A name, program : Plain(DisputesA!ProgramRule(name, program))
  BY <1>1, Zenon DEF DisputesA!AuthorityRule, DisputesA!BookingRule,
       DisputesA!CoreProgramRule, DisputesA!DisputeConfigRule,
       DisputesA!EscrowProgramRule, DisputesA!GlobalConfigRule, DisputesA!MutMintRule,
       DisputesA!PartyRule, DisputesA!ProgramRule, DisputesA!SystemRule,
       DisputesA!TokenRule, DisputesA!VaultRule
<1>3. \A ds, rule : Plain(rule) => Plain(DisputesA!OneOf(ds, rule))
  BY DEF Plain, DisputesA!OneOf
<1>4. /\ \A n, t, d : Elsewhere(d) => Plain(DisputesA!New(n, t, {d}))
      /\ Elsewhere(DisputesA!DisputeConfigPda)
      /\ \A x : Elsewhere(DisputesA!DisputeOf(x))
  BY DEF Plain, Elsewhere, DisputesA!New, DisputesA!Rule, Derivation,
       DisputesA!Derivation, Lit, DisputesA!Lit, DisputesA!DisputeConfigPda,
       DisputesA!DisputeOf
<1>5. /\ DisputesA!Closed("escrowTokenAccount", DisputesA!TokenAccount,
              {DisputesA!EscrowTokensOf("booking")}) = Money
      /\ DisputesA!Closed("dispute", DisputesA!DisputeAccount, {DisputesA!DisputeOf("booking")}) = Ended
  BY DEF Money, Ended, Closed, DisputesA!Closed, Rule, DisputesA!Rule, TokenAccount,
       DisputesA!TokenAccount, DisputeAccount, DisputesA!DisputeAccount, EscrowTokensOf,
       DisputesA!EscrowTokensOf, DisputeOf, DisputesA!DisputeOf, Derivation,
       DisputesA!Derivation, Lit, DisputesA!Lit, Key, DisputesA!Key
<1>6. Calm(DisputesA!AddAdmin)
  BY <1>1, <1>2, <1>3, <1>4, <1>5 DEF Calm, DisputesA!AddAdmin
<1>7. Calm(DisputesA!CloseDispute)
  BY <1>1, <1>2, <1>3, <1>4, <1>5 DEF Calm, DisputesA!CloseDispute
<1>8. Calm(DisputesA!DeleteAdmin)
  BY <1>1, <1>2, <1>3, <1>4, <1>5 DEF Calm, DisputesA!DeleteAdmin
<1>9. Calm(DisputesA!EscalateDispute)
  BY <1>1, <1>2, <1>3, <1>4, <1>5 DEF Calm, DisputesA!EscalateDispute
<1>10. Calm(DisputesA!InitializeConfig)
  BY <1>1, <1>2, <1>3, <1>4, <1>5 DEF Calm, DisputesA!InitializeConfig
<1>11. Calm(DisputesA!LinkEvidence)
  BY <1>1, <1>2, <1>3, <1>4, <1>5 DEF Calm, DisputesA!LinkEvidence
<1>12. Calm(DisputesA!OpenDispute)
  BY <1>1, <1>2, <1>3, <1>4, <1>5 DEF Calm, DisputesA!OpenDispute
<1>13. Calm(DisputesA!ResolveDispute)
  BY <1>1, <1>2, <1>3, <1>4, <1>5 DEF Calm, DisputesA!ResolveDispute,
       DisputesA!ResolveDisputeWith, DisputesA!GuiltyReputation
<1>15. Calm(DisputesA!ResolveWithoutFault)
  BY <1>1, <1>2, <1>3, <1>4, <1>5 DEF Calm, DisputesA!ResolveWithoutFault,
       DisputesA!ResolveDisputeWith, DisputesA!GuiltyReputation
<1>14. Calm(DisputesA!SolveDisputeBeforeAdmin)
  BY <1>1, <1>2, <1>3, <1>4, <1>5 DEF Calm, DisputesA!SolveDisputeBeforeAdmin
<1> HIDE DEF Calm, Returning, Placing
<1> QED BY <1>6, <1>7, <1>8, <1>9, <1>10, <1>11, <1>12, <1>13, <1>14, <1>15
  DEF Tidy, Ops, Demands, DisputesA!Rules

LEMMA EscrowLifetimes == \A op \in Ops("escrow") : Tidy(EscrowA!Rules[op])
<1>1. /\ \A n, at : Plain(EscrowA!Signs(n, at)) /\ Plain(EscrowA!MutSigns(n, at)) /\ Plain(EscrowA!CreditedSigns(n, at)) /\ Plain(EscrowA!Unchecked(n, at))
      /\ \A n, t, at : Plain(EscrowA!Ro(n, t, at)) /\ Plain(EscrowA!Mut(n, t, at))
  BY DEF Plain, EscrowA!Signs, EscrowA!MutSigns, EscrowA!CreditedSigns,
       EscrowA!Unchecked, EscrowA!Ro, EscrowA!Mut, EscrowA!Rule
<1>2. /\ Plain(EscrowA!AuthorityRule)
      /\ Plain(EscrowA!BookingRule)
      /\ Plain(EscrowA!CoreProgramRule)
      /\ Plain(EscrowA!DaysRule)
      /\ Plain(EscrowA!GlobalConfigRule)
      /\ Plain(EscrowA!NextDaysRule)
      /\ Plain(EscrowA!SystemRule)
      /\ Plain(EscrowA!TokenRule)
      /\ \A name : Plain(EscrowA!MintRule(name)) /\ Plain(EscrowA!MutMintRule(name)) /\ Plain(EscrowA!VaultRule(name))
      /\ \A name, role : Plain(EscrowA!MutPartyRule(name, role)) /\ Plain(EscrowA!PartyRule(name, role))
      /\ \A name, program : Plain(EscrowA!ProgramRule(name, program))
      /\ \A name, profile : Plain(EscrowA!TokensRule(name, profile))
  BY <1>1, Zenon DEF EscrowA!AuthorityRule, EscrowA!BookingRule,
       EscrowA!CoreProgramRule, EscrowA!DaysRule, EscrowA!GlobalConfigRule,
       EscrowA!MintRule, EscrowA!MutMintRule, EscrowA!MutPartyRule,
       EscrowA!NextDaysRule, EscrowA!PartyRule, EscrowA!ProgramRule, EscrowA!SystemRule,
       EscrowA!TokenRule, EscrowA!TokensRule, EscrowA!VaultRule
<1>3. \A ds, rule : Plain(rule) => Plain(EscrowA!OneOf(ds, rule))
  BY DEF Plain, EscrowA!OneOf
<1>4. \A programs : Plain(EscrowA!Callers(programs))
  BY DEF Plain, EscrowA!Callers, EscrowA!OneOf, EscrowA!Signs, EscrowA!Rule
<1>5. /\ \A n, t, d : Elsewhere(d) => Plain(EscrowA!New(n, t, {d}))
      /\ Elsewhere(EscrowA!EscrowConfigPda)
  BY DEF Plain, Elsewhere, EscrowA!New, EscrowA!Rule, Derivation, EscrowA!Derivation,
       Lit, EscrowA!Lit, EscrowA!EscrowConfigPda, EscrowConfigPda
<1>6. \A year \in {"year", "nextYear"} : Plain(EscrowA!BookedDays("bookingDays", year)) /\ Plain(EscrowA!BookedDays("bookingDaysNext", year))
  BY DEF Plain, Elsewhere, EscrowA!BookedDays, EscrowA!Needed, EscrowA!Rule, DaysOf,
       EscrowA!DaysOf, Derivation, EscrowA!Derivation, Lit, EscrowA!Lit, Key,
       EscrowA!Key, Arg, EscrowA!Arg
<1>7. /\ EscrowA!OwnTokensRule = Money
      /\ EscrowA!Closed("booking", EscrowA!Booking, {EscrowA!BookingBy("booking")}) = Freed
  BY DEF Money, Freed, EscrowA!OwnTokensRule, Closed, EscrowA!Closed, Rule,
       EscrowA!Rule, TokenAccount, EscrowA!TokenAccount, Booking, EscrowA!Booking,
       EscrowTokensOf, EscrowA!EscrowTokensOf, BookingBy, EscrowA!BookingBy, BookingOf,
       EscrowA!BookingOf, Derivation, EscrowA!Derivation, Lit, EscrowA!Lit, Key,
       EscrowA!Key, Field, EscrowA!Field
<1>8. /\ EscrowA!New("escrowTokenAccount", EscrowA!TokenAccount, {EscrowA!EscrowTokensOf("booking")}) = Paid
      /\ EscrowA!New("booking", EscrowA!Booking,
            {EscrowA!BookingOf(EscrowA!Key("property"), EscrowA!Key("clientProfile"), EscrowA!Arg("i64", "checkIn"))})
         = Taken
  BY DEF Paid, Taken, New, EscrowA!New, Rule, EscrowA!Rule, TokenAccount,
       EscrowA!TokenAccount, Booking, EscrowA!Booking, EscrowTokensOf,
       EscrowA!EscrowTokensOf, BookingOf, EscrowA!BookingOf, Derivation,
       EscrowA!Derivation, Lit, EscrowA!Lit, Key, EscrowA!Key, Arg, EscrowA!Arg
<1>9. Calm(EscrowA!BookingCompletes)
  BY <1>1, <1>2, <1>3, <1>4, <1>5, <1>6, <1>7, <1>8 DEF Calm, EscrowA!BookingCompletes
<1>10. Calm(EscrowA!BookingStarts)
  BY <1>1, <1>2, <1>3, <1>4, <1>5, <1>6, <1>7, <1>8 DEF Calm, EscrowA!BookingStarts
<1>11. Calm(EscrowA!ResolveDisputeTransferCpi)
  BY <1>1, <1>2, <1>3, <1>4, <1>5, <1>6, <1>7, <1>8 DEF Calm, EscrowA!ResolveDisputeTransferCpi
<1>12. Calm(EscrowA!UpdateBookingStatusCpi)
  BY <1>1, <1>2, <1>3, <1>4, <1>5, <1>6, <1>7, <1>8 DEF Calm, EscrowA!UpdateBookingStatusCpi
<1>13. 5 \in DOMAIN EscrowA!CreateBooking /\ EscrowA!CreateBooking[5] = Taken
  BY <1>1, <1>2, <1>6, <1>8 DEF EscrowA!CreateBooking, EscrowA!CreateBookingWith
<1>14. \A i \in DOMAIN EscrowA!CreateBooking :
          Plain(EscrowA!CreateBooking[i]) \/ EscrowA!CreateBooking[i] \in {Taken, Paid}
  BY SMTT(40), <1>1, <1>2, <1>6, <1>8 DEF EscrowA!CreateBooking, EscrowA!CreateBookingWith
<1>15. Placing(EscrowA!CreateBooking)
  BY <1>13, <1>14 DEF Placing
<1>16. 5 \in DOMAIN EscrowA!CreateBookingCrossYear /\ EscrowA!CreateBookingCrossYear[5] = Taken
  BY <1>1, <1>2, <1>6, <1>8 DEF EscrowA!CreateBookingCrossYear, EscrowA!CreateBookingWith
<1>17. \A i \in DOMAIN EscrowA!CreateBookingCrossYear :
          Plain(EscrowA!CreateBookingCrossYear[i]) \/ EscrowA!CreateBookingCrossYear[i] \in {Taken, Paid}
  BY SMTT(40), <1>1, <1>2, <1>6, <1>8 DEF EscrowA!CreateBookingCrossYear, EscrowA!CreateBookingWith
<1>18. Placing(EscrowA!CreateBookingCrossYear)
  BY <1>16, <1>17 DEF Placing
<1>19. 4 \in DOMAIN EscrowA!ExpireBooking /\ EscrowA!ExpireBooking[4] = Money
  BY <1>1, <1>2, <1>7 DEF EscrowA!ExpireBooking, EscrowA!ExpireBookingWith
<1>20. \A i \in DOMAIN EscrowA!ExpireBooking :
          Plain(EscrowA!ExpireBooking[i]) \/ EscrowA!ExpireBooking[i] \in {Money, Freed}
  BY SMTT(40), <1>1, <1>2, <1>7 DEF EscrowA!ExpireBooking, EscrowA!ExpireBookingWith
<1>21. Returning(EscrowA!ExpireBooking)
  BY <1>19, <1>20 DEF Returning
<1>22. 4 \in DOMAIN EscrowA!ExpireBookingCrossYear /\ EscrowA!ExpireBookingCrossYear[4] = Money
  BY <1>1, <1>2, <1>7 DEF EscrowA!ExpireBookingCrossYear, EscrowA!ExpireBookingWith
<1>23. \A i \in DOMAIN EscrowA!ExpireBookingCrossYear :
          Plain(EscrowA!ExpireBookingCrossYear[i]) \/ EscrowA!ExpireBookingCrossYear[i] \in {Money, Freed}
  BY SMTT(40), <1>1, <1>2, <1>7 DEF EscrowA!ExpireBookingCrossYear, EscrowA!ExpireBookingWith
<1>24. Returning(EscrowA!ExpireBookingCrossYear)
  BY <1>22, <1>23 DEF Returning
<1>25. Calm(EscrowA!GuestCancelBooking)
  BY <1>1, <1>2, <1>3, <1>4, <1>5, <1>6, <1>7, <1>8 DEF Calm, EscrowA!GuestCancelBooking, EscrowA!GuestCancelBookingWith
<1>26. Calm(EscrowA!GuestCancelBookingCrossYear)
  BY <1>1, <1>2, <1>3, <1>4, <1>5, <1>6, <1>7, <1>8 DEF Calm, EscrowA!GuestCancelBookingCrossYear, EscrowA!GuestCancelBookingWith
<1>27. Calm(EscrowA!GuestReview)
  BY <1>1, <1>2, <1>3, <1>4, <1>5, <1>6, <1>7, <1>8 DEF Calm, EscrowA!GuestReview
<1>28. Calm(EscrowA!HostAcceptBooking)
  BY <1>1, <1>2, <1>3, <1>4, <1>5, <1>6, <1>7, <1>8 DEF Calm, EscrowA!HostAcceptBooking
<1>29. Calm(EscrowA!HostCancelBooking)
  BY <1>1, <1>2, <1>3, <1>4, <1>5, <1>6, <1>7, <1>8 DEF Calm, EscrowA!HostCancelBooking, EscrowA!HostCancelBookingWith
<1>30. Calm(EscrowA!HostCancelBookingCrossYear)
  BY <1>1, <1>2, <1>3, <1>4, <1>5, <1>6, <1>7, <1>8 DEF Calm, EscrowA!HostCancelBookingCrossYear, EscrowA!HostCancelBookingWith
<1>31. 8 \in DOMAIN EscrowA!HostRejectBooking /\ EscrowA!HostRejectBooking[8] = Money
  BY <1>1, <1>2, <1>7 DEF EscrowA!HostRejectBooking, EscrowA!Rejection
<1>32. \A i \in DOMAIN EscrowA!HostRejectBooking :
          Plain(EscrowA!HostRejectBooking[i]) \/ EscrowA!HostRejectBooking[i] \in {Money, Freed}
  BY SMTT(40), <1>1, <1>2, <1>7 DEF EscrowA!HostRejectBooking, EscrowA!Rejection
<1>33. Returning(EscrowA!HostRejectBooking)
  BY <1>31, <1>32 DEF Returning
<1>34. 9 \in DOMAIN EscrowA!HostRejectBookingCrossYear /\ EscrowA!HostRejectBookingCrossYear[9] = Money
  BY <1>1, <1>2, <1>7 DEF EscrowA!HostRejectBookingCrossYear, EscrowA!Rejection
<1>35. \A i \in DOMAIN EscrowA!HostRejectBookingCrossYear :
          Plain(EscrowA!HostRejectBookingCrossYear[i]) \/ EscrowA!HostRejectBookingCrossYear[i] \in {Money, Freed}
  BY SMTT(40), <1>1, <1>2, <1>7 DEF EscrowA!HostRejectBookingCrossYear, EscrowA!Rejection
<1>36. Returning(EscrowA!HostRejectBookingCrossYear)
  BY <1>34, <1>35 DEF Returning
<1>37. Calm(EscrowA!HostReview)
  BY <1>1, <1>2, <1>3, <1>4, <1>5, <1>6, <1>7, <1>8 DEF Calm, EscrowA!HostReview
<1>38. Calm(EscrowA!InitializeConfigEscrow)
  BY <1>1, <1>2, <1>3, <1>4, <1>5, <1>6, <1>7, <1>8 DEF Calm, EscrowA!InitializeConfigEscrow
<1>39. Calm(EscrowA!ReleaseFunds)
  BY <1>1, <1>2, <1>3, <1>4, <1>5, <1>6, <1>7, <1>8 DEF Calm, EscrowA!ReleaseFunds
<1> HIDE DEF Calm, Returning, Placing
<1> QED BY <1>9, <1>10, <1>11, <1>12, <1>15, <1>18, <1>21, <1>24, <1>25, <1>26, <1>27,
    <1>28, <1>29, <1>30, <1>33, <1>36, <1>37, <1>38, <1>39
  DEF Tidy, Ops, Demands, EscrowA!Rules

LEMMA TreasuryLifetimes == \A op \in Ops("treasury") : Tidy(TreasuryA!Rules[op])
<1>1. /\ \A n, at : Plain(TreasuryA!Signs(n, at)) /\ Plain(TreasuryA!MutSigns(n, at)) /\ Plain(TreasuryA!Unchecked(n, at))
      /\ \A n, t, at : Plain(TreasuryA!Ro(n, t, at)) /\ Plain(TreasuryA!Mut(n, t, at))
  BY DEF Plain, TreasuryA!Signs, TreasuryA!MutSigns, TreasuryA!Unchecked, TreasuryA!Ro,
       TreasuryA!Mut, TreasuryA!Rule
<1>2. /\ Plain(TreasuryA!GlobalConfigRule)
      /\ Plain(TreasuryA!SystemRule)
      /\ Plain(TreasuryA!TokenRule)
      /\ \A name : Plain(TreasuryA!MintRule(name)) /\ Plain(TreasuryA!TreasuryRule(name))
      /\ \A name, program : Plain(TreasuryA!ProgramRule(name, program))
  BY <1>1, Zenon DEF TreasuryA!GlobalConfigRule, TreasuryA!MintRule,
       TreasuryA!ProgramRule, TreasuryA!SystemRule, TreasuryA!TokenRule,
       TreasuryA!TreasuryRule
<1>3. \A ds, rule : Plain(rule) => Plain(TreasuryA!OneOf(ds, rule))
  BY DEF Plain, TreasuryA!OneOf
<1>4. \A programs : Plain(TreasuryA!Callers(programs))
  BY DEF Plain, TreasuryA!Callers, TreasuryA!OneOf, TreasuryA!Signs, TreasuryA!Rule
<1>5. /\ \A n, t, d : Elsewhere(d) => Plain(TreasuryA!New(n, t, {d}))
      /\ Elsewhere(TreasuryA!TreasuryConfigPda)
      /\ Elsewhere(TreasuryA!TreasuryVaultPda)
  BY DEF Plain, Elsewhere, TreasuryA!New, TreasuryA!Rule, Derivation,
       TreasuryA!Derivation, Lit, TreasuryA!Lit, TreasuryA!TreasuryConfigPda,
       TreasuryA!TreasuryVaultPda
<1>6. Calm(TreasuryA!PenalizeTransferCpi)
  BY <1>1, <1>2, <1>3, <1>4, <1>5 DEF Calm, TreasuryA!PenalizeTransferCpi
<1>7. Calm(TreasuryA!DepositGuarantee)
  BY <1>1, <1>2, <1>3, <1>4, <1>5 DEF Calm, TreasuryA!DepositGuarantee
<1>8. Calm(TreasuryA!InitializeTreasury)
  BY <1>1, <1>2, <1>3, <1>4, <1>5 DEF Calm, TreasuryA!InitializeTreasury
<1>9. Calm(TreasuryA!WithdrawGuarantee)
  BY <1>1, <1>2, <1>3, <1>4, <1>5 DEF Calm, TreasuryA!WithdrawGuarantee
<1> HIDE DEF Calm, Returning, Placing
<1> QED BY <1>6, <1>7, <1>8, <1>9
  DEF Tidy, Ops, Demands, TreasuryA!Rules

LEMMA RequestTidy ==
  ASSUME NEW r \in Requests
  PROVE  Tidy(r.rules)
<1>1. r.program \in {"config", "core", "disputes", "escrow", "treasury"}
  BY RequestEntry DEF Programs, Plugins
<1>2. CASE r.program = "config"
  BY <1>2, RequestEntry, ConfigLifetimes DEF Usual, Faultless, Demands
<1>3. CASE r.program = "core"
  BY <1>3, RequestEntry, CoreLifetimes DEF Usual, Faultless, Demands
<1>4. CASE r.program = "disputes"
  BY <1>4, RequestEntry, DisputesLifetimes DEF Usual, Faultless, Demands
<1>5. CASE r.program = "escrow"
  BY <1>5, RequestEntry, EscrowLifetimes DEF Usual, Faultless, Demands
<1>6. CASE r.program = "treasury"
  BY <1>6, RequestEntry, TreasuryLifetimes DEF Usual, Faultless, Demands
<1> QED BY <1>1, <1>2, <1>3, <1>4, <1>5, <1>6

-----------------------------------------------------------------------------
(***************************************************************************)
(* Money lies at the address that its booking has for it, and the booking  *)
(* is there.                                                               *)
(***************************************************************************)
MoneyOf(b) == Address("escrow", <<Lit("escrow"), <<"key", b>>>>)
IsMoney(a) == Type(a) = <<"escrow", "escrow">>
IsBooking(a) == Type(a) = <<"escrow", "booking">>
Backed(living) ==
  \A a \in living : IsMoney(a) => \E b \in living : IsBooking(b) /\ a = MoneyOf(b)

LEMMA LiteralIs ==
  ASSUME NEW a, NEW text, 1 \in DOMAIN a.seeds, a.seeds[1] = Lit(text),
         \A i \in DOMAIN a.seeds : i # 1 => a.seeds[i][1] # "lit"
  PROVE  Type(a) = <<a.program, text>>
<1> DEFINE found == {i \in DOMAIN a.seeds : a.seeds[i][1] = "lit"}
<1>1. found = {1}
  BY DEF Lit
<1> DEFINE first == CHOOSE i \in found : TRUE
<1>2. Literal(a) = IF found = {} THEN "" ELSE a.seeds[first][2]
  BY Zenon DEF Literal
<1>3. first = 1
  BY <1>1
<1>4. found # {}
  BY <1>1
<1> HIDE DEF found, first
<1>5. a.seeds[first] = <<"lit", text>>
  BY <1>3 DEF Lit
<1>6. Literal(a) = a.seeds[first][2]
  BY <1>2, <1>4
<1>7. Literal(a) = text
  BY <1>5, <1>6
<1> QED BY <1>7 DEF Type

LEMMA MoneyType == \A b : IsMoney(MoneyOf(b)) /\ MoneyOf(b).seeds[2][2] = b
<1>1. ASSUME NEW b
      PROVE  IsMoney(MoneyOf(b)) /\ MoneyOf(b).seeds[2][2] = b
  <2> DEFINE a == MoneyOf(b)
  <2>1. /\ a.program = "escrow" /\ DOMAIN a.seeds = {1, 2}
        /\ a.seeds[1] = Lit("escrow") /\ a.seeds[2] = <<"key", b>>
    BY DEF MoneyOf, Address
  <2> HIDE DEF a
  <2>2. Type(a) = <<a.program, "escrow">>
    BY <2>1, LiteralIs
  <2>3. IsMoney(a) /\ a.seeds[2][2] = b
    BY <2>1, <2>2 DEF IsMoney
  <2> QED BY <2>3 DEF a
<1> QED BY <1>1

\* The first seed of a derivation tells the type of the address.
LEMMA DerivedType ==
  ASSUME NEW d, NEW accounts, NEW args, NEW text, d.program # "held",
         1 \in DOMAIN d.seeds, d.seeds[1] = Lit(text),
         \A i \in DOMAIN d.seeds :
           i # 1 => d.seeds[i][1] \in {"key", "arg"} /\ d.seeds[i][2] # "lit"
  PROVE  Type(Derive(d, accounts, args)) = <<d.program, text>>
<1> DEFINE a == Derive(d, accounts, args)
<1>1. a = Address(d.program, [i \in DOMAIN d.seeds |-> SeedValue(d.seeds[i], accounts, args)])
  BY DEF Derive
<1>2. /\ a.program = d.program /\ DOMAIN a.seeds = DOMAIN d.seeds
      /\ \A i \in DOMAIN d.seeds : a.seeds[i] = SeedValue(d.seeds[i], accounts, args)
  BY <1>1 DEF Address
<1> HIDE DEF a
<1>3. a.seeds[1] = Lit(text)
  <2>1. a.seeds[1] = SeedValue(Lit(text), accounts, args)
    BY <1>2
  <2> QED BY <2>1 DEF SeedValue, Lit
<1>4. ASSUME NEW i \in DOMAIN d.seeds, i # 1
      PROVE  a.seeds[i][1] # "lit"
  <2>1. CASE d.seeds[i][1] = "key"
    <3>1. a.seeds[i] = <<"key", accounts[d.seeds[i][2]]>>
      BY <1>2, <2>1 DEF SeedValue
    <3> QED BY <3>1
  <2>2. CASE d.seeds[i][1] = "arg"
    <3>1. a.seeds[i] = Encode(d.seeds[i][2], args[d.seeds[i][3]])
      BY <1>2, <2>2 DEF SeedValue
    <3> QED BY <1>4, <3>1 DEF Encode
  <2> QED BY <1>4, <2>1, <2>2
<1>5. Type(a) = <<a.program, text>>
  BY <1>2, <1>3, <1>4, LiteralIs
<1> QED BY <1>2, <1>5 DEF a

LEMMA StayType ==
  ASSUME NEW accounts, NEW args, NEW guest
  PROVE  IsBooking(Derive(BookingOf(Key("property"), Key(guest), Arg("i64", "checkIn")),
                          accounts, args)) \/ guest = "lit"
<1> DEFINE d == BookingOf(Key("property"), Key(guest), Arg("i64", "checkIn"))
<1>1. /\ d.program = "escrow" /\ DOMAIN d.seeds = 1..4 /\ d.seeds[1] = Lit("booking")
      /\ d.seeds[2] = <<"key", "property">> /\ d.seeds[3] = <<"key", guest>>
      /\ d.seeds[4] = <<"arg", "i64", "checkIn">>
  BY DEF BookingOf, Derivation, Key, Arg
<1> HIDE DEF d
<1>2. guest # "lit" =>
        \A i \in DOMAIN d.seeds :
          i # 1 => d.seeds[i][1] \in {"key", "arg"} /\ d.seeds[i][2] # "lit"
  BY <1>1
<1>3. guest # "lit" => Type(Derive(d, accounts, args)) = <<d.program, "booking">>
  BY <1>1, <1>2, DerivedType
<1> QED BY <1>1, <1>3 DEF IsBooking, d

LEMMA TakenType ==
  ASSUME NEW accounts, NEW args, NEW d \in Taken.at
  PROVE  IsBooking(Derive(d, accounts, args))
BY StayType DEF Taken, New, Rule

LEMMA ElsewhereType ==
  ASSUME NEW accounts, NEW args, NEW d, Elsewhere(d)
  PROVE  ~ IsMoney(Derive(d, accounts, args))
<1> DEFINE a == Derive(d, accounts, args)
<1>1. CASE d.program \notin {"held", "escrow"}
  BY <1>1 DEF Derive, Address, IsMoney, Type
<1>2. CASE d = EscrowConfigPda
  <2>1. /\ d.program = "escrow" /\ DOMAIN d.seeds = {1} /\ d.seeds[1] = Lit("escrow_config")
    BY <1>2 DEF EscrowConfigPda, Derivation
  <2>2. Type(a) = <<d.program, "escrow_config">>
    BY <2>1, DerivedType
  <2> QED BY <2>2 DEF IsMoney
<1>3. CASE \E year \in {"year", "nextYear"} : d = DaysOf(Key("property"), Arg(year, "checkIn"))
  <2>0. PICK year \in {"year", "nextYear"} : d = DaysOf(Key("property"), Arg(year, "checkIn"))
    BY <1>3
  <2>1. /\ d.program = "escrow" /\ DOMAIN d.seeds = 1..3 /\ d.seeds[1] = Lit("booking_days")
        /\ d.seeds[2] = <<"key", "property">> /\ d.seeds[3] = <<"arg", year, "checkIn">>
    BY <2>0 DEF DaysOf, Derivation, Key, Arg
  <2>2. \A i \in DOMAIN d.seeds :
          i # 1 => d.seeds[i][1] \in {"key", "arg"} /\ d.seeds[i][2] # "lit"
    BY <2>0, <2>1
  <2>3. Type(a) = <<d.program, "booking_days">>
    BY <2>1, <2>2, DerivedType
  <2> QED BY <2>3 DEF IsMoney
<1> QED BY <1>1, <1>2, <1>3 DEF Elsewhere


-----------------------------------------------------------------------------
(***************************************************************************)
(* What landing adds to the store, and what it takes away.                 *)
(***************************************************************************)
LEMMA Landed ==
  ASSUME FillInv, NEW s \in Sessions, Land(s)
  PROVE  LET rules == RulesOf(s)
             account(i) == Sent(s)[rules[i].name]
         IN /\ \A i \in DOMAIN rules : rules[i].life = "closed" => account(i) \notin store'
            /\ \A a \in store' :
                 \/ a \in store
                 \/ \E i \in DOMAIN rules : rules[i].life \in {"new", "needed"} /\ a = account(i)
            /\ \A a \in store :
                 \/ a \in store'
                 \/ \E i \in DOMAIN rules : rules[i].life = "closed" /\ a = account(i)
            /\ \A i \in DOMAIN rules :
                 rules[i].life \in {"new", "needed"} =>
                    \/ account(i) \in store'
                    \/ \E j \in DOMAIN rules : rules[j].life = "closed"
<1> DEFINE rules == RulesOf(s)
<1> DEFINE account(i) == Sent(s)[rules[i].name]
<1>1. \A i \in DOMAIN rules : Tx(s).metas[i].address = account(i)
  BY SentInPlace DEF Land, Acceptable, Built, Known
<1>2. store' = (store \cup AddressesOf(rules, Tx(s), {"new", "needed"}))
                 \ AddressesOf(rules, Tx(s), {"closed"})
  BY DEF Land, Effect
<1> HIDE DEF rules
<1>3. \A lives : AddressesOf(rules, Tx(s), lives)
                   = {account(i) : i \in {j \in DOMAIN rules : rules[j].life \in lives}}
  BY <1>1 DEF AddressesOf
<1> HIDE DEF account
<1>4. \A a : a \in store' <=>
               /\ \/ a \in store
                  \/ \E i \in DOMAIN rules : rules[i].life \in {"new", "needed"} /\ a = account(i)
               /\ ~ \E i \in DOMAIN rules : rules[i].life = "closed" /\ a = account(i)
  BY <1>2, <1>3
<1>5. QED
  BY <1>4 DEF rules, account

\* The lives of the accounts that matter.
LEMMA Lifes ==
  /\ Money.life = "closed" /\ Freed.life = "closed" /\ Ended.life = "closed"
  /\ Taken.life = "new" /\ Paid.life = "new"
  /\ Money.name = "escrowTokenAccount" /\ Freed.name = "booking" /\ Ended.name = "dispute"
  /\ Taken.name = "booking" /\ Paid.name = "escrowTokenAccount"
  /\ Money.at = {EscrowTokensOf("booking")} /\ Paid.at = {EscrowTokensOf("booking")}
  /\ Ended.type = DisputeAccount
  /\ Taken.at # {}
BY DEF Money, Freed, Ended, Taken, Paid, Closed, New, Rule

LEMMA MoneyDerived ==
  ASSUME NEW accounts, NEW args
  PROVE  Derive(EscrowTokensOf("booking"), accounts, args) = MoneyOf(accounts["booking"])
BY DEF Derive, EscrowTokensOf, Derivation, MoneyOf, Address, SeedValue, Lit, Key

LEMMA LandBacked ==
  ASSUME FillInv, Backed(store), NEW s \in Sessions, Land(s)
  PROVE  Backed(store')
<1> DEFINE rules == RulesOf(s)
<1> DEFINE accounts == Sent(s)
<1> DEFINE args == request[s].args
<1> DEFINE account(i) == accounts[rules[i].name]
<1>1. Meets(rules, accounts, args, store)
  BY AcceptedMeets DEF Land
<1>2. Tidy(rules)
  BY RequestTidy DEF Land, Acceptable, Built, FillInv, Typed, RulesOf
<1>3. /\ \A i \in DOMAIN rules : rules[i].life = "closed" => account(i) \notin store'
      /\ \A a \in store' :
           \/ a \in store
           \/ \E i \in DOMAIN rules : rules[i].life \in {"new", "needed"} /\ a = account(i)
      /\ \A a \in store :
           \/ a \in store'
           \/ \E i \in DOMAIN rules : rules[i].life = "closed" /\ a = account(i)
      /\ \A i \in DOMAIN rules :
           rules[i].life \in {"new", "needed"} =>
              \/ account(i) \in store'
              \/ \E j \in DOMAIN rules : rules[j].life = "closed"
  BY Landed
<1> HIDE DEF rules, accounts, args
<1>4. ASSUME NEW i \in DOMAIN rules, NEW d \in rules[i].at
      PROVE  account(i) = Derive(d, accounts, args)
  BY <1>1 DEF Meets
<1>5. ASSUME NEW i \in DOMAIN rules, Plain(rules[i])
      PROVE  /\ rules[i].life \in {"new", "needed"} => ~ IsMoney(account(i))
             /\ rules[i].life # "closed"
  <2>1. CASE rules[i].life \in {"old", "any"}
    BY <2>1
  <2>2. CASE rules[i].life \in {"new", "needed"} /\ \E d \in rules[i].at : Elsewhere(d)
    <3>1. PICK d \in rules[i].at : Elsewhere(d)
      BY <2>2
    <3>2. account(i) = Derive(d, accounts, args) /\ ~ IsMoney(Derive(d, accounts, args))
      BY <1>4, <3>1, ElsewhereType
    <3> QED BY <2>2, <3>2
  <2> QED BY <1>5, <2>1, <2>2 DEF Plain
<1>6. ASSUME NEW i \in DOMAIN rules, rules[i] \in {Money, Paid}
      PROVE  account(i) = MoneyOf(accounts["booking"])
  BY <1>4, <1>6, Lifes, MoneyDerived
<1>7. ASSUME NEW i \in DOMAIN rules, rules[i] = Ended
      PROVE  ~ IsBooking(account(i))
  <2>1. Lives(rules[i], account(i), store)
    BY <1>1 DEF Meets
  <2>2. Type(account(i)) \in DisputeAccount
    BY <1>7, <2>1, Lifes DEF Lives
  <2> QED BY <2>2 DEF IsBooking, DisputeAccount
<1>8. ASSUME NEW i \in DOMAIN rules, rules[i] = Taken
      PROVE  IsBooking(account(i)) /\ account(i) = accounts["booking"]
  <2>1. PICK d \in rules[i].at : TRUE
    BY <1>8, Lifes
  <2>2. account(i) = Derive(d, accounts, args)
    BY <1>4
  <2> QED BY <1>8, <2>1, <2>2, TakenType, Lifes
<1>9. CASE Calm(rules)
  <2> SUFFICES ASSUME NEW a \in store', IsMoney(a)
               PROVE  \E b \in store' : IsBooking(b) /\ a = MoneyOf(b)
    BY DEF Backed
  <2>1. a \in store
    BY <1>3, <1>5, <1>9, Lifes DEF Calm
  <2>2. PICK b \in store : IsBooking(b) /\ a = MoneyOf(b)
    BY <2>1 DEF Backed
  <2>3. ASSUME NEW i \in DOMAIN rules, rules[i].life = "closed", b = account(i)
        PROVE  FALSE
    <3>1. rules[i] \in {Money, Ended}
      BY <1>5, <1>9, <2>3 DEF Calm
    <3>2. rules[i] = Money
      BY <1>7, <2>2, <2>3, <3>1
    <3>3. IsMoney(b)
      BY <1>6, <2>3, <3>2, MoneyType
    <3> QED BY <2>2, <3>3 DEF IsMoney, IsBooking
  <2> QED BY <1>3, <2>2, <2>3
<1>10. CASE Returning(rules)
  <2> SUFFICES ASSUME NEW a \in store', IsMoney(a)
               PROVE  \E b \in store' : IsBooking(b) /\ a = MoneyOf(b)
    BY DEF Backed
  <2>1. a \in store
    BY <1>3, <1>5, <1>10, Lifes DEF Returning
  <2>2. PICK b \in store : IsBooking(b) /\ a = MoneyOf(b)
    BY <2>1 DEF Backed
  <2>3. ASSUME NEW i \in DOMAIN rules, rules[i].life = "closed", b = account(i)
        PROVE  FALSE
    <3>1. rules[i] \in {Money, Freed}
      BY <1>5, <1>10, <2>3 DEF Returning
    <3>2. CASE rules[i] = Money
      <4>1. IsMoney(b)
        BY <1>6, <2>3, <3>2, MoneyType
      <4> QED BY <2>2, <4>1 DEF IsMoney, IsBooking
    <3>3. CASE rules[i] = Freed
      <4>1. b = accounts["booking"]
        BY <2>3, <3>3, Lifes
      <4>2. PICK t \in DOMAIN rules : rules[t] = Money
        BY <1>10 DEF Returning
      <4>3. account(t) = a
        BY <1>6, <2>2, <4>1, <4>2
      <4>4. account(t) \notin store'
        BY <1>3, <4>2, Lifes
      <4> QED BY <4>3, <4>4
    <3> QED BY <3>1, <3>2, <3>3
  <2> QED BY <1>3, <2>2, <2>3
<1>11. CASE Placing(rules)
  <2> SUFFICES ASSUME NEW a \in store', IsMoney(a)
               PROVE  \E b \in store' : IsBooking(b) /\ a = MoneyOf(b)
    BY DEF Backed
  <2>1. ASSUME NEW i \in DOMAIN rules
        PROVE  rules[i].life # "closed"
    BY <1>5, <1>11, Lifes DEF Placing
  <2>2. CASE a \in store
    <3>1. PICK b \in store : IsBooking(b) /\ a = MoneyOf(b)
      BY <2>2 DEF Backed
    <3> QED BY <1>3, <2>1, <3>1
  <2>3. CASE a \notin store
    <3>1. PICK i \in DOMAIN rules : rules[i].life \in {"new", "needed"} /\ a = account(i)
      BY <1>3, <2>3
    <3>2. rules[i] \in {Taken, Paid}
      BY <1>5, <1>11, <3>1 DEF Placing
    <3>3. rules[i] # Taken
      BY <1>8, <3>1 DEF IsMoney, IsBooking
    <3>4. a = MoneyOf(accounts["booking"])
      BY <1>6, <3>1, <3>2, <3>3
    <3>5. PICK t \in DOMAIN rules : rules[t] = Taken
      BY <1>11 DEF Placing
    <3>6. IsBooking(accounts["booking"]) /\ account(t) = accounts["booking"]
      BY <1>8, <3>5
    <3>7. accounts["booking"] \in store'
      BY <1>3, <2>1, <3>5, <3>6, Lifes
    <3> QED BY <3>4, <3>6, <3>7
  <2> QED BY <2>2, <2>3
<1> QED BY <1>2, <1>9, <1>10, <1>11 DEF Tidy


-----------------------------------------------------------------------------
(***************************************************************************)
(* The accounts that are there at first.                                   *)
(***************************************************************************)
LEMMA FirstCounts ==
  ASSUME NEW sources, DOMAIN sources \subseteq Nat,
         NEW i \in DOMAIN sources, NEW n \in DOMAIN sources[i],
         \A j \in DOMAIN sources : j < i => n \notin DOMAIN sources[j]
  PROVE  FirstOf(sources)[n] = sources[i][n]
<1> DEFINE knowing == {j \in DOMAIN sources : n \in DOMAIN sources[j]}
<1> DEFINE first == CHOOSE j \in knowing : \A k \in knowing : j <= k
<1>1. FirstOf(sources)[n] = sources[first][n]
  BY Zenon DEF FirstOf
<1>2. i \in knowing /\ \A k \in knowing : i <= k
  OBVIOUS
<1>3. first \in knowing /\ \A k \in knowing : first <= k
  BY <1>2
<1>4. first = i
  BY <1>2, <1>3
<1> HIDE DEF first
<1> QED BY <1>1, <1>4

LEMMA OtherProgram ==
  ASSUME NEW d, NEW accounts, NEW args, d.program \notin {"held", "escrow"}
  PROVE  ~ IsMoney(Derive(d, accounts, args))
BY DEF Derive, Address, IsMoney, Type

\* What belongs to a stay, of which only its booking's money is money.
LEMMA Belonging ==
  ASSUME NEW stay, NEW as
  PROVE  /\ \A n \in PartyNames \cup {"bookingDays", "dispute"} : ~ IsMoney(Belongings(stay, as)[n])
         /\ IsBooking(Belongings(stay, as)["booking"])
         /\ Belongings(stay, as)["escrowTokenAccount"]
              = MoneyOf(Belongings(stay, as)["booking"])
<1> DEFINE guest == Wallet(Stay[stay].guest)
<1> DEFINE host == Wallet(Stay[stay].host)
<1> DEFINE actor == IF as = "guest" THEN guest ELSE host
<1> DEFINE other == IF as = "guest" THEN host ELSE guest
<1> DEFINE args == [listingId |-> Stay[stay].listingId, checkIn |-> Stay[stay].checkIn, id |-> actor]
<1> DEFINE profiles == [guestProfile |-> ProfileAt(guest), hostProfile |-> ProfileAt(host)]
<1> DEFINE listing == Derive(ListingAt("hostProfile", Arg("u16", "listingId")), profiles, args)
<1> DEFINE first == FirstOf(<<profiles, [property |-> listing]>>)
<1> DEFINE booking == Derive(BookingOf(Key("property"), Key("guestProfile"), Arg("i64", "checkIn")),
                             first, args)
<1> DEFINE days(year) == Derive(DaysOf(Key("property"), Arg(year, "checkIn")), first, args)
<1> DEFINE ofBooking(d) == Derive(d, [booking |-> booking], <<>>)
<1> DEFINE second ==
        [args |-> args, actor |-> actor, listing |-> listing, booking |-> booking,
         bookingDays |-> days("year"), bookingDaysNext |-> days("nextYear"),
         dispute |-> ofBooking(DisputeOf("booking")),
         escrowTokenAccount |-> ofBooking(EscrowTokensOf("booking")),
         guest |-> profiles.guestProfile, client |-> guest, host |-> host,
         clientProfile |-> profiles.guestProfile, clientReputation |-> ReputationAt(guest),
         guestReputation |-> ReputationAt(guest), hostReputation |-> ReputationAt(host),
         guestTokenAccount |-> TokensOf(guest), clientTokenAccount |-> TokensOf(guest),
         hostTokenAccount |-> TokensOf(host),
         identity |-> Derive(IdentityAt("id"), <<>>, args)]
<1> DEFINE third ==
        [n \in {"caller", "signer", "initiator", "openerWallet", "authority", "payer"} |-> actor]
<1> DEFINE fourth == [n \in {"userProfile", "initiatorProfile", "guiltyProfile"} |-> ProfileAt(actor)]
<1> DEFINE fifth == [n \in {"reputationProfile", "guiltyReputation"} |-> ReputationAt(actor)]
<1> DEFINE sixth ==
        [n \in {"senderTokenAccount", "userTokenAccount", "guiltyTokenAccount"} |-> TokensOf(actor)]
<1> DEFINE seventh == [victimProfile |-> ProfileAt(other), victimTokenAccount |-> TokensOf(other)]
<1> DEFINE sources == <<first, second, third, fourth, fifth, sixth, seventh>>
<1>1. Belongings(stay, as) = FirstOf(sources)
  BY Zenon DEF Belongings
<1>2. DOMAIN first = {"guestProfile", "hostProfile", "property"}
  BY DEF FirstOf
<1>3. /\ second.listing = listing /\ second.booking = booking /\ second.bookingDays = days("year")
      /\ second.dispute = ofBooking(DisputeOf("booking"))
      /\ second.escrowTokenAccount = ofBooking(EscrowTokensOf("booking"))
      /\ second.identity = Derive(IdentityAt("id"), <<>>, args)
  OBVIOUS
<1>4. /\ {"listing", "booking", "bookingDays", "dispute", "escrowTokenAccount", "identity"}
            \subseteq DOMAIN second
      /\ DOMAIN second \cap {"userProfile", "reputationProfile"} = {}
  OBVIOUS
<1>5. /\ DOMAIN third \cap {"userProfile", "reputationProfile"} = {}
      /\ DOMAIN fourth \cap {"userProfile", "reputationProfile"} = {"userProfile"}
      /\ "reputationProfile" \in DOMAIN fifth
      /\ fourth["userProfile"] = ProfileAt(actor)
      /\ fifth["reputationProfile"] = ReputationAt(actor)
  OBVIOUS
<1>6. ofBooking(EscrowTokensOf("booking")) = MoneyOf(booking)
  BY MoneyDerived
<1> HIDE DEF first, second, third, fourth, fifth, sixth, seventh
<1>7. /\ DOMAIN sources = 1..7 /\ sources[1] = first /\ sources[2] = second /\ sources[3] = third
      /\ sources[4] = fourth /\ sources[5] = fifth
  OBVIOUS
<1> HIDE DEF sources
<1>8. ASSUME NEW n \in {"listing", "booking", "bookingDays", "dispute", "escrowTokenAccount", "identity"}
      PROVE  Belongings(stay, as)[n] = second[n]
  <2>1. 2 \in DOMAIN sources /\ n \in DOMAIN sources[2]
    BY <1>4, <1>7
  <2>2. \A j \in DOMAIN sources : j < 2 => n \notin DOMAIN sources[j]
    BY <1>2, <1>7
  <2>3. FirstOf(sources)[n] = sources[2][n]
    BY <1>7, <2>1, <2>2, FirstCounts
  <2> QED BY <1>1, <1>7, <2>3
<1>9. Belongings(stay, as)["userProfile"] = ProfileAt(actor)
  <2>1. 4 \in DOMAIN sources /\ "userProfile" \in DOMAIN sources[4]
    BY <1>5, <1>7
  <2>2. \A j \in DOMAIN sources : j < 4 => "userProfile" \notin DOMAIN sources[j]
    BY <1>2, <1>4, <1>5, <1>7
  <2>3. FirstOf(sources)["userProfile"] = sources[4]["userProfile"]
    BY <1>7, <2>1, <2>2, FirstCounts
  <2> QED BY <1>1, <1>5, <1>7, <2>3
<1>10. Belongings(stay, as)["reputationProfile"] = ReputationAt(actor)
  <2>1. 5 \in DOMAIN sources /\ "reputationProfile" \in DOMAIN sources[5]
    BY <1>5, <1>7
  <2>2. \A j \in DOMAIN sources : j < 5 => "reputationProfile" \notin DOMAIN sources[j]
    BY <1>2, <1>4, <1>5, <1>7
  <2>3. FirstOf(sources)["reputationProfile"] = sources[5]["reputationProfile"]
    BY <1>7, <2>1, <2>2, FirstCounts
  <2> QED BY <1>1, <1>5, <1>7, <2>3
<1>11. ~ IsMoney(ProfileAt(actor)) /\ ~ IsMoney(ReputationAt(actor))
  BY OtherProgram DEF ProfileAt, ProfileOf, ReputationAt, ReputationOf, Derivation
<1>12. ~ IsMoney(second.identity) /\ ~ IsMoney(second.listing) /\ ~ IsMoney(second.dispute)
  BY <1>3, OtherProgram DEF IdentityAt, ListingAt, DisputeOf, Derivation
<1>13. ~ IsMoney(second.bookingDays)
  BY <1>3, ElsewhereType DEF Elsewhere
<1>14. IsBooking(second.booking)
  BY <1>3, StayType
<1> QED BY <1>3, <1>6, <1>8, <1>9, <1>10, <1>11, <1>12, <1>13, <1>14 DEF PartyNames


LEMMA GroundsNoMoney ==
  ASSUME NEW a \in Grounds
  PROVE  ~ IsMoney(a)
<1>1. CASE a = Pda(CoreConfigPda)
  BY <1>1, OtherProgram DEF Pda, CoreConfigPda, Derivation
<1>2. CASE \E n \in PlatformNames : a = Shared[n]
  <2>1. /\ Shared["globalConfig"] = Pda(GlobalConfigPda)
        /\ Shared["escrowConfig"] = Pda(EscrowConfigPda)
        /\ Shared["disputeConfig"] = Pda(DisputeConfigPda)
        /\ Shared["treasuryConfig"] = Pda(TreasuryConfigPda)
        /\ Shared["platformVault"] = PlatformVault
        /\ Shared["treasuryVault"] = TreasuryVault
    BY DEF Shared
  <2>2. /\ ~ IsMoney(Pda(GlobalConfigPda)) /\ ~ IsMoney(Pda(DisputeConfigPda))
        /\ ~ IsMoney(Pda(TreasuryConfigPda))
    BY OtherProgram DEF Pda, GlobalConfigPda, DisputeConfigPda, TreasuryConfigPda, Derivation
  <2>3. ~ IsMoney(Pda(EscrowConfigPda))
    BY ElsewhereType DEF Elsewhere, Pda
  <2>4. ~ IsMoney(PlatformVault) /\ ~ IsMoney(TreasuryVault)
    BY DEF PlatformVault, TreasuryVault, Address, IsMoney, Type
  <2> QED BY <1>2, <2>1, <2>2, <2>3, <2>4 DEF PlatformNames
<1>3. CASE \E stay, as : \E n \in PartyNames : a = Belongings(stay, as)[n]
  <2>1. PICK stay, as : \E n \in PartyNames : a = Belongings(stay, as)[n]
    BY <1>3
  <2> QED BY <2>1, Belonging
<1> QED BY <1>1, <1>2, <1>3 DEF Grounds, OfParties

LEMMA ReadyBacked == Backed(Ready) /\ Backed({})
<1>1. ASSUME NEW a \in Ready, IsMoney(a)
      PROVE  \E b \in Ready : IsBooking(b) /\ a = MoneyOf(b)
  <2>1. PICK stay \in DOMAIN Stay \ Visited : \E n \in BookingNames : a = Belongings(stay, "guest")[n]
    BY <1>1, GroundsNoMoney DEF Ready
  <2> DEFINE own == Belongings(stay, "guest")
  <2>3. IsBooking(own["booking"]) /\ ~ IsMoney(own["bookingDays"]) /\ ~ IsMoney(own["dispute"])
    BY Belonging
  <2>6. own["escrowTokenAccount"] = MoneyOf(own["booking"])
    BY Belonging
  <2>7. own["booking"] \in Ready
    BY <2>1 DEF Ready, BookingNames
  <2> HIDE DEF own
  <2>8. a = own["escrowTokenAccount"]
    BY <1>1, <2>1, <2>3 DEF BookingNames, IsMoney, IsBooking, own
  <2> QED BY <2>3, <2>6, <2>7, <2>8
<1> QED BY <1>1 DEF Backed

-----------------------------------------------------------------------------
\* No landing separates money from its booking.
THEOREM MoneyNeverOrphaned == Spec => []NoOrphans
<1>1. Init => Backed(store)
  <2>1. Init => store \in {Ready, {}}
    BY DEF Init
  <2> QED BY <2>1, ReadyBacked
<1>2. FillInv /\ Backed(store) /\ [Next]_vars => Backed(store')
  <2>1. ASSUME FillInv, Backed(store), NEW s \in Sessions, Step(s)
        PROVE  Backed(store')
    <3>1. CASE Land(s)
      BY <2>1, <3>1, LandBacked
    <3>2. CASE ~ Land(s)
      <4>1. store' = store
        BY <2>1, <3>2 DEF Step, Open, Keep, Fill, Throw, Build, Drop
      <4> QED BY <2>1, <4>1
    <3> QED BY <3>1, <3>2
  <2>2. ASSUME Backed(store), UNCHANGED vars
        PROVE  Backed(store')
    BY <2>2 DEF vars
  <2> QED BY <2>1, <2>2 DEF Next
<1>3. Backed(store) => NoOrphans
  <2>1. ASSUME Backed(store), NEW a \in store, Type(a) = <<"escrow", "escrow">>
        PROVE  Seed(a, 2) \in store
    <3>1. PICK b \in store : a = MoneyOf(b)
      BY <2>1 DEF Backed, IsMoney
    <3>2. a.seeds[2][2] = b
      BY <3>1, MoneyType
    <3> QED BY <3>2 DEF Seed
  <2> QED BY <2>1 DEF NoOrphans
<1> DEFINE inv == Backed(store)
<1>4. inv' <=> Backed(store')
  BY DEF Backed
<1> QED
  <2>1. Init => inv
    BY <1>1
  <2>2. FillInv /\ inv /\ [Next]_vars => inv'
    BY <1>2, <1>4
  <2>3. inv => NoOrphans
    BY <1>3
  <2> HIDE DEF inv
  <2> QED BY <2>1, <2>2, <2>3, Filling, PTL DEF Spec

-----------------------------------------------------------------------------
(***************************************************************************)
(* The privileges a client asks for, against those the program needs.      *)
(***************************************************************************)
\* Names that only stand for wallets, and those of accounts that are written.
WalletNames ==
  {"signer", "host", "client", "admin", "authority", "payer", "initiator", "caller"}
Familiar ==
  WalletNames \cup
  {"guest", "guestProfile", "hostProfile", "openerWallet", "userProfile", "reputationProfile",
   "clientReputation", "guestReputation", "hostReputation", "guiltyReputation",
   "booking", "listing", "bookingDays", "bookingDaysNext", "dispute", "identity",
   "escrowTokenAccount", "guestTokenAccount", "clientTokenAccount", "hostTokenAccount",
   "senderTokenAccount", "userTokenAccount", "guiltyTokenAccount", "victimTokenAccount",
   "config", "globalConfig", "escrowConfig", "disputeConfig", "platformVault",
   "platformVaultTokenAccount", "treasuryVault", "mint", "usdcMint", "destinationTokenAccount"}

\* Who signs is a wallet and not filled in; and but for the payer of a plain
\* rejection, the client asks for the privileges that the program demands.
Entitled(op, builder, rules) ==
  /\ \A i \in DOMAIN builder.accounts :
       builder.accounts[i].signer =>
         /\ \/ builder.accounts[i].name \in WalletNames
            \/ builder.accounts[i].name = "cpiAuthority"
            \/ builder.accounts[i].name = "guest" /\ op = "guestReview"
         /\ \/ builder.accounts[i].name = "cpiAuthority"
            \/ \A j \in DOMAIN builder.defaults :
                 builder.defaults[j].account # builder.accounts[i].name
  /\ \A i \in DOMAIN rules :
       /\ rules[i].signer => builder.accounts[i].signer
       /\ rules[i].mut =>
            /\ builder.accounts[i].name \in Familiar
            /\ \/ builder.accounts[i].writable
               \/ builder.accounts[i].name = "payer" /\ op = "hostRejectBooking"

LEMMA ConfigEntitled ==
  \A op \in Ops("config") : Entitled(op, ConfigC!Plugin[op], ConfigA!Rules[op])
<1> USE DEF Entitled, WalletNames, Familiar, ConfigC!Builder, ConfigC!Meta, ConfigC!R,
    ConfigC!W, ConfigC!RS, ConfigC!WS, ConfigC!Default, ConfigC!Derivation,
    ConfigC!Fixed, ConfigA!GlobalConfigRule, ConfigA!Mut, ConfigA!MutSigns, ConfigA!New,
    ConfigA!ProgramRule, ConfigA!Ro, ConfigA!Rule, ConfigA!Signs, ConfigA!SystemRule,
    ConfigA!TokenRule, ConfigA!Unchecked, ConfigA!VaultRule
<1>1. Entitled("initializeConfig", ConfigC!InitializeConfig, ConfigA!InitializeConfig)
  BY SMTT(40) DEF ConfigC!InitializeConfig, ConfigA!InitializeConfig
<1>2. Entitled("withdrawFees", ConfigC!WithdrawFees, ConfigA!WithdrawFees)
  BY SMTT(40) DEF ConfigC!WithdrawFees, ConfigA!WithdrawFees
<1> HIDE DEF Entitled
<1> QED BY <1>1, <1>2
  DEF Ops, Demands, ConfigA!Rules, ConfigC!Plugin

LEMMA CoreEntitled ==
  \A op \in Ops("core") : Entitled(op, CoreC!Plugin[op], CoreA!Rules[op])
<1> USE DEF Entitled, WalletNames, Familiar, CoreC!Builder, CoreC!Meta, CoreC!R,
    CoreC!W, CoreC!RS, CoreC!WS, CoreC!Default, CoreC!Derivation, CoreC!Fixed,
    CoreA!Callers, CoreA!GlobalConfigRule, CoreA!Mut, CoreA!MutSigns, CoreA!New,
    CoreA!OneOf, CoreA!ProgramRule, CoreA!Ro, CoreA!Rule, CoreA!Signs, CoreA!SystemRule,
    CoreA!Unchecked
<1>1. Entitled("addInfraction", CoreC!AddInfraction, CoreA!UpdateReputationProfile({"disputes"}))
  BY SMTT(40) DEF CoreC!AddInfraction, CoreA!UpdateReputationProfile
<1>2. Entitled("clearActiveBooking", CoreC!ClearActiveBooking, CoreA!UpdateUserProfile({"disputes", "escrow"}))
  BY SMTT(40) DEF CoreC!ClearActiveBooking, CoreA!UpdateUserProfile
<1>3. Entitled("clearListingBooking", CoreC!ClearListingBooking, CoreA!ClearListingBooking)
  BY SMTT(40) DEF CoreC!ClearListingBooking, CoreA!ClearListingBooking
<1>4. Entitled("incrementClientCancellations", CoreC!IncrementClientCancellations, CoreA!UpdateReputationProfile({"escrow"}))
  BY SMTT(40) DEF CoreC!IncrementClientCancellations, CoreA!UpdateReputationProfile
<1>5. Entitled("incrementCompletedStays", CoreC!IncrementCompletedStays, CoreA!UpdateUserProfile({"escrow", "disputes"}))
  BY SMTT(40) DEF CoreC!IncrementCompletedStays, CoreA!UpdateUserProfile
<1>6. Entitled("incrementHostCancellations", CoreC!IncrementHostCancellations, CoreA!UpdateReputationProfile({"escrow"}))
  BY SMTT(40) DEF CoreC!IncrementHostCancellations, CoreA!UpdateReputationProfile
<1>7. Entitled("incrementHostedStays", CoreC!IncrementHostedStays, CoreA!UpdateUserProfile({"escrow", "disputes"}))
  BY SMTT(40) DEF CoreC!IncrementHostedStays, CoreA!UpdateUserProfile
<1>8. Entitled("initIdentity", CoreC!InitIdentity, CoreA!InitIdentity)
  BY SMTT(40) DEF CoreC!InitIdentity, CoreA!InitIdentity
<1>9. Entitled("initializeConfig", CoreC!InitializeConfig, CoreA!InitializeConfig)
  BY SMTT(40) DEF CoreC!InitializeConfig, CoreA!InitializeConfig
<1>10. Entitled("initializeListing", CoreC!InitializeListing, CoreA!InitializeListing)
  BY SMTT(40) DEF CoreC!InitializeListing, CoreA!InitializeListing
<1>11. Entitled("initializeUserProfile", CoreC!InitializeUserProfile, CoreA!InitializeUserProfile)
  BY SMTT(40) DEF CoreC!InitializeUserProfile, CoreA!InitializeUserProfile
<1>12. Entitled("linkIdentity", CoreC!LinkIdentity, CoreA!LinkIdentity)
  BY SMTT(40) DEF CoreC!LinkIdentity, CoreA!LinkIdentity
<1>13. Entitled("setActiveBooking", CoreC!SetActiveBooking, CoreA!UpdateUserProfile({"escrow"}))
  BY SMTT(40) DEF CoreC!SetActiveBooking, CoreA!UpdateUserProfile
<1>14. Entitled("setListingOccupied", CoreC!SetListingOccupied, CoreA!SetListingOccupied)
  BY SMTT(40) DEF CoreC!SetListingOccupied, CoreA!SetListingOccupied
<1>15. Entitled("updateClientReview", CoreC!UpdateClientReview, CoreA!UpdateClientReview)
  BY SMTT(40) DEF CoreC!UpdateClientReview, CoreA!UpdateClientReview
<1>16. Entitled("updateDeposit", CoreC!UpdateDeposit, CoreA!UpdateUserProfile({"treasury", "disputes", "escrow"}))
  BY SMTT(40) DEF CoreC!UpdateDeposit, CoreA!UpdateUserProfile
<1>17. Entitled("updateHostReview", CoreC!UpdateHostReview, CoreA!UpdateHostReview)
  BY SMTT(40) DEF CoreC!UpdateHostReview, CoreA!UpdateHostReview
<1>18. Entitled("updateListingPrice", CoreC!UpdateListingPrice, CoreA!UpdateListing)
  BY SMTT(40) DEF CoreC!UpdateListingPrice, CoreA!UpdateListing
<1>19. Entitled("updateListingPublish", CoreC!UpdateListingPublish, CoreA!UpdateListing)
  BY SMTT(40) DEF CoreC!UpdateListingPublish, CoreA!UpdateListing
<1>20. Entitled("updateListingReview", CoreC!UpdateListingReview, CoreA!UpdateListingReview)
  BY SMTT(40) DEF CoreC!UpdateListingReview, CoreA!UpdateListingReview
<1>21. Entitled("updateListingState", CoreC!UpdateListingState, CoreA!UpdateListing)
  BY SMTT(40) DEF CoreC!UpdateListingState, CoreA!UpdateListing
<1> HIDE DEF Entitled
<1> QED BY <1>1, <1>2, <1>3, <1>4, <1>5, <1>6, <1>7, <1>8, <1>9, <1>10, <1>11, <1>12,
    <1>13, <1>14, <1>15, <1>16, <1>17, <1>18, <1>19, <1>20, <1>21
  DEF Ops, Demands, CoreA!Rules, CoreC!Plugin

LEMMA DisputesEntitled ==
  /\ \A op \in Ops("disputes") : Entitled(op, DisputesC!Plugin[op], DisputesA!Rules[op])
  /\ Entitled("resolveDispute", DisputesC!Plugin["resolveDispute"],
              DisputesA!ResolveWithoutFault)
<1> USE DEF Entitled, WalletNames, Familiar, DisputesC!Builder, DisputesC!Meta,
    DisputesC!R, DisputesC!W, DisputesC!RS, DisputesC!WS, DisputesC!Default,
    DisputesC!Derivation, DisputesC!Fixed, DisputesA!AuthorityRule,
    DisputesA!BookingRule, DisputesA!Closed, DisputesA!CoreProgramRule,
    DisputesA!DisputeConfigRule, DisputesA!EscrowProgramRule,
    DisputesA!GlobalConfigRule, DisputesA!Mut, DisputesA!MutMintRule,
    DisputesA!MutSigns, DisputesA!New, DisputesA!OneOf, DisputesA!PartyRule,
    DisputesA!ProgramRule, DisputesA!Ro, DisputesA!Rule, DisputesA!Signs,
    DisputesA!SystemRule, DisputesA!TokenRule, DisputesA!Unchecked, DisputesA!VaultRule
<1>1. Entitled("addAdmin", DisputesC!AddAdmin, DisputesA!AddAdmin)
  BY SMTT(40) DEF DisputesC!AddAdmin, DisputesA!AddAdmin
<1>2. Entitled("closeDispute", DisputesC!CloseDispute, DisputesA!CloseDispute)
  BY SMTT(40) DEF DisputesC!CloseDispute, DisputesA!CloseDispute
<1>3. Entitled("deleteAdmin", DisputesC!DeleteAdmin, DisputesA!DeleteAdmin)
  BY SMTT(40) DEF DisputesC!DeleteAdmin, DisputesA!DeleteAdmin
<1>4. Entitled("escalateDispute", DisputesC!EscalateDispute, DisputesA!EscalateDispute)
  BY SMTT(40) DEF DisputesC!EscalateDispute, DisputesA!EscalateDispute
<1>5. Entitled("initializeConfig", DisputesC!InitializeConfig, DisputesA!InitializeConfig)
  BY SMTT(40) DEF DisputesC!InitializeConfig, DisputesA!InitializeConfig
<1>6. Entitled("linkEvidente", DisputesC!LinkEvidente, DisputesA!LinkEvidence)
  BY SMTT(40) DEF DisputesC!LinkEvidente, DisputesA!LinkEvidence
<1>7. Entitled("openDispute", DisputesC!OpenDispute, DisputesA!OpenDispute)
  BY SMTT(40) DEF DisputesC!OpenDispute, DisputesA!OpenDispute
<1>8. Entitled("resolveDispute", DisputesC!ResolveDispute, DisputesA!ResolveDispute)
  BY SMTT(40) DEF DisputesC!ResolveDispute, DisputesA!ResolveDispute,
       DisputesA!ResolveDisputeWith, DisputesA!GuiltyReputation
<1>10. Entitled("resolveDispute", DisputesC!ResolveDispute, DisputesA!ResolveWithoutFault)
  BY SMTT(40) DEF DisputesC!ResolveDispute, DisputesA!ResolveWithoutFault,
       DisputesA!ResolveDisputeWith, DisputesA!GuiltyReputation
<1>9. Entitled("solveDisputeBeforeAdmin", DisputesC!SolveDisputeBeforeAdmin, DisputesA!SolveDisputeBeforeAdmin)
  BY SMTT(40) DEF DisputesC!SolveDisputeBeforeAdmin, DisputesA!SolveDisputeBeforeAdmin
<1> HIDE DEF Entitled
<1> QED BY <1>1, <1>2, <1>3, <1>4, <1>5, <1>6, <1>7, <1>8, <1>9, <1>10
  DEF Ops, Demands, DisputesA!Rules, DisputesC!Plugin

LEMMA EscrowEntitled ==
  \A op \in Ops("escrow") : Entitled(op, EscrowC!Plugin[op], EscrowA!Rules[op])
<1> USE DEF Entitled, WalletNames, Familiar, EscrowC!Builder, EscrowC!Meta, EscrowC!R,
    EscrowC!W, EscrowC!RS, EscrowC!WS, EscrowC!Default, EscrowC!Derivation,
    EscrowC!Fixed, EscrowA!AuthorityRule, EscrowA!BookedDays, EscrowA!BookingRule,
    EscrowA!Callers, EscrowA!Closed, EscrowA!CoreProgramRule, EscrowA!CreditedSigns,
    EscrowA!DaysRule, EscrowA!GlobalConfigRule, EscrowA!MintRule, EscrowA!Mut,
    EscrowA!MutMintRule, EscrowA!MutPartyRule, EscrowA!MutSigns, EscrowA!Needed,
    EscrowA!New, EscrowA!NextDaysRule, EscrowA!OneOf, EscrowA!OwnTokensRule,
    EscrowA!PartyRule, EscrowA!ProgramRule, EscrowA!Ro, EscrowA!Rule, EscrowA!Signs,
    EscrowA!SystemRule, EscrowA!TokenRule, EscrowA!TokensRule, EscrowA!Unchecked,
    EscrowA!VaultRule
<1>1. Entitled("bookingCompletes", EscrowC!BookingCompletes, EscrowA!BookingCompletes)
  BY SMTT(40) DEF EscrowC!BookingCompletes, EscrowA!BookingCompletes
<1>2. Entitled("bookingStarts", EscrowC!BookingStarts, EscrowA!BookingStarts)
  BY SMTT(40) DEF EscrowC!BookingStarts, EscrowA!BookingStarts
<1>3. Entitled("cpiResolveDisputeTransfer", EscrowC!CpiResolveDisputeTransfer, EscrowA!ResolveDisputeTransferCpi)
  BY SMTT(40) DEF EscrowC!CpiResolveDisputeTransfer, EscrowA!ResolveDisputeTransferCpi
<1>4. Entitled("cpiUpdateBookingStatus", EscrowC!CpiUpdateBookingStatus, EscrowA!UpdateBookingStatusCpi)
  BY SMTT(40) DEF EscrowC!CpiUpdateBookingStatus, EscrowA!UpdateBookingStatusCpi
<1>5. Entitled("createBooking", EscrowC!CreateBooking, EscrowA!CreateBooking)
  BY SMTT(40) DEF EscrowC!CreateBooking, EscrowA!CreateBooking,
       EscrowA!CreateBookingWith
<1>6. Entitled("createBookingCrossYear", EscrowC!CreateBookingCrossYear, EscrowA!CreateBookingCrossYear)
  BY SMTT(40) DEF EscrowC!CreateBookingCrossYear, EscrowA!CreateBookingCrossYear,
       EscrowA!CreateBookingWith
<1>7. Entitled("expireBooking", EscrowC!ExpireBooking, EscrowA!ExpireBooking)
  BY SMTT(40) DEF EscrowC!ExpireBooking, EscrowA!ExpireBooking,
       EscrowA!ExpireBookingWith
<1>8. Entitled("expireBookingCrossYear", EscrowC!ExpireBookingCrossYear, EscrowA!ExpireBookingCrossYear)
  BY SMTT(40) DEF EscrowC!ExpireBookingCrossYear, EscrowA!ExpireBookingCrossYear,
       EscrowA!ExpireBookingWith
<1>9. Entitled("guestCancelBooking", EscrowC!GuestCancelBooking, EscrowA!GuestCancelBooking)
  BY SMTT(40) DEF EscrowC!GuestCancelBooking, EscrowA!GuestCancelBooking,
       EscrowA!GuestCancelBookingWith
<1>10. Entitled("guestCancelBookingCrossYear", EscrowC!GuestCancelBookingCrossYear, EscrowA!GuestCancelBookingCrossYear)
  BY SMTT(40) DEF EscrowC!GuestCancelBookingCrossYear,
       EscrowA!GuestCancelBookingCrossYear, EscrowA!GuestCancelBookingWith
<1>11. Entitled("guestReview", EscrowC!GuestReview, EscrowA!GuestReview)
  BY SMTT(40) DEF EscrowC!GuestReview, EscrowA!GuestReview
<1>12. Entitled("hostAcceptBooking", EscrowC!HostAcceptBooking, EscrowA!HostAcceptBooking)
  BY SMTT(40) DEF EscrowC!HostAcceptBooking, EscrowA!HostAcceptBooking
<1>13. Entitled("hostCancelBooking", EscrowC!HostCancelBooking, EscrowA!HostCancelBooking)
  BY SMTT(40) DEF EscrowC!HostCancelBooking, EscrowA!HostCancelBooking,
       EscrowA!HostCancelBookingWith
<1>14. Entitled("hostCancelBookingCrossYear", EscrowC!HostCancelBookingCrossYear, EscrowA!HostCancelBookingCrossYear)
  BY SMTT(40) DEF EscrowC!HostCancelBookingCrossYear,
       EscrowA!HostCancelBookingCrossYear, EscrowA!HostCancelBookingWith
<1>15. Entitled("hostRejectBooking", EscrowC!HostRejectBooking, EscrowA!HostRejectBooking)
  BY SMTT(40) DEF EscrowC!HostRejectBooking, EscrowA!HostRejectBooking,
       EscrowA!Rejection
<1>16. Entitled("hostRejectBookingCrossYear", EscrowC!HostRejectBookingCrossYear, EscrowA!HostRejectBookingCrossYear)
  BY SMTT(40) DEF EscrowC!HostRejectBookingCrossYear,
       EscrowA!HostRejectBookingCrossYear, EscrowA!Rejection
<1>17. Entitled("hostReview", EscrowC!HostReview, EscrowA!HostReview)
  BY SMTT(40) DEF EscrowC!HostReview, EscrowA!HostReview
<1>18. Entitled("initializeEscrow", EscrowC!InitializeEscrow, EscrowA!InitializeConfigEscrow)
  BY SMTT(40) DEF EscrowC!InitializeEscrow, EscrowA!InitializeConfigEscrow
<1>19. Entitled("releaseFunds", EscrowC!ReleaseFunds, EscrowA!ReleaseFunds)
  BY SMTT(40) DEF EscrowC!ReleaseFunds, EscrowA!ReleaseFunds
<1> HIDE DEF Entitled
<1> QED BY <1>1, <1>2, <1>3, <1>4, <1>5, <1>6, <1>7, <1>8, <1>9, <1>10, <1>11, <1>12,
    <1>13, <1>14, <1>15, <1>16, <1>17, <1>18, <1>19
  DEF Ops, Demands, EscrowA!Rules, EscrowC!Plugin

LEMMA TreasuryEntitled ==
  \A op \in Ops("treasury") : Entitled(op, TreasuryC!Plugin[op], TreasuryA!Rules[op])
<1> USE DEF Entitled, WalletNames, Familiar, TreasuryC!Builder, TreasuryC!Meta,
    TreasuryC!R, TreasuryC!W, TreasuryC!RS, TreasuryC!WS, TreasuryC!Default,
    TreasuryC!Derivation, TreasuryC!Fixed, TreasuryA!Callers,
    TreasuryA!GlobalConfigRule, TreasuryA!MintRule, TreasuryA!Mut, TreasuryA!MutSigns,
    TreasuryA!New, TreasuryA!OneOf, TreasuryA!ProgramRule, TreasuryA!Ro, TreasuryA!Rule,
    TreasuryA!Signs, TreasuryA!SystemRule, TreasuryA!TokenRule, TreasuryA!TreasuryRule,
    TreasuryA!Unchecked
<1>1. Entitled("cpiPenalizeTransfer", TreasuryC!CpiPenalizeTransfer, TreasuryA!PenalizeTransferCpi)
  BY SMTT(40) DEF TreasuryC!CpiPenalizeTransfer, TreasuryA!PenalizeTransferCpi
<1>2. Entitled("depositGuarantee", TreasuryC!DepositGuarantee, TreasuryA!DepositGuarantee)
  BY SMTT(40) DEF TreasuryC!DepositGuarantee, TreasuryA!DepositGuarantee
<1>3. Entitled("initializeTreasury", TreasuryC!InitializeTreasury, TreasuryA!InitializeTreasury)
  BY SMTT(40) DEF TreasuryC!InitializeTreasury, TreasuryA!InitializeTreasury
<1>4. Entitled("withdrawGuarantee", TreasuryC!WithdrawGuarantee, TreasuryA!WithdrawGuarantee)
  BY SMTT(40) DEF TreasuryC!WithdrawGuarantee, TreasuryA!WithdrawGuarantee
<1> HIDE DEF Entitled
<1> QED BY <1>1, <1>2, <1>3, <1>4
  DEF Ops, Demands, TreasuryA!Rules, TreasuryC!Plugin

IsKey(a) == Type(a) = <<"wallet", "">>

LEMMA WalletIsKey == \A name : IsKey(Wallet(name)) /\ Wallet(name) # None
<1> TAKE name
<1>1. /\ Wallet(name).program = "wallet" /\ Wallet(name).seeds = <<<<"name", name>>>>
      /\ None.program = "none"
  BY DEF Wallet, Address, None
<1>2. DOMAIN <<<<"name", name>>>> = {1}
  OBVIOUS
<1>3. {i \in DOMAIN Wallet(name).seeds : Wallet(name).seeds[i][1] = "lit"} = {}
  <2>1. ASSUME NEW i \in DOMAIN Wallet(name).seeds
        PROVE  Wallet(name).seeds[i][1] = "name"
    BY <1>1, <1>2
  <2> QED BY <2>1
<1>4. Literal(Wallet(name)) = ""
  BY <1>3 DEF Literal
<1> QED BY <1>1, <1>4 DEF IsKey, Type

LEMMA FirstOne ==
  ASSUME NEW sources, NEW k \in 1..7, DOMAIN sources = 1..k,
         NEW n, \E i \in DOMAIN sources : n \in DOMAIN sources[i]
  PROVE  /\ n \in DOMAIN FirstOf(sources)
         /\ \E i \in DOMAIN sources :
              n \in DOMAIN sources[i] /\ FirstOf(sources)[n] = sources[i][n]
<1> DEFINE knowing == {j \in DOMAIN sources : n \in DOMAIN sources[j]}
<1> DEFINE first == CHOOSE j \in knowing : \A l \in knowing : j <= l
<1>1. n \in DOMAIN FirstOf(sources)
  BY DEF FirstOf
<1>2. FirstOf(sources)[n] = sources[first][n]
  BY <1>1, Zenon DEF FirstOf
<1>3. \E j \in knowing : \A l \in knowing : j <= l
  <2>1. knowing \subseteq 1..7 /\ knowing # {}
    OBVIOUS
  <2> HIDE DEF knowing
  <2>2. CASE 1 \in knowing
    BY <2>1, <2>2
  <2>3. CASE 1 \notin knowing /\ 2 \in knowing
    BY <2>1, <2>3
  <2>4. CASE 1 \notin knowing /\ 2 \notin knowing /\ 3 \in knowing
    BY <2>1, <2>4
  <2>5. CASE 1 \notin knowing /\ 2 \notin knowing /\ 3 \notin knowing /\ 4 \in knowing
    BY <2>1, <2>5
  <2>6. CASE 1 \notin knowing /\ 2 \notin knowing /\ 3 \notin knowing /\ 4 \notin knowing /\ 5 \in knowing
    BY <2>1, <2>6
  <2>7. CASE 1 \notin knowing /\ 2 \notin knowing /\ 3 \notin knowing /\ 4 \notin knowing /\ 5 \notin knowing /\ 6 \in knowing
    BY <2>1, <2>7
  <2>8. CASE 1 \notin knowing /\ 2 \notin knowing /\ 3 \notin knowing /\ 4 \notin knowing /\ 5 \notin knowing /\ 6 \notin knowing /\ 7 \in knowing
    BY <2>1, <2>8
  <2>9. \E i \in 1..7 : i \in knowing
    BY <2>1
  <2>10. \/ 1 \in knowing \/ 2 \in knowing \/ 3 \in knowing \/ 4 \in knowing
        \/ 5 \in knowing \/ 6 \in knowing \/ 7 \in knowing
    BY <2>9
  <2> QED BY <2>2, <2>3, <2>4, <2>5, <2>6, <2>7, <2>8, <2>10, Zenon
<1>4. first \in knowing
  BY <1>3
<1> HIDE DEF first
<1> QED BY <1>1, <1>2, <1>4

\* Of what belongs to a stay: wallets, and accounts that are written.
BelongingNames ==
  {"guest", "guestProfile", "hostProfile", "openerWallet", "userProfile", "reputationProfile",
   "clientReputation", "guestReputation", "hostReputation", "guiltyReputation",
   "booking", "listing", "bookingDays", "bookingDaysNext", "dispute", "identity",
   "escrowTokenAccount", "guestTokenAccount", "clientTokenAccount", "hostTokenAccount",
   "senderTokenAccount", "userTokenAccount", "guiltyTokenAccount", "victimTokenAccount"}

\* The accounts of a plain rejection that are written, but for its payer.
Credited == {"booking", "bookingDays", "escrowTokenAccount", "guestTokenAccount"}

LEMMA NoKey ==
  ASSUME NEW d, NEW accounts, NEW args, d.program \notin {"held", "wallet"}
  PROVE  ~ IsKey(Derive(d, accounts, args))
BY DEF Derive, Address, IsKey, Type

LEMMA BelongingReal ==
  ASSUME NEW stay, NEW as
  PROVE  /\ \A n \in WalletNames \ {"admin"} :
              n \in DOMAIN Belongings(stay, as) /\ IsKey(Belongings(stay, as)[n])
         /\ \A n \in BelongingNames :
              n \in DOMAIN Belongings(stay, as) /\ Belongings(stay, as)[n] # None
         /\ \A n \in Credited : ~ IsKey(Belongings(stay, as)[n])
         /\ "actor" \in DOMAIN Belongings(stay, as) /\ IsKey(Belongings(stay, as)["actor"])
<1> DEFINE guest == Wallet(Stay[stay].guest)
<1> DEFINE host == Wallet(Stay[stay].host)
<1> DEFINE actor == IF as = "guest" THEN guest ELSE host
<1> DEFINE other == IF as = "guest" THEN host ELSE guest
<1> DEFINE args == [listingId |-> Stay[stay].listingId, checkIn |-> Stay[stay].checkIn, id |-> actor]
<1> DEFINE profiles == [guestProfile |-> ProfileAt(guest), hostProfile |-> ProfileAt(host)]
<1> DEFINE listing == Derive(ListingAt("hostProfile", Arg("u16", "listingId")), profiles, args)
<1> DEFINE first == FirstOf(<<profiles, [property |-> listing]>>)
<1> DEFINE booking == Derive(BookingOf(Key("property"), Key("guestProfile"), Arg("i64", "checkIn")),
                             first, args)
<1> DEFINE days(year) == Derive(DaysOf(Key("property"), Arg(year, "checkIn")), first, args)
<1> DEFINE ofBooking(d) == Derive(d, [booking |-> booking], <<>>)
<1> DEFINE second ==
        [args |-> args, actor |-> actor, listing |-> listing, booking |-> booking,
         bookingDays |-> days("year"), bookingDaysNext |-> days("nextYear"),
         dispute |-> ofBooking(DisputeOf("booking")),
         escrowTokenAccount |-> ofBooking(EscrowTokensOf("booking")),
         guest |-> profiles.guestProfile, client |-> guest, host |-> host,
         clientProfile |-> profiles.guestProfile, clientReputation |-> ReputationAt(guest),
         guestReputation |-> ReputationAt(guest), hostReputation |-> ReputationAt(host),
         guestTokenAccount |-> TokensOf(guest), clientTokenAccount |-> TokensOf(guest),
         hostTokenAccount |-> TokensOf(host),
         identity |-> Derive(IdentityAt("id"), <<>>, args)]
<1> DEFINE third ==
        [n \in {"caller", "signer", "initiator", "openerWallet", "authority", "payer"} |-> actor]
<1> DEFINE fourth == [n \in {"userProfile", "initiatorProfile", "guiltyProfile"} |-> ProfileAt(actor)]
<1> DEFINE fifth == [n \in {"reputationProfile", "guiltyReputation"} |-> ReputationAt(actor)]
<1> DEFINE sixth ==
        [n \in {"senderTokenAccount", "userTokenAccount", "guiltyTokenAccount"} |-> TokensOf(actor)]
<1> DEFINE seventh == [victimProfile |-> ProfileAt(other), victimTokenAccount |-> TokensOf(other)]
<1> DEFINE sources == <<first, second, third, fourth, fifth, sixth, seventh>>
<1>1. Belongings(stay, as) = FirstOf(sources)
  BY Zenon DEF Belongings
<1>2. DOMAIN first = {"guestProfile", "hostProfile", "property"}
  BY DEF FirstOf
<1>3. /\ first["guestProfile"] = ProfileAt(guest) /\ first["hostProfile"] = ProfileAt(host)
  <2> DEFINE pair == <<profiles, [property |-> listing]>>
  <2>1. DOMAIN pair = 1..2 /\ pair[1] = profiles
    OBVIOUS
  <2>2. DOMAIN profiles = {"guestProfile", "hostProfile"}
    OBVIOUS
  <2> HIDE DEF pair, profiles
  <2>3. FirstOf(pair)["guestProfile"] = profiles["guestProfile"]
    BY <2>1, <2>2, FirstCounts
  <2>4. FirstOf(pair)["hostProfile"] = profiles["hostProfile"]
    BY <2>1, <2>2, FirstCounts
  <2> QED BY <2>3, <2>4 DEF pair, profiles
<1>4. IsKey(guest) /\ IsKey(host) /\ IsKey(actor) /\ guest # None /\ host # None /\ actor # None
  BY WalletIsKey
<1>5. \A w : ProfileAt(w) # None /\ ReputationAt(w) # None /\ TokensOf(w) # None
  BY DerivedKnown DEF ProfileAt, ProfileOf, ReputationAt, ReputationOf, Derivation, TokensOf,
       None, Address
<1>6. /\ listing # None /\ booking # None /\ days("year") # None /\ days("nextYear") # None
      /\ ofBooking(DisputeOf("booking")) # None /\ ofBooking(EscrowTokensOf("booking")) # None
      /\ Derive(IdentityAt("id"), <<>>, args) # None
  BY DerivedKnown DEF ListingAt, BookingOf, DaysOf, DisputeOf, EscrowTokensOf, IdentityAt,
       Derivation
<1>6a. /\ ~ IsKey(booking) /\ ~ IsKey(days("year"))
       /\ ~ IsKey(ofBooking(EscrowTokensOf("booking"))) /\ ~ IsKey(TokensOf(guest))
  <2>1. ~ IsKey(booking) /\ ~ IsKey(days("year")) /\ ~ IsKey(ofBooking(EscrowTokensOf("booking")))
    BY NoKey DEF BookingOf, DaysOf, EscrowTokensOf, Derivation
  <2>2. ~ IsKey(TokensOf(guest))
    BY DEF TokensOf, Address, IsKey, Type
  <2> QED BY <2>1, <2>2
<1>7. /\ \A n \in DOMAIN second \ {"args"} : second[n] # None
      /\ DOMAIN second =
           {"args", "actor", "listing", "booking", "bookingDays", "bookingDaysNext", "dispute",
            "escrowTokenAccount", "guest", "client", "host", "clientProfile",
            "clientReputation", "guestReputation", "hostReputation", "guestTokenAccount",
            "clientTokenAccount", "hostTokenAccount", "identity"}
      /\ IsKey(second["host"]) /\ IsKey(second["client"]) /\ IsKey(second["actor"])
      /\ \A n \in Credited : ~ IsKey(second[n])
  <2> HIDE DEF IsKey, None, guest, host, actor, listing, booking, days, ofBooking, args
  <2> QED BY <1>4, <1>5, <1>6, <1>6a DEF Credited
<1>8. /\ \A n \in DOMAIN third : IsKey(third[n]) /\ third[n] # None
      /\ DOMAIN third = {"caller", "signer", "initiator", "openerWallet", "authority", "payer"}
  <2> HIDE DEF actor
  <2> QED BY <1>4
<1>9. /\ \A n \in DOMAIN fourth : fourth[n] # None
      /\ DOMAIN fourth = {"userProfile", "initiatorProfile", "guiltyProfile"}
      /\ \A n \in DOMAIN fifth : fifth[n] # None
      /\ DOMAIN fifth = {"reputationProfile", "guiltyReputation"}
      /\ \A n \in DOMAIN sixth : sixth[n] # None
      /\ DOMAIN sixth = {"senderTokenAccount", "userTokenAccount", "guiltyTokenAccount"}
  <2> HIDE DEF actor
  <2> QED BY <1>5
<1>10. /\ \A n \in DOMAIN seventh : seventh[n] # None
       /\ DOMAIN seventh = {"victimProfile", "victimTokenAccount"}
  <2>1. /\ seventh["victimProfile"] = ProfileAt(other)
        /\ seventh["victimTokenAccount"] = TokensOf(other)
    OBVIOUS
  <2>2. DOMAIN seventh = {"victimProfile", "victimTokenAccount"}
    OBVIOUS
  <2>3. ProfileAt(other) # None /\ TokensOf(other) # None
    BY <1>5
  <2> HIDE DEF other, seventh
  <2> QED BY <2>1, <2>2, <2>3
<1> HIDE DEF first, second, third, fourth, fifth, sixth, seventh
<1>11. /\ DOMAIN sources = 1..7 /\ sources[1] = first /\ sources[2] = second /\ sources[3] = third
       /\ sources[4] = fourth /\ sources[5] = fifth /\ sources[6] = sixth /\ sources[7] = seventh
  OBVIOUS
<1> HIDE DEF sources
<1>12. ASSUME NEW n \in (WalletNames \ {"admin"}) \cup BelongingNames
       PROVE  \E i \in DOMAIN sources : n \in DOMAIN sources[i]
  <2>1. \E i \in 1..7 : n \in DOMAIN sources[i]
    BY <1>2, <1>7, <1>8, <1>9, <1>10, <1>11 DEF WalletNames, BelongingNames
  <2> QED BY <2>1, <1>11
<1>13. ASSUME NEW n \in WalletNames \ {"admin"}
       PROVE  n \in DOMAIN FirstOf(sources) /\ IsKey(FirstOf(sources)[n])
  <2>1. /\ n \in DOMAIN FirstOf(sources)
        /\ \E i \in DOMAIN sources :
             n \in DOMAIN sources[i] /\ FirstOf(sources)[n] = sources[i][n]
    BY <1>11, <1>12, FirstOne
  <2>2. ASSUME NEW i \in 1..7, n \in DOMAIN sources[i]
        PROVE  IsKey(sources[i][n])
    BY <2>2, <1>2, <1>7, <1>8, <1>9, <1>10, <1>11 DEF WalletNames
  <2> QED BY <2>1, <2>2, <1>11
<1>14. ASSUME NEW n \in BelongingNames
       PROVE  n \in DOMAIN FirstOf(sources) /\ FirstOf(sources)[n] # None
  <2>1. /\ n \in DOMAIN FirstOf(sources)
        /\ \E i \in DOMAIN sources :
             n \in DOMAIN sources[i] /\ FirstOf(sources)[n] = sources[i][n]
    BY <1>11, <1>12, FirstOne
  <2>2. ASSUME NEW i \in 1..7, n \in DOMAIN sources[i]
        PROVE  sources[i][n] # None
    BY <2>2, <1>2, <1>3, <1>5, <1>7, <1>8, <1>9, <1>10, <1>11 DEF BelongingNames
  <2> QED BY <2>1, <2>2, <1>11
<1>15. ASSUME NEW n \in Credited
       PROVE  ~ IsKey(FirstOf(sources)[n])
  <2>1. 2 \in DOMAIN sources /\ n \in DOMAIN sources[2]
    BY <1>7, <1>11 DEF Credited
  <2>2. \A j \in DOMAIN sources : j < 2 => n \notin DOMAIN sources[j]
    BY <1>2, <1>11 DEF Credited
  <2>3. FirstOf(sources)[n] = sources[2][n]
    BY <1>11, <2>1, <2>2, FirstCounts
  <2> QED BY <1>7, <1>11, <2>3
<1>16. "actor" \in DOMAIN FirstOf(sources) /\ IsKey(FirstOf(sources)["actor"])
  <2>1. 2 \in DOMAIN sources /\ "actor" \in DOMAIN sources[2]
    BY <1>7, <1>11
  <2>2. \A j \in DOMAIN sources : j < 2 => "actor" \notin DOMAIN sources[j]
    BY <1>2, <1>11
  <2>3. FirstOf(sources)["actor"] = sources[2]["actor"]
    BY <1>11, <2>1, <2>2, FirstCounts
  <2>4. "actor" \in DOMAIN FirstOf(sources)
    BY <2>1, <1>11, FirstOne
  <2> QED BY <1>7, <1>11, <2>3, <2>4
<1> QED BY <1>1, <1>13, <1>14, <1>15, <1>16

KeptNames ==
  {"globalConfig", "escrowConfig", "disputeConfig", "platformVault", "platformVaultTokenAccount",
   "treasuryVault", "mint", "usdcMint", "destinationTokenAccount"}

LEMMA SharedReal ==
  /\ \A n \in KeptNames : n \in DOMAIN Shared /\ Shared[n] # None
  /\ DOMAIN Shared \cap WalletNames = {"admin"} /\ IsKey(Shared["admin"])
  /\ DOMAIN Shared \cap BelongingNames = {}
  /\ {"config", "actor"} \cap DOMAIN Shared = {}
<1>1. /\ Shared["globalConfig"] = Pda(GlobalConfigPda)
      /\ Shared["escrowConfig"] = Pda(EscrowConfigPda)
      /\ Shared["disputeConfig"] = Pda(DisputeConfigPda)
      /\ Shared["platformVault"] = PlatformVault
      /\ Shared["platformVaultTokenAccount"] = PlatformVault
      /\ Shared["treasuryVault"] = TreasuryVault
      /\ Shared["mint"] = Mint /\ Shared["usdcMint"] = Mint
      /\ Shared["destinationTokenAccount"] = TokensOf(Root) /\ Shared["admin"] = Root
  BY DEF Shared
<1>2. DOMAIN Shared =
        {"globalConfig", "escrowConfig", "disputeConfig", "treasuryConfig", "configTreasury",
         "platformVaultPda", "platformVault", "platformVaultTokenAccount", "treasuryPda",
         "treasuryVault", "mint", "usdcMint", "admin", "destinationTokenAccount",
         "systemProgram", "tokenProgram", "staykeCore", "staykeCoreProgram",
         "staykeEscrowProgram", "staykeTreasuryProgram"}
  BY DEF Shared
<1>3. Pda(GlobalConfigPda) # None /\ Pda(EscrowConfigPda) # None /\ Pda(DisputeConfigPda) # None
  BY DerivedKnown DEF Pda, GlobalConfigPda, EscrowConfigPda, DisputeConfigPda, Derivation
<1>4. PlatformVault # None /\ TreasuryVault # None /\ Mint # None /\ TokensOf(Root) # None
  BY DEF PlatformVault, TreasuryVault, Mint, TokensOf, None, Address
<1>5. IsKey(Root)
  BY WalletIsKey DEF Root
<1>6. \A n \in KeptNames : n \in DOMAIN Shared /\ Shared[n] # None
  BY <1>1, <1>2, <1>3, <1>4 DEF KeptNames
<1>7. DOMAIN Shared \cap WalletNames = {"admin"}
  BY <1>2 DEF WalletNames
<1>8. /\ DOMAIN Shared \cap BelongingNames = {}
      /\ {"config", "actor"} \cap DOMAIN Shared = {}
  BY <1>2 DEF BelongingNames
<1> QED BY <1>1, <1>5, <1>6, <1>7, <1>8

LEMMA KeysAreKnown == \A a : IsKey(a) => a # None
<1>1. \A a : Type(a)[1] = a.program
  BY DEF Type
<1>2. None.program = "none"
  BY DEF None, Address
<1>3. <<"wallet", "">>[1] = "wallet"
  OBVIOUS
<1>4. ASSUME NEW a, IsKey(a)
      PROVE  a.program = "wallet"
  BY <1>1, <1>3, <1>4, Zenon DEF IsKey
<1> QED BY <1>2, <1>4

\* What a caller means by a name.
LEMMA MeansReal ==
  ASSUME NEW program, NEW op, NEW stay, NEW as
  PROVE  /\ \A n \in WalletNames : IsKey(Means(program, op, stay, as)[n])
         /\ \A n \in Familiar :
              n \in DOMAIN Means(program, op, stay, as) /\ Means(program, op, stay, as)[n] # None
         /\ op = "guestReview" => IsKey(Means(program, op, stay, as)["guest"])
         /\ op = "hostRejectBooking" =>
              \A n \in Credited : ~ IsKey(Means(program, op, stay, as)[n])
         /\ IsKey(Means(program, op, stay, as)["actor"])
<1> DEFINE sources ==
       <<RootSigns(op), GuestSigns(op, stay), Local(program), Shared, Belongings(stay, as)>>
<1> DEFINE own == Belongings(stay, as)
<1>0. /\ \A n \in WalletNames \ {"admin"} : n \in DOMAIN own /\ IsKey(own[n])
      /\ \A n \in BelongingNames : n \in DOMAIN own /\ own[n] # None
      /\ \A n \in Credited : ~ IsKey(own[n])
      /\ "actor" \in DOMAIN own /\ IsKey(own["actor"])
  BY BelongingReal
<1>1. Means(program, op, stay, as) = FirstOf(sources)
  BY Zenon DEF Means
<1>2. /\ DOMAIN RootSigns(op) \subseteq {"authority", "payer"}
      /\ \A n \in DOMAIN RootSigns(op) : RootSigns(op)[n] = Root
  BY DEF RootSigns
<1>3. /\ DOMAIN GuestSigns(op, stay) \subseteq {"guest"}
      /\ \A n \in DOMAIN GuestSigns(op, stay) : GuestSigns(op, stay)[n] = Wallet(Stay[stay].guest)
  BY DEF GuestSigns
<1>4. /\ DOMAIN Local(program) = {"config", "cpiAuthority"}
      /\ Local(program)["config"] # None
  <2>1. /\ Pda(CoreConfigPda) # None /\ Pda(DisputeConfigPda) # None
        /\ Pda(TreasuryConfigPda) # None
    BY DerivedKnown DEF Pda, CoreConfigPda, DisputeConfigPda, TreasuryConfigPda, Derivation
  <2> HIDE DEF None
  <2> QED BY <2>1 DEF Local
<1>5. IsKey(Root) /\ IsKey(Wallet(Stay[stay].guest))
  BY WalletIsKey DEF Root
<1>6. /\ DOMAIN sources = 1..5
      /\ sources[1] = RootSigns(op) /\ sources[2] = GuestSigns(op, stay)
      /\ sources[3] = Local(program) /\ sources[4] = Shared
      /\ sources[5] = own
  OBVIOUS
<1> HIDE DEF sources, own
<1>7. Familiar = WalletNames \cup BelongingNames \cup KeptNames \cup {"config"}
  BY DEF Familiar, WalletNames, BelongingNames, KeptNames
<1>8. ASSUME NEW n \in Familiar
      PROVE  \E i \in DOMAIN sources : n \in DOMAIN sources[i]
  <2>1. CASE n \in KeptNames \cup {"admin"}
    BY <2>1, <1>6, SharedReal
  <2>2. CASE n = "config"
    BY <2>2, <1>4, <1>6
  <2>3. CASE n \in (WalletNames \ {"admin"}) \cup BelongingNames
    BY <2>3, <1>6, <1>0
  <2> QED BY <1>7, <2>1, <2>2, <2>3
<1>9. ASSUME NEW n \in Familiar
      PROVE  /\ n \in DOMAIN FirstOf(sources)
             /\ \E i \in 1..5 : n \in DOMAIN sources[i] /\ FirstOf(sources)[n] = sources[i][n]
  BY <1>6, <1>8, FirstOne
<1>10. "config" \notin WalletNames /\ "cpiAuthority" \notin Familiar /\ "guest" \notin WalletNames
  BY DEF WalletNames, Familiar
<1>11. ASSUME NEW n \in WalletNames
       PROVE  IsKey(FirstOf(sources)[n])
  <2>1. PICK i \in 1..5 : n \in DOMAIN sources[i] /\ FirstOf(sources)[n] = sources[i][n]
    BY <1>7, <1>9
  <2>2. CASE i = 1
    BY <2>1, <2>2, <1>2, <1>5, <1>6
  <2>3. CASE i = 2
    BY <2>1, <2>3, <1>3, <1>5, <1>6
  <2>4. CASE i = 3
    BY <2>1, <2>4, <1>4, <1>6, <1>7, <1>10
  <2>5. CASE i = 4
    BY <2>1, <2>5, <1>6, SharedReal
  <2>6. CASE i = 5
    <3>1. CASE n = "admin"
      <4>1. 4 \in DOMAIN sources /\ n \in DOMAIN sources[4]
        BY <3>1, <1>6, SharedReal
      <4>2. \A j \in DOMAIN sources : j < 4 => n \notin DOMAIN sources[j]
        BY <3>1, <1>2, <1>3, <1>4, <1>6
      <4>3. FirstOf(sources)[n] = sources[4][n]
        BY <1>6, <4>1, <4>2, FirstCounts
      <4> QED BY <3>1, <4>3, <1>6, SharedReal
    <3>2. CASE n # "admin"
      BY <2>1, <2>6, <3>2, <1>6, <1>0
    <3> QED BY <3>1, <3>2
  <2> QED BY <2>2, <2>3, <2>4, <2>5, <2>6
<1>12. ASSUME NEW n \in Familiar
       PROVE  FirstOf(sources)[n] # None
  <2>1. CASE n \in WalletNames
    BY <2>1, <1>9, <1>11, KeysAreKnown
  <2>2. CASE n \notin WalletNames
    <3>1. PICK i \in 1..5 : n \in DOMAIN sources[i] /\ FirstOf(sources)[n] = sources[i][n]
      BY <1>9
    <3>2. CASE i = 1
      BY <2>2, <3>1, <3>2, <1>2, <1>6 DEF WalletNames
    <3>3. CASE i = 2
      BY <3>1, <3>3, <1>3, <1>5, <1>6, KeysAreKnown
    <3>4. CASE i = 3
      BY <3>1, <3>4, <1>4, <1>6, <1>10
    <3>5. CASE i = 4
      BY <2>2, <3>1, <3>5, <1>6, <1>7, SharedReal
    <3>6. CASE i = 5
      <4>1. CASE n \in BelongingNames
        BY <3>1, <3>6, <4>1, <1>6, <1>0
      <4>2. CASE n \in KeptNames
        <5>1. 4 \in DOMAIN sources /\ n \in DOMAIN sources[4]
          BY <4>2, <1>6, SharedReal
        <5>2. \A j \in DOMAIN sources : j < 4 => n \notin DOMAIN sources[j]
          BY <4>2, <1>2, <1>3, <1>4, <1>6 DEF KeptNames
        <5>3. FirstOf(sources)[n] = sources[4][n]
          BY <1>6, <5>1, <5>2, FirstCounts
        <5> QED BY <4>2, <5>3, <1>6, SharedReal
      <4>3. CASE n = "config"
        <5>1. 3 \in DOMAIN sources /\ n \in DOMAIN sources[3]
          BY <4>3, <1>4, <1>6
        <5>2. \A j \in DOMAIN sources : j < 3 => n \notin DOMAIN sources[j]
          BY <4>3, <1>2, <1>3, <1>6
        <5>3. FirstOf(sources)[n] = sources[3][n]
          BY <1>6, <5>1, <5>2, FirstCounts
        <5> QED BY <4>3, <5>3, <1>4, <1>6
      <4> QED BY <2>2, <1>7, <4>1, <4>2, <4>3
    <3> QED BY <3>2, <3>3, <3>4, <3>5, <3>6
  <2> QED BY <2>1, <2>2, <1>9
<1>13. ASSUME op = "guestReview"
       PROVE  IsKey(FirstOf(sources)["guest"])
  <2>1. 2 \in DOMAIN sources /\ "guest" \in DOMAIN sources[2]
    BY <1>6, <1>13 DEF GuestSigns
  <2>2. \A j \in DOMAIN sources : j < 2 => "guest" \notin DOMAIN sources[j]
    BY <1>2, <1>6
  <2>3. FirstOf(sources)["guest"] = sources[2]["guest"]
    BY <1>6, <2>1, <2>2, FirstCounts
  <2> QED BY <1>3, <1>5, <1>6, <2>1, <2>3
<1>14. ASSUME NEW n \in Credited \cup {"actor"}
       PROVE  FirstOf(sources)[n] = own[n]
  <2>1. 5 \in DOMAIN sources /\ n \in DOMAIN sources[5]
    BY <1>6, <1>0 DEF Credited, BelongingNames
  <2>2. \A j \in DOMAIN sources : j < 5 => n \notin DOMAIN sources[j]
    BY <1>2, <1>3, <1>4, <1>6, SharedReal DEF Credited, BelongingNames
  <2>3. FirstOf(sources)[n] = sources[5][n]
    BY <1>6, <2>1, <2>2, FirstCounts
  <2> QED BY <2>3, <1>6
<1>15. /\ \A n \in Credited : ~ IsKey(FirstOf(sources)[n])
       /\ IsKey(FirstOf(sources)["actor"])
  BY <1>14, <1>0
<1> QED BY <1>1, <1>9, <1>11, <1>12, <1>13, <1>15

-----------------------------------------------------------------------------
(***************************************************************************)
(* What a caller who made no mistake gives.                                *)
(***************************************************************************)
LEMMA ChangedPayer ==
  ASSUME NEW program, NEW op, NEW stay, NEW as, NEW change \in Changes(program, op, stay, as),
         "payer" \in DOMAIN change
  PROVE  IsKey(change["payer"])
<1> DEFINE builder == Plugins[program][op]
<1> DEFINE names == NamesOf(builder)
<1> DEFINE asked == names \ Defaulted(builder)
<1> DEFINE means == Means(program, op, stay, as)
<1> DEFINE others(other) == Means(program, op, other, as)
<1> DEFINE differing(other) == {n \in names : others(other)[n] # means[n]}
<1> DEFINE mixedUp(other) ==
             {[n \in mixed |-> others(other)[n]] :
                mixed \in {{n} : n \in differing(other)}
                            \cup {group \cap differing(other) \cap asked : group \in Groups}}
<1> DEFINE authorities ==
             IF CpiOnly(builder)
               THEN {Only("cpiAuthority", Pda(CpiAuthority(p))) : p \in Callable}
                      \cup {Only("cpiAuthority", means.actor)}
               ELSE {}
<1> DEFINE relayed == {Only(n, Relayer) : n \in names \cap {"payer"}}
<1> DEFINE explicit ==
             {Only(n, means[n]) : n \in Defaulted(builder) \cap {"bookingDays", "userProfile"}}
<1> DEFINE forgotten == {Only(n, None) : n \in asked \cap {"booking", "property", "authority"}}
<1>1. change \in {<<>>} \cup authorities \cup relayed \cup explicit \cup forgotten
                   \cup UNION {mixedUp(other) : other \in DOMAIN Stay \ {stay}}
  BY Zenon DEF Changes
<1>2. \A n, a : DOMAIN Only(n, a) = {n} /\ Only(n, a)[n] = a
  BY DEF Only
<1>3. DOMAIN <<>> = {}
  OBVIOUS
<1>4. change \notin authorities
  <2>1. ASSUME NEW p, change = Only("cpiAuthority", Pda(CpiAuthority(p))) PROVE FALSE
    BY <2>1 DEF Only
  <2>2. ASSUME change = Only("cpiAuthority", means.actor) PROVE FALSE
    BY <2>2 DEF Only
  <2> HIDE DEF means, builder
  <2> QED BY <2>1, <2>2
<1>5. change \notin explicit /\ change \notin forgotten
  <2>1. ASSUME NEW n \in {"bookingDays", "userProfile"}, change = Only(n, means[n]) PROVE FALSE
    BY <2>1 DEF Only
  <2>2. ASSUME NEW n \in {"booking", "property", "authority"}, change = Only(n, None) PROVE FALSE
    BY <2>2 DEF Only
  <2> HIDE DEF means, builder, asked
  <2> QED BY <2>1, <2>2
<1>6. CASE change \in relayed
  <2>1. change = Only("payer", Relayer)
    BY <1>6
  <2> QED BY <2>1, <1>2, WalletIsKey DEF Relayer
<1>7. CASE \E other \in DOMAIN Stay : change \in mixedUp(other)
  <2>1. PICK other \in DOMAIN Stay : change \in mixedUp(other)
    BY <1>7
  <2>2. PICK mixed : change = [n \in mixed |-> others(other)[n]]
    BY <2>1
  <2>3. change["payer"] = others(other)["payer"]
    BY <2>2
  <2>4. "payer" \in WalletNames
    BY DEF WalletNames
  <2> QED BY <2>3, <2>4, MeansReal
<1> HIDE DEF authorities, explicit, forgotten, relayed, mixedUp
<1> QED BY <1>1, <1>3, <1>4, <1>5, <1>6, <1>7

MeansOf(r) == Means(r.program, r.op, r.stay, r.as)

LEMMA RequestGiven ==
  ASSUME NEW r \in Requests
  PROVE  /\ r.given =
              FirstOf(<<r.change, [n \in Defaulted(r.builder) |-> None],
                        IF r.kind = "plugin" THEN Only("payer", None) ELSE <<>>, MeansOf(r)>>)
         /\ r.feePayer \in {Root, MeansOf(r)["actor"]}
         /\ r.honest <=>
              \A n \in DOMAIN r.change : n = "payer" \/ r.change[n] = MeansOf(r)[n]
         /\ "payer" \in DOMAIN r.change => IsKey(r.change["payer"])
<1>1. PICK wish \in Wishes : r = Ask(wish)
  BY Zenon DEF Requests
<1>2. /\ r.program = wish.program /\ r.op = wish.op /\ r.stay = wish.stay /\ r.as = wish.as
      /\ r.kind = wish.kind /\ r.change = wish.change /\ r.builder = BuilderOf(wish)
      /\ r.given =
           FirstOf(<<wish.change, [n \in Defaulted(BuilderOf(wish)) |-> None],
                     IF wish.kind = "plugin" THEN Only("payer", None) ELSE <<>>,
                     Means(wish.program, wish.op, wish.stay, wish.as)>>)
      /\ r.feePayer =
           IF wish.op \in RootOps
             THEN Root
             ELSE Means(wish.program, wish.op, wish.stay, wish.as).actor
      /\ r.honest =
           \A n \in DOMAIN wish.change :
             n = "payer" \/ wish.change[n] = Means(wish.program, wish.op, wish.stay, wish.as)[n]
  BY <1>1 DEF Ask
<1>3. wish.change = <<>> \/ wish.change \in Changes(wish.program, wish.op, wish.stay, wish.as)
  <2>1. PICK task \in Tasks : wish \in WishesOf(task)
    BY DEF Wishes
  <2>2. CASE \E branch : wish = Wish(task, branch, "sync", <<>>)
    BY <2>2 DEF Wish
  <2>3. CASE \E branch, change :
               /\ change \in Changes(task.program, task.op, task.stay, task.as)
               /\ wish = Wish(task, branch, "plugin", change)
    BY <2>3 DEF Wish
  <2> QED BY <2>1, <2>2, <2>3 DEF WishesOf
<1>4. "payer" \in DOMAIN wish.change => IsKey(wish.change["payer"])
  BY <1>3, ChangedPayer
<1> QED BY <1>2, <1>4 DEF MeansOf

\* He means what he gives, but for the payer, and gives what has no default.
LEMMA HonestGives ==
  ASSUME NEW r \in Requests, r.honest, NEW n \in DOMAIN MeansOf(r), n # "payer"
  PROVE  /\ r.given[n] \in {None, MeansOf(r)[n]}
         /\ n \notin Defaulted(r.builder) => r.given[n] = MeansOf(r)[n]
<1> DEFINE defaulted == [m \in Defaulted(r.builder) |-> None]
<1> DEFINE paid == IF r.kind = "plugin" THEN Only("payer", None) ELSE <<>>
<1> DEFINE sources == <<r.change, defaulted, paid, MeansOf(r)>>
<1>1. r.given = FirstOf(sources)
  BY RequestGiven
<1>2. /\ DOMAIN defaulted = Defaulted(r.builder)
      /\ \A m \in DOMAIN defaulted : defaulted[m] = None
      /\ DOMAIN paid \subseteq {"payer"}
  BY DEF Only
<1> HIDE DEF defaulted, paid
<1>3. /\ DOMAIN sources = 1..4 /\ sources[1] = r.change /\ sources[2] = defaulted
      /\ sources[3] = paid /\ sources[4] = MeansOf(r)
  OBVIOUS
<1> HIDE DEF sources
<1>5. \A m \in DOMAIN r.change : m = "payer" \/ r.change[m] = MeansOf(r)[m]
  BY RequestGiven
<1>6. PICK i \in 1..4 : n \in DOMAIN sources[i] /\ FirstOf(sources)[n] = sources[i][n]
  BY <1>3, FirstOne
<1>7. CASE i = 1
  BY <1>1, <1>3, <1>5, <1>6, <1>7
<1>8. CASE i = 2
  BY <1>1, <1>2, <1>3, <1>6, <1>8
<1>9. CASE i = 3
  BY <1>2, <1>3, <1>6, <1>9
<1>10. CASE i = 4
  BY <1>1, <1>3, <1>6, <1>10
<1> QED BY <1>7, <1>8, <1>9, <1>10

\* Who pays has a wallet, whether he is meant or not.
LEMMA PayerPays ==
  ASSUME NEW r \in Requests, "payer" \in Names(r)
  PROVE  IsKey(Original(r)["payer"])
<1> DEFINE defaulted == [m \in Defaulted(r.builder) |-> None]
<1> DEFINE paid == IF r.kind = "plugin" THEN Only("payer", None) ELSE <<>>
<1> DEFINE sources == <<r.change, defaulted, paid, MeansOf(r)>>
<1>1. r.given = FirstOf(sources)
  BY RequestGiven
<1>2. /\ \A m \in DOMAIN defaulted : defaulted[m] = None
      /\ \A m \in DOMAIN paid : paid[m] = None
  BY DEF Only
<1> HIDE DEF defaulted, paid
<1>3. /\ DOMAIN sources = 1..4 /\ sources[1] = r.change /\ sources[2] = defaulted
      /\ sources[3] = paid /\ sources[4] = MeansOf(r)
  OBVIOUS
<1> HIDE DEF sources
<1>4. "payer" \in DOMAIN MeansOf(r) /\ IsKey(MeansOf(r)["payer"]) /\ IsKey(MeansOf(r)["actor"])
  <2>1. "payer" \in WalletNames /\ "payer" \in Familiar
    BY DEF WalletNames, Familiar
  <2> QED BY <2>1, MeansReal DEF MeansOf
<1>5. PICK i \in 1..4 :
        "payer" \in DOMAIN sources[i] /\ FirstOf(sources)["payer"] = sources[i]["payer"]
  BY <1>3, <1>4, FirstOne
<1>6. r.given["payer"] = None \/ IsKey(r.given["payer"])
  <2>1. CASE i = 1
    BY <1>1, <1>3, <1>5, <2>1, RequestGiven
  <2>2. CASE i = 2
    BY <1>1, <1>2, <1>3, <1>5, <2>2
  <2>3. CASE i = 3
    BY <1>1, <1>2, <1>3, <1>5, <2>3
  <2>4. CASE i = 4
    BY <1>1, <1>3, <1>4, <1>5, <2>4
  <2> QED BY <2>1, <2>2, <2>3, <2>4
<1>7. IsKey(r.feePayer)
  BY <1>4, RequestGiven, WalletIsKey DEF Root
<1> HIDE DEF IsKey
<1> QED BY <1>6, <1>7 DEF Original

-----------------------------------------------------------------------------
LEMMA RequestEntitled ==
  ASSUME NEW r \in Requests
  PROVE  /\ \A i \in DOMAIN Metas(r) : Metas(r)[i].signer =>
              /\ \/ Metas(r)[i].name \in WalletNames
                 \/ Metas(r)[i].name = "cpiAuthority"
                 \/ Metas(r)[i].name = "guest" /\ r.op = "guestReview"
              /\ \/ Metas(r)[i].name = "cpiAuthority"
                 \/ Metas(r)[i].name \notin Defaulted(r.builder)
         /\ \A i \in DOMAIN r.rules :
              /\ r.rules[i].signer => Metas(r)[i].signer
              /\ r.rules[i].mut =>
                   /\ Metas(r)[i].name \in Familiar
                   /\ \/ Metas(r)[i].writable
                      \/ Metas(r)[i].name = "payer" /\ r.op = "hostRejectBooking"
<1> DEFINE plugin == Plugins[r.program][r.op]
<1>1. Entitled(r.op, plugin, r.rules)
  <2>1. r.program \in {"config", "core", "disputes", "escrow", "treasury"}
    BY RequestEntry DEF Programs, Plugins
  <2>2. r.op \in Ops(r.program) /\ (Usual(r) \/ Faultless(r))
    BY RequestEntry
  <2>3. CASE r.program = "config"
    BY <2>2, <2>3, ConfigEntitled DEF Usual, Faultless, Plugins, Demands
  <2>4. CASE r.program = "core"
    BY <2>2, <2>4, CoreEntitled DEF Usual, Faultless, Plugins, Demands
  <2>5. CASE r.program = "disputes"
    BY <2>2, <2>5, DisputesEntitled DEF Usual, Faultless, Plugins, Demands
  <2>6. CASE r.program = "escrow"
    BY <2>2, <2>6, EscrowEntitled DEF Usual, Faultless, Plugins, Demands
  <2>7. CASE r.program = "treasury"
    BY <2>2, <2>7, TreasuryEntitled DEF Usual, Faultless, Plugins, Demands
  <2> QED BY <2>1, <2>3, <2>4, <2>5, <2>6, <2>7
<1>2. Metas(r) = plugin.accounts
  BY RequestEntry, EntriesAgree DEF SameInstruction, Metas
<1>3. ASSUME NEW n \in Defaulted(r.builder)
      PROVE  \E j \in DOMAIN plugin.defaults : plugin.defaults[j].account = n
  BY RequestAssumption DEF Defaulted, Defaults
<1> HIDE DEF plugin
<1> QED BY <1>1, <1>2, <1>3 DEF Entitled

\* A plain rejection is escrow's: its payer must be written, and what its
\* client asks to write are the four accounts of the booking and its guest.
LEMMA Rejecting ==
  ASSUME NEW r \in Requests, r.op = "hostRejectBooking"
  PROVE  /\ 1 \in DOMAIN r.rules /\ r.rules[1].mut /\ Metas(r)[1].name = "payer"
         /\ \A i \in DOMAIN Metas(r) : Metas(r)[i].writable => Metas(r)[i].name \in Credited
<1>1. r.program = "escrow"
  <2>1. r.program \in {"config", "core", "disputes", "escrow", "treasury"}
    BY RequestEntry DEF Programs, Plugins
  <2>2. r.op \in Ops(r.program)
    BY RequestEntry
  <2>3. r.program # "config"
    BY <2>2 DEF Ops, Demands, ConfigA!Rules
  <2>4. r.program # "core"
    BY <2>2 DEF Ops, Demands, CoreA!Rules
  <2>5. r.program # "disputes"
    BY <2>2 DEF Ops, Demands, DisputesA!Rules
  <2>6. r.program # "treasury"
    BY <2>2 DEF Ops, Demands, TreasuryA!Rules
  <2> QED BY <2>1, <2>3, <2>4, <2>5, <2>6
<1>2. r.rules = EscrowA!HostRejectBooking
  BY <1>1, RequestEntry DEF Usual, Faultless, Demands, EscrowA!Rules
<1>3. Metas(r) = EscrowC!HostRejectBooking.accounts
  BY <1>1, RequestEntry, EntriesAgree DEF SameInstruction, Metas, Plugins, EscrowC!Plugin
<1>4. /\ 1 \in DOMAIN EscrowA!HostRejectBooking
      /\ EscrowA!HostRejectBooking[1] = EscrowA!CreditedSigns("payer", {})
  BY SMTT(40) DEF EscrowA!HostRejectBooking, EscrowA!Rejection
<1>5. EscrowA!CreditedSigns("payer", {}).mut
  BY DEF EscrowA!CreditedSigns, EscrowA!Signs, EscrowA!Rule
<1>6. LET metas == EscrowC!HostRejectBooking.accounts
      IN /\ metas[1].name = "payer"
         /\ \A i \in DOMAIN metas : metas[i].writable => metas[i].name \in Credited
  BY DEF EscrowC!HostRejectBooking, EscrowC!Builder, EscrowC!Meta, EscrowC!R, EscrowC!W,
       EscrowC!RS, Credited
<1> QED BY <1>2, <1>3, <1>4, <1>5, <1>6

\* The table of accounts that he gets.
LEMMA HonestTable ==
  ASSUME FillInv, NEW s \in Sessions, Built(s), request[s].honest, ~ CpiOnly(BuilderIn(s))
  PROVE  LET r == request[s]
         IN /\ \A i \in DOMAIN Metas(r) :
                 Metas(r)[i].signer => IsKey(table[s][Metas(r)[i].name])
            /\ \A n \in Names(r) \cap Familiar : table[s][n] # None
            /\ "payer" \in Names(r) => IsKey(table[s]["payer"])
            /\ r.op = "hostRejectBooking" =>
                 \A n \in Names(r) \cap Credited : ~ IsKey(table[s][n])
<1> DEFINE r == request[s]
<1>1. r \in Requests
  BY DEF FillInv, Typed, Built
<1>2. \A n \in Names(r) :
        Original(r)[n] # None \/ n \notin Defaulted(r.builder) => table[s][n] = Original(r)[n]
  BY DEF FillInv, GivenKept, Built
<1>3. ASSUME NEW n \in Names(r), Original(r)[n] = None, n \in Defaulted(r.builder)
      PROVE  table[s][n] # None /\ ~ IsKey(table[s][n])
  <2>1. PICK i \in DOMAIN Defaults(r) : Defaults(r)[i].account = n
    BY <1>3 DEF Defaulted, Defaults
  <2>2. i < next[s]
    BY <2>1 DEF FillInv, Finished
  <2>3. table[s][n] # None /\ table[s][n] = Derive(Defaults(r)[i].from, table[s], r.args)
    BY <1>3, <2>1, <2>2 DEF FillInv, Progress, Settled, Built
  <2>4. Defaults(r)[i].from.program \notin {"held", "wallet"}
    BY <1>1, <2>1, RequestAssumption
  <2> QED BY <2>3, <2>4, NoKey
<1>4. ASSUME NEW n \in Names(r), n # "payer"
      PROVE  Original(r)[n] = r.given[n]
  BY <1>4 DEF Original
<1>5. ASSUME "payer" \in Names(r)
      PROVE  IsKey(table[s]["payer"])
  BY <1>1, <1>2, <1>5, PayerPays, KeysAreKnown
<1>6. ASSUME NEW n \in Names(r), n \in Familiar
      PROVE  table[s][n] # None
  <2>1. CASE n = "payer"
    BY <1>5, <1>6, <2>1, KeysAreKnown
  <2>2. CASE n # "payer"
    <3>1. n \notin Defaulted(r.builder) => r.given[n] = MeansOf(r)[n]
      BY <1>1, <1>6, <2>2, HonestGives, MeansReal DEF MeansOf
    <3>2. MeansOf(r)[n] # None
      BY <1>6, MeansReal DEF MeansOf
    <3> QED BY <1>2, <1>3, <1>4, <1>6, <2>2, <3>1, <3>2
  <2> QED BY <2>1, <2>2
<1>7. ASSUME NEW i \in DOMAIN Metas(r), Metas(r)[i].signer
      PROVE  IsKey(table[s][Metas(r)[i].name])
  <2> DEFINE n == Metas(r)[i].name
  <2>1. n \in Names(r)
    BY DEF Names
  <2>2. n # "cpiAuthority"
    BY <1>7 DEF CpiOnly, BuilderIn, Metas
  <2>3. CASE n = "payer"
    BY <1>5, <2>1, <2>3
  <2>4. CASE n # "payer"
    <3>1. n \notin Defaulted(r.builder) /\ (n \in WalletNames \/ (n = "guest" /\ r.op = "guestReview"))
      <4>1. \A j \in DOMAIN Metas(r) : Metas(r)[j].signer =>
              /\ \/ Metas(r)[j].name \in WalletNames
                 \/ Metas(r)[j].name = "cpiAuthority"
                 \/ Metas(r)[j].name = "guest" /\ r.op = "guestReview"
              /\ \/ Metas(r)[j].name = "cpiAuthority"
                 \/ Metas(r)[j].name \notin Defaulted(r.builder)
        BY <1>1, RequestEntitled
      <4>2. /\ n \in WalletNames \/ n = "cpiAuthority" \/ (n = "guest" /\ r.op = "guestReview")
            /\ n = "cpiAuthority" \/ n \notin Defaulted(r.builder)
        BY <1>7, <4>1
      <4> QED BY <2>2, <4>2
    <3>2. n \in Familiar
      BY <3>1 DEF Familiar
    <3>3. table[s][n] = MeansOf(r)[n]
      <4>1. n \in DOMAIN MeansOf(r)
        BY <3>2, MeansReal DEF MeansOf
      <4> QED BY <1>1, <1>2, <1>4, <2>1, <2>4, <3>1, <4>1, HonestGives
    <3>4. IsKey(MeansOf(r)[n])
      BY <3>1, MeansReal DEF MeansOf
    <3> QED BY <3>3, <3>4
  <2> QED BY <2>3, <2>4
<1>8. ASSUME NEW n \in Names(r), n \in Credited, r.op = "hostRejectBooking"
      PROVE  ~ IsKey(table[s][n])
  <2>1. n \in DOMAIN MeansOf(r) /\ n # "payer"
    <3>1. n \in Familiar /\ n # "payer"
      BY <1>8 DEF Credited, Familiar
    <3> QED BY <3>1, MeansReal DEF MeansOf
  <2>2. /\ r.given[n] \in {None, MeansOf(r)[n]}
        /\ n \notin Defaulted(r.builder) => r.given[n] = MeansOf(r)[n]
    BY <1>1, <2>1, HonestGives
  <2>3. ~ IsKey(MeansOf(r)[n])
    BY <1>8, MeansReal DEF MeansOf
  <2>4. CASE Original(r)[n] = None /\ n \in Defaulted(r.builder)
    BY <1>3, <2>4
  <2>5. CASE Original(r)[n] # None \/ n \notin Defaulted(r.builder)
    BY <1>2, <1>4, <2>1, <2>2, <2>3, <2>5
  <2> QED BY <2>4, <2>5
<1> QED BY <1>5, <1>6, <1>7, <1>8

\* Whoever asks for what he means signs with key pairs, and for enough but in
\* one case: the payer of a plain rejection, whom the client asks to sign and
\* not to write, though the closed account's lamports go to him.  He must be
\* the fee payer then, who is written anyway.
THEOREM PrivilegesAlwaysSuffice == Spec => []PrivilegesSuffice
<1>1. ASSUME FillInv, NEW s \in Sessions, Built(s), request[s].honest, ~ CpiOnly(BuilderIn(s))
      PROVE  (/\ Signable(Tx(s))
              /\ Privileged(RulesOf(s), Tx(s)))
             <=> ~ (/\ request[s].op = "hostRejectBooking"
                    /\ table[s]["payer"] # request[s].feePayer)
  <2> DEFINE r == request[s]
  <2> DEFINE rules == RulesOf(s)
  <2> DEFINE tx == Tx(s)
  <2>1. r \in Requests
    BY <1>1 DEF FillInv, Typed, Built
  <2>2. SameOrder(Metas(r), Parsed[r.program][r.op], rules)
    BY <2>1, RequestAgrees DEF RulesOf
  <2>3. /\ DOMAIN Metas(r) = DOMAIN rules
        /\ \A i \in DOMAIN Metas(r) : Metas(r)[i].name \in Names(r)
    BY <2>2 DEF SameOrder, Names
  <2>4. /\ \A i \in DOMAIN Metas(r) :
             Metas(r)[i].signer => IsKey(table[s][Metas(r)[i].name])
        /\ \A n \in Names(r) \cap Familiar : table[s][n] # None
        /\ "payer" \in Names(r) => IsKey(table[s]["payer"])
        /\ r.op = "hostRejectBooking" =>
             \A n \in Names(r) \cap Credited : ~ IsKey(table[s][n])
    BY <1>1, HonestTable
  <2>5. /\ DOMAIN tx.metas = DOMAIN Metas(r) /\ tx.feePayer = r.feePayer
        /\ \A i \in DOMAIN Metas(r) : tx.metas[i] = MetaOf(r, table[s], Metas(r)[i])
    BY DEF Tx, Transaction
  <2>6. ASSUME NEW i \in DOMAIN Metas(r)
        PROVE  /\ tx.metas[i].signer =>
                    Metas(r)[i].signer /\ tx.metas[i].address = table[s][Metas(r)[i].name]
               /\ tx.metas[i].writable =>
                    Metas(r)[i].writable /\ tx.metas[i].address = table[s][Metas(r)[i].name]
               /\ table[s][Metas(r)[i].name] # None =>
                    /\ tx.metas[i].signer = Metas(r)[i].signer
                    /\ tx.metas[i].writable = Metas(r)[i].writable
                    /\ tx.metas[i].address = table[s][Metas(r)[i].name]
    <3> DEFINE m == Metas(r)[i]
    <3>1. tx.metas[i] = MetaOf(r, table[s], m)
      BY <2>5
    <3> HIDE DEF tx, r, m
    <3>2. CASE table[s][m.name] = None
      <4>1. ~ tx.metas[i].signer /\ ~ tx.metas[i].writable
        BY <3>1, <3>2 DEF MetaOf
      <4> QED BY <3>2, <4>1 DEF m
    <3>3. CASE table[s][m.name] # None
      <4>1. /\ tx.metas[i].address = table[s][m.name]
            /\ tx.metas[i].signer = m.signer /\ tx.metas[i].writable = m.writable
        BY <3>1, <3>3 DEF MetaOf
      <4> QED BY <4>1 DEF m
    <3> QED BY <3>2, <3>3
  <2>7. /\ \A i \in DOMAIN rules : rules[i].signer => Metas(r)[i].signer
        /\ \A i \in DOMAIN rules : rules[i].mut =>
             /\ Metas(r)[i].name \in Familiar
             /\ \/ Metas(r)[i].writable
                \/ Metas(r)[i].name = "payer" /\ r.op = "hostRejectBooking"
    BY <2>1, RequestEntitled DEF RulesOf
  <2>8. r.op = "hostRejectBooking" =>
          /\ 1 \in DOMAIN rules /\ rules[1].mut /\ Metas(r)[1].name = "payer"
          /\ \A i \in DOMAIN Metas(r) : Metas(r)[i].writable => Metas(r)[i].name \in Credited
    BY <2>1, Rejecting DEF RulesOf
  <2> HIDE DEF rules, tx, r
  <2>9. Signable(tx)
    <3>1. ASSUME NEW i \in DOMAIN tx.metas, tx.metas[i].signer
          PROVE  IsKey(tx.metas[i].address)
      BY <2>4, <2>5, <2>6, <3>1
    <3> QED BY <3>1 DEF Signable, Signers, IsKey
  <2>10. ASSUME ~ (r.op = "hostRejectBooking" /\ table[s]["payer"] # r.feePayer)
         PROVE  Privileged(rules, tx)
    <3>1. ASSUME NEW i \in DOMAIN rules, rules[i].signer
          PROVE  tx.metas[i].address \in Signers(tx)
      <4>1. Metas(r)[i].signer /\ IsKey(table[s][Metas(r)[i].name])
        BY <2>3, <2>4, <2>7, <3>1
      <4>2. tx.metas[i].signer /\ i \in DOMAIN tx.metas
        BY <2>3, <2>5, <2>6, <4>1, KeysAreKnown
      <4> QED BY <4>2 DEF Signers
    <3>2. ASSUME NEW i \in DOMAIN rules, rules[i].mut
          PROVE  tx.metas[i].address \in Writable(tx)
      <4>1. table[s][Metas(r)[i].name] # None
        BY <2>3, <2>4, <2>7, <3>2
      <4>2. CASE Metas(r)[i].writable
        <5>1. tx.metas[i].writable /\ i \in DOMAIN tx.metas
          BY <2>3, <2>5, <2>6, <4>1, <4>2
        <5> QED BY <5>1 DEF Writable
      <4>3. CASE Metas(r)[i].name = "payer" /\ r.op = "hostRejectBooking"
        <5>1. tx.metas[i].address = tx.feePayer
          BY <2>3, <2>5, <2>6, <2>10, <4>1, <4>3
        <5> QED BY <5>1 DEF Writable
      <4> QED BY <2>7, <3>2, <4>2, <4>3
    <3> QED BY <3>1, <3>2 DEF Privileged
  <2>11. ASSUME r.op = "hostRejectBooking", table[s]["payer"] # r.feePayer
         PROVE  ~ Privileged(rules, tx)
    <3>1. /\ 1 \in DOMAIN rules /\ 1 \in DOMAIN Metas(r)
          /\ rules[1].mut /\ Metas(r)[1].name = "payer"
      BY <2>3, <2>8, <2>11
    <3>2. tx.metas[1].address = table[s]["payer"] /\ IsKey(table[s]["payer"])
      BY <2>3, <2>4, <2>6, <3>1, KeysAreKnown
    <3>3. ASSUME NEW i \in DOMAIN tx.metas, tx.metas[i].writable
          PROVE  ~ IsKey(tx.metas[i].address)
      BY <2>3, <2>4, <2>5, <2>6, <2>8, <2>11, <3>3
    <3>4. tx.metas[1].address \notin Writable(tx)
      BY <2>5, <2>11, <3>2, <3>3 DEF Writable
    <3> QED BY <3>1, <3>4 DEF Privileged
  <2> QED BY <2>9, <2>10, <2>11 DEF rules, tx, r
<1>2. FillInv => PrivilegesSuffice
  BY <1>1 DEF PrivilegesSuffice
<1> QED BY <1>2, Filling, PTL
=============================================================================
