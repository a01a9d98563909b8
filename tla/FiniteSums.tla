----------------------------- MODULE FiniteSums -----------------------------
(***************************************************************************)
(* Facts about SumFunctionOnSet, the sum of a function's values over a     *)
(* finite set, for the proofs about balances and reviews.                  *)
(*                                                                         *)
(* The sum is a fold, a function on the subsets of the set which is        *)
(* defined by recursion: that there is such a function comes first.        *)
(* Induction is over the subsets, by the well-foundedness of their strict  *)
(* inclusion: a set of subsets that is closed under adding an element      *)
(* holds them all.                                                         *)
(***************************************************************************)
EXTENDS Integers, FiniteSets, Functions, FiniteSetTheorems, WellFoundedInduction, TLAPS

(* Induction over a finite set, for the members of G. *)
LEMMA SubsetInduction ==
    ASSUME NEW S, IsFiniteSet(S), NEW G,
           \A T \in SUBSET S : (\A U \in SUBSET T : U # T => U \in G) => T \in G
    PROVE  \A T \in SUBSET S : T \in G
<1> DEFINE Bad == {T \in SUBSET S : T \notin G}
<1> SUFFICES ASSUME Bad # {}
             PROVE  FALSE
    OBVIOUS
<1>1. IsWellFoundedOn(StrictSubsetOrdering(S), SUBSET S)
    <2>1. FiniteSubsetsOf(S) = SUBSET S
        BY FS_FiniteSubsetsOfFinite
    <2>2. IsWellFoundedOn(StrictSubsetOrdering(S), FiniteSubsetsOf(S))
        BY FS_StrictSubsetOrderingWellFounded
    <2>3. QED
        BY <2>1, <2>2
<1>2. PICK T \in Bad : \A U \in Bad : <<U, T>> \notin StrictSubsetOrdering(S)
    <2>1. Bad \subseteq SUBSET S
        OBVIOUS
    <2> HIDE DEF Bad
    <2>2. QED
        BY <1>1, <2>1, WFMin
<1>3. \A U \in SUBSET T : U # T => U \in G
    BY <1>2 DEF StrictSubsetOrdering
<1>4. QED
    BY <1>2, <1>3

-----------------------------------------------------------------------------
(* The recursion.  A table of the sums of f over the subsets of S. *)
Pick(s) == CHOOSE x \in s : TRUE

Row(f, g, s) == IF s = {} THEN 0 ELSE f[Pick(s)] + g[s \ {Pick(s)}]

IsTable(g, f, S) == g = [s \in SUBSET S |-> Row(f, g, s)]

Table(f, S) == CHOOSE g : IsTable(g, f, S)

LEMMA SumIsTabled ==
    ASSUME NEW f, NEW S
    PROVE  SumFunctionOnSet(f, S) = Table(f, S)[S]
BY DEF SumFunctionOnSet, FoldFunctionOnSet, MapThenFoldSet, Table, IsTable, Row, Pick

LEMMA PickIn == ASSUME NEW s, s # {} PROVE Pick(s) \in s
BY DEF Pick

(* A row is read off the table of any set that holds it. *)
LEMMA RowOfTable ==
    ASSUME NEW S, NEW f, NEW g, IsTable(g, f, S), NEW s \in SUBSET S
    PROVE  g[s] = Row(f, g, s)
BY DEF IsTable

LEMMA TablesAgree ==
    ASSUME NEW S, IsFiniteSet(S), NEW f, NEW T \in SUBSET S,
           NEW g, IsTable(g, f, S), NEW h, IsTable(h, f, T)
    PROVE  \A s \in SUBSET T : g[s] = h[s]
<1> DEFINE Agreed == {s \in SUBSET T : g[s] = h[s]}
<1>1. ASSUME NEW s \in SUBSET T, \A u \in SUBSET s : u # s => u \in Agreed
      PROVE  s \in Agreed
    <2>1. g[s] = Row(f, g, s) /\ h[s] = Row(f, h, s)
        BY RowOfTable
    <2>2. CASE s = {}
        BY <2>1, <2>2 DEF Row
    <2>3. CASE s # {}
        BY <1>1, <2>1, <2>3, PickIn DEF Row
    <2>4. QED
        BY <2>2, <2>3
<1>2. IsFiniteSet(T)
    BY FS_Subset
<1> HIDE DEF Agreed
<1>3. \A s \in SUBSET T : s \in Agreed
    BY <1>1, <1>2, SubsetInduction
<1>4. QED
    BY <1>3 DEF Agreed

LEMMA TableExists ==
    ASSUME NEW S, IsFiniteSet(S), NEW f
    PROVE  IsTable(Table(f, S), f, S)
<1> DEFINE Tabled == {T \in SUBSET S : IsTable(Table(f, T), f, T)}
<1>1. ASSUME NEW T \in SUBSET S, \A U \in SUBSET T : U # T => U \in Tabled
      PROVE  T \in Tabled
    <2> DEFINE h == [s \in SUBSET T |->
                        IF s = {} THEN 0
                        ELSE f[Pick(s)] + Table(f, s \ {Pick(s)})[s \ {Pick(s)}]]
    <2>1. ASSUME NEW s \in SUBSET T
          PROVE  h[s] = Row(f, h, s)
        <3>1. CASE s = {}
            BY <3>1 DEF Row
        <3>2. CASE s # {}
            <4> DEFINE u == s \ {Pick(s)}
            <4>1. u \in SUBSET T /\ u # T /\ Pick(s) \in s
                BY <3>2, PickIn
            <4>2. IsTable(Table(f, u), f, u)
                BY <1>1, <4>1
            <4>3. Table(f, u)[u] = Row(f, Table(f, u), u)
                BY <4>2, RowOfTable
            <4>4. h[u] = Table(f, u)[u]
                <5>1. CASE u = {}
                    BY <4>1, <4>3, <5>1 DEF Row
                <5>2. CASE u # {}
                    <6> DEFINE v == u \ {Pick(u)}
                    <6>1. v \in SUBSET u /\ v # T
                        BY <4>1
                    <6>2. IsTable(Table(f, v), f, v)
                        BY <1>1, <4>1, <6>1
                    <6>3. IsFiniteSet(u)
                        BY <4>1, FS_Subset
                    <6>4. Table(f, u)[v] = Table(f, v)[v]
                        <7> HIDE DEF u, v
                        <7>1. \A w \in SUBSET v : Table(f, u)[w] = Table(f, v)[w]
                            BY <4>2, <6>1, <6>2, <6>3, TablesAgree
                        <7>2. QED
                            BY <7>1
                    <6>5. h[u] = f[Pick(u)] + Table(f, v)[v]
                        BY <4>1, <5>2
                    <6>6. QED
                        BY <4>3, <5>2, <6>4, <6>5 DEF Row
                <5>3. QED
                    BY <5>1, <5>2
            <4>5. h[s] = f[Pick(s)] + Table(f, u)[u]
                BY <3>2
            <4>6. QED
                BY <3>2, <4>4, <4>5 DEF Row
        <3>3. QED
            BY <3>1, <3>2
    <2>2. IsTable(h, f, T)
        <3>1. h = [s \in SUBSET T |-> h[s]]
            OBVIOUS
        <3> HIDE DEF h
        <3>2. QED
            BY <2>1, <3>1 DEF IsTable
    <2>3. QED
        BY <2>2 DEF Table
<1> HIDE DEF Tabled
<1>2. \A T \in SUBSET S : T \in Tabled
    BY <1>1, SubsetInduction
<1>3. QED
    BY <1>2 DEF Tabled

-----------------------------------------------------------------------------
(* Sums, one element at a time. *)

LEMMA SumEmpty ==
    ASSUME NEW f
    PROVE  SumFunctionOnSet(f, {}) = 0
BY SumIsTabled, TableExists, RowOfTable, FS_EmptySet DEF Row

LEMMA SumPicked ==
    ASSUME NEW S, IsFiniteSet(S), S # {}, NEW f
    PROVE  SumFunctionOnSet(f, S) = f[Pick(S)] + SumFunctionOnSet(f, S \ {Pick(S)})
<1> DEFINE T == S \ {Pick(S)}
<1>1. IsTable(Table(f, S), f, S) /\ IsFiniteSet(T)
    BY TableExists, FS_Subset
<1>2. IsTable(Table(f, T), f, T)
    BY <1>1, TableExists
<1>3. Table(f, S)[T] = Table(f, T)[T]
    BY <1>1, <1>2, TablesAgree
<1>4. Table(f, S)[S] = f[Pick(S)] + Table(f, S)[T]
    BY <1>1, RowOfTable DEF Row
<1>5. QED
    BY <1>3, <1>4, SumIsTabled

LEMMA SumType ==
    ASSUME NEW S, IsFiniteSet(S), NEW f, \A x \in S : f[x] \in Int
    PROVE  SumFunctionOnSet(f, S) \in Int
<1> DEFINE G == {T \in SUBSET S : SumFunctionOnSet(f, T) \in Int}
<1>1. ASSUME NEW T \in SUBSET S, \A U \in SUBSET T : U # T => U \in G
      PROVE  T \in G
    <2>1. CASE T = {}
        BY <2>1, SumEmpty
    <2>2. CASE T # {}
        <3>1. IsFiniteSet(T) /\ Pick(T) \in T
            BY <2>2, PickIn, FS_Subset
        <3>2. T \ {Pick(T)} \in G
            BY <1>1, <3>1
        <3>3. f[Pick(T)] + SumFunctionOnSet(f, T \ {Pick(T)}) \in Int
            BY <3>1, <3>2
        <3>4. QED
            BY <2>2, <3>1, <3>3, SumPicked
    <2>3. QED
        BY <2>1, <2>2
<1> HIDE DEF G
<1>2. \A T \in SUBSET S : T \in G
    BY <1>1, SubsetInduction
<1>3. QED
    BY <1>2 DEF G

(* Any element may be taken out first. *)
LEMMA SumTaken ==
    ASSUME NEW S, IsFiniteSet(S), NEW f, \A x \in S : f[x] \in Int
    PROVE  \A x \in S : SumFunctionOnSet(f, S) = f[x] + SumFunctionOnSet(f, S \ {x})
<1> DEFINE G == {T \in SUBSET S :
                    \A x \in T : SumFunctionOnSet(f, T) = f[x] + SumFunctionOnSet(f, T \ {x})}
<1>1. ASSUME NEW T \in SUBSET S, \A U \in SUBSET T : U # T => U \in G
      PROVE  T \in G
    <2> SUFFICES ASSUME NEW x \in T, x # Pick(T)
                 PROVE  SumFunctionOnSet(f, T) = f[x] + SumFunctionOnSet(f, T \ {x})
        BY SumPicked, FS_Subset
    <2> DEFINE p == Pick(T)
    <2>1. p \in T /\ IsFiniteSet(T) /\ IsFiniteSet((T \ {p}) \ {x})
        BY PickIn, FS_Subset
    <2>2. SumFunctionOnSet(f, T) = f[p] + SumFunctionOnSet(f, T \ {p})
        BY <2>1, SumPicked
    <2>3. SumFunctionOnSet(f, T \ {p}) = f[x] + SumFunctionOnSet(f, (T \ {p}) \ {x})
        <3>1. T \ {p} \in G /\ x \in T \ {p}
            BY <1>1, <2>1
        <3>2. QED
            BY <3>1
    <2>4. SumFunctionOnSet(f, T \ {x}) = f[p] + SumFunctionOnSet(f, (T \ {x}) \ {p})
        <3>1. T \ {x} \in G /\ p \in T \ {x}
            BY <1>1, <2>1
        <3>2. QED
            BY <3>1
    <2>5. (T \ {x}) \ {p} = (T \ {p}) \ {x}
        OBVIOUS
    <2>6. /\ f[p] \in Int /\ f[x] \in Int
          /\ SumFunctionOnSet(f, (T \ {p}) \ {x}) \in Int
        BY <2>1, SumType
    <2>7. SumFunctionOnSet(f, (T \ {x}) \ {p}) = SumFunctionOnSet(f, (T \ {p}) \ {x})
        BY <2>5
    <2> HIDE DEF p
    <2>8. QED
        BY <2>2, <2>3, <2>4, <2>6, <2>7
<1> HIDE DEF G
<1>2. \A T \in SUBSET S : T \in G
    BY <1>1, SubsetInduction
<1>3. QED
    BY <1>2 DEF G

(* Functions with the same values have the same sum. *)
LEMMA SumSame ==
    ASSUME NEW S, IsFiniteSet(S), NEW f, NEW g, \A x \in S : f[x] = g[x]
    PROVE  SumFunctionOnSet(f, S) = SumFunctionOnSet(g, S)
<1> DEFINE G == {T \in SUBSET S : SumFunctionOnSet(f, T) = SumFunctionOnSet(g, T)}
<1>1. ASSUME NEW T \in SUBSET S, \A U \in SUBSET T : U # T => U \in G
      PROVE  T \in G
    <2>1. CASE T = {}
        BY <2>1, SumEmpty
    <2>2. CASE T # {}
        <3>1. IsFiniteSet(T) /\ Pick(T) \in T
            BY <2>2, PickIn, FS_Subset
        <3>2. T \ {Pick(T)} \in G
            BY <1>1, <3>1
        <3>3. /\ SumFunctionOnSet(f, T) = f[Pick(T)] + SumFunctionOnSet(f, T \ {Pick(T)})
              /\ SumFunctionOnSet(g, T) = g[Pick(T)] + SumFunctionOnSet(g, T \ {Pick(T)})
            BY <2>2, <3>1, SumPicked
        <3>4. QED
            BY <3>1, <3>2, <3>3
    <2>3. QED
        BY <2>1, <2>2
<1> HIDE DEF G
<1>2. \A T \in SUBSET S : T \in G
    BY <1>1, SubsetInduction
<1>3. QED
    BY <1>2 DEF G

(* A function that is zero throughout sums up to zero. *)
LEMMA SumZero ==
    ASSUME NEW S, IsFiniteSet(S), NEW f, \A x \in S : f[x] = 0
    PROVE  SumFunctionOnSet(f, S) = 0
<1> DEFINE G == {T \in SUBSET S : SumFunctionOnSet(f, T) = 0}
<1>1. ASSUME NEW T \in SUBSET S, \A U \in SUBSET T : U # T => U \in G
      PROVE  T \in G
    <2>1. CASE T = {}
        BY <2>1, SumEmpty
    <2>2. CASE T # {}
        <3>1. IsFiniteSet(T) /\ Pick(T) \in T
            BY <2>2, PickIn, FS_Subset
        <3>2. T \ {Pick(T)} \in G
            BY <1>1, <3>1
        <3>3. QED
            BY <2>2, <3>1, <3>2, SumPicked
    <2>3. QED
        BY <2>1, <2>2
<1> HIDE DEF G
<1>2. \A T \in SUBSET S : T \in G
    BY <1>1, SubsetInduction
<1>3. QED
    BY <1>2 DEF G

(* A change of one value changes the sum by as much. *)
LEMMA SumChanged ==
    ASSUME NEW S, IsFiniteSet(S), NEW f, NEW g, NEW x \in S,
           \A y \in S : f[y] \in Int /\ g[y] \in Int,
           \A y \in S \ {x} : g[y] = f[y]
    PROVE  SumFunctionOnSet(g, S) = SumFunctionOnSet(f, S) + (g[x] - f[x])
<1>1. IsFiniteSet(S \ {x})
    BY FS_Subset
<1>2. SumFunctionOnSet(g, S \ {x}) = SumFunctionOnSet(f, S \ {x})
    BY <1>1, SumSame
<1>3. /\ SumFunctionOnSet(f, S) = f[x] + SumFunctionOnSet(f, S \ {x})
      /\ SumFunctionOnSet(g, S) = g[x] + SumFunctionOnSet(g, S \ {x})
    BY SumTaken
<1>4. f[x] \in Int /\ g[x] \in Int /\ SumFunctionOnSet(f, S \ {x}) \in Int
    BY <1>1, SumType
<1>5. QED
    BY <1>2, <1>3, <1>4
=============================================================================
