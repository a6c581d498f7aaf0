----------------------------- MODULE BcacheProofs ------------------------------
(***************************************************************************)
(* Theorems about Bcache.tla, for any bcaches and cache sets, edits and    *)
(* orders of the actions.                                                  *)
(***************************************************************************)
EXTENDS Bcache, FiniteSetTheorems, WellFoundedInduction, TLAPS

-----------------------------------------------------------------------------
(* The numbers.                                                            *)

\* A set of natural numbers has a least one.
LEMMA LeastNat ==
  ASSUME NEW T \in SUBSET Nat, T # {}
  PROVE  \E m \in T : \A k \in T : m <= k
<1> DEFINE U == {1 .. k : k \in T}
<1>1. IsWellFoundedOn(StrictSubsetOrdering(Nat), FiniteSubsetsOf(Nat))
  BY FS_StrictSubsetOrderingWellFounded
<1>2. U \subseteq FiniteSubsetsOf(Nat) /\ U # {}
  <2>1. \A k \in T : 1 .. k \in SUBSET Nat /\ IsFiniteSet(1 .. k)
    BY FS_Interval
  <2> QED BY <2>1 DEF FiniteSubsetsOf
<1>3. PICK x \in U : \A y \in U : ~ (<<y, x>> \in StrictSubsetOrdering(Nat))
  <2> HIDE DEF U
  <2> QED BY <1>1, <1>2, WFMin
<1>4. PICK m \in T : x = 1 .. m
  OBVIOUS
<1>5. ASSUME NEW k \in T, ~ m <= k PROVE FALSE
  <2>1. 1 .. k \subseteq 1 .. m /\ m \in 1 .. m /\ m \notin 1 .. k /\ 1 .. m \subseteq Nat
    BY <1>5
  <2>2. <<1 .. k, 1 .. m>> \in StrictSubsetOrdering(Nat)
    BY <2>1 DEF StrictSubsetOrdering
  <2> QED BY <1>3, <1>4, <2>2
<1> QED BY <1>5

Numbered(g) == /\ IsFiniteSet(Bcaches(g))
               /\ \A b \in Bcaches(g) : g[b].number \in Nat
               /\ \A b, c \in Bcaches(g) : g[b].number = g[c].number => b = c

\* find_free_name: with as many numbers as bcaches one more is free, and the lowest
\* free one has no free one below it.
LEMMA FreeNumberFree ==
  ASSUME NEW g, Numbered(g)
  PROVE  /\ FreeNumber(g) \in Nat \ Numbers(g)
         /\ \A n \in Nat : n < FreeNumber(g) => n \in Numbers(g)
<1> DEFINE N == Cardinality(Bcaches(g))
           F == {n \in 0 .. N : n \notin Numbers(g)}
<1>1. N \in Nat
  BY FS_CardinalityType DEF Numbered
<1>2. ASSUME 0 .. N \subseteq Numbers(g) PROVE FALSE
  <2> DEFINE f == [n \in 0 .. N |-> CHOOSE b \in Bcaches(g) : g[b].number = n]
  <2>1. \A n \in 0 .. N : f[n] \in Bcaches(g) /\ g[f[n]].number = n
    <3> SUFFICES ASSUME NEW n \in 0 .. N
                 PROVE  f[n] \in Bcaches(g) /\ g[f[n]].number = n
      OBVIOUS
    <3>1. \E b \in Bcaches(g) : g[b].number = n
      BY <1>2 DEF Numbers
    <3>2. f[n] = CHOOSE b \in Bcaches(g) : g[b].number = n
      OBVIOUS
    <3> QED BY <3>1, <3>2
  <2>2. f \in Injection(0 .. N, Bcaches(g))
    <3>1. f \in [0 .. N -> Bcaches(g)]
      <4>1. f = [n \in 0 .. N |-> f[n]]
        OBVIOUS
      <4> HIDE DEF f
      <4> QED BY <2>1, <4>1
    <3> HIDE DEF f, N
    <3> QED BY <2>1, <3>1 DEF Injection, IsInjective
  <2>3. Cardinality(0 .. N) <= N
    <3> HIDE DEF f
    <3> QED BY <2>2, FS_Injection DEF Numbered
  <2>4. Cardinality(0 .. N) = N + 1
    <3> HIDE DEF N
    <3> QED BY <1>1, FS_Interval
  <2> HIDE DEF N
  <2> QED BY <1>1, <2>3, <2>4
<1>3. PICK m \in F : \A k \in F : m <= k
  <2>1. F # {} /\ F \in SUBSET Nat
    <3> HIDE DEF N
    <3> QED BY <1>1, <1>2
  <2> HIDE DEF F
  <2> QED BY <2>1, LeastNat
<1>4. FreeNumber(g) = Min(F)
  BY DEF FreeNumber
<1>5. Min(F) \in F /\ \A k \in F : Min(F) <= k
  <2> HIDE DEF F
  <2> QED BY <1>3 DEF Min
<1>6. ASSUME NEW n \in Nat, n < Min(F), n \notin Numbers(g) PROVE FALSE
  <2>1. Min(F) \in 0 .. N
    <3> HIDE DEF N
    <3> QED BY <1>5
  <2>2. n \in 0 .. N
    <3> HIDE DEF F, N
    <3> QED BY <1>1, <1>6, <2>1
  <2>3. n \in F
    <3> HIDE DEF N
    <3> QED BY <1>6, <2>2
  <2>4. Min(F) <= n
    <3> HIDE DEF F
    <3> QED BY <1>5, <2>3
  <2> HIDE DEF F, N
  <2> QED BY <1>1, <1>6, <2>1, <2>4
<1>7. Min(F) \in Nat \ Numbers(g)
  <2> HIDE DEF N
  <2> QED BY <1>1, <1>5
<1> HIDE DEF F
<1> QED BY <1>4, <1>6, <1>7

\* There is only one such number.
LEMMA FreeNumberUnique ==
  ASSUME NEW g, Numbered(g), NEW n \in Nat, n \notin Numbers(g),
         \A m \in Nat : m < n => m \in Numbers(g)
  PROVE  FreeNumber(g) = n
<1>1. FreeNumber(g) \in Nat \ Numbers(g) /\ \A m \in Nat : m < FreeNumber(g) => m \in Numbers(g)
  BY FreeNumberFree
<1>2. ~ n < FreeNumber(g) /\ ~ FreeNumber(g) < n
  BY <1>1
<1> QED BY <1>1, <1>2

-----------------------------------------------------------------------------
(* reassign_numbers.                                                       *)

\* The numbers of a graph.
LEMMA SoundNumbered ==
  ASSUME NEW g, NEW M, Sound(g, M)
  PROVE  Numbered(g)
<1>1. IsFiniteSet(Bcaches(g))
  <2>1. Bcaches(g) \subseteq DOMAIN g /\ IsFiniteSet(DOMAIN g)
    BY DEF Sound, Bcaches
  <2> QED BY <2>1, FS_Subset
<1>2. \A b \in Bcaches(g) : g[b].number \in Nat
  BY DEF Sound
<1>3. \A b, c \in Bcaches(g) : g[b].number = g[c].number => b = c
  BY DEF Sound
<1> QED BY <1>1, <1>2, <1>3 DEF Numbered

\* A bcache with another number, a free one.
LEMMA Renumber ==
  ASSUME NEW g, NEW M, Sound(g, M), NEW b \in Bcaches(g), NEW n \in Nat, n \notin Numbers(g)
  PROVE  LET h == [g EXCEPT ![b].number = n]
         IN  /\ Sound(h, M) /\ DOMAIN h = DOMAIN g
             /\ h[b].number = n
             /\ \A d \in DOMAIN g \ {b} : h[d] = g[d]
<1> DEFINE h == [g EXCEPT ![b].number = n]
           Row == [on : Disk \cup Bcaches(g), number : Nat, cset : Csets(g) \cup M,
                   mode : {"through", "back"}]
<1>1. b \in DOMAIN g /\ b \in Bcache /\ g[b] \in Row
  BY DEF Sound, Bcaches
<1>2. DOMAIN h = DOMAIN g /\ \A d \in DOMAIN g \ {b} : h[d] = g[d]
  OBVIOUS
<1>3. h[b] = [g[b] EXCEPT !.number = n]
  BY <1>1
<1>4. h[b] \in Row /\ h[b].on = g[b].on /\ h[b].number = n
  BY <1>1, <1>3
<1>5. Bcaches(h) = Bcaches(g) /\ Csets(h) = Csets(g)
  BY <1>2 DEF Bcaches, Csets
<1> HIDE DEF h
<1>6. IsFiniteSet(DOMAIN h) /\ DOMAIN h \subseteq Bcache \cup Cset
  BY <1>2 DEF Sound
<1>7. \A c \in Bcaches(h) : h[c] \in Row
  BY <1>2, <1>4, <1>5 DEF Sound, Bcaches
<1>8. \A s \in Csets(h) : h[s] \in [on : Disk \cup Bcaches(g)]
  <2>1. b \notin Cset
    BY <1>1, ClassAssumption DEF ClassAssumption
  <2> QED BY <1>2, <1>5, <2>1 DEF Sound, Csets
<1>9. \A c, d \in DOMAIN h : h[c].on = h[d].on => c = d
  <2>1. \A d \in DOMAIN g : h[d].on = g[d].on
    BY <1>2, <1>4
  <2> QED BY <1>2, <2>1 DEF Sound
<1>10. \A c, d \in Bcaches(h) : h[c].number = h[d].number => c = d
  <2>1. \A c \in Bcaches(g) \ {b} : h[c].number = g[c].number /\ g[c].number # n
    BY <1>2 DEF Bcaches, Numbers
  <2> QED BY <1>4, <1>5, <2>1 DEF Sound
<1>11. Sound(h, M)
  BY <1>5, <1>6, <1>7, <1>8, <1>9, <1>10 DEF Sound
<1> QED BY <1>2, <1>4, <1>11 DEF h

\* One round of the loop.
Round(g) == IF Above(g, FreeNumber(g)) = {} THEN g
            ELSE [g EXCEPT ![Lowest(g, Above(g, FreeNumber(g)))].number = FreeNumber(g)]

Rounds(g, N, f) == \A n \in 0 .. N : f[n] = IF n = 0 THEN g ELSE Round(f[n - 1])
RoundsFunction(g, N, f) == f = [n \in 0 .. N |-> IF n = 0 THEN g ELSE Round(f[n - 1])]

\* Only numbers of new bcaches differ.
Renumbered(g, h) == /\ Sound(h, {None}) /\ DOMAIN h = DOMAIN g
                    /\ \A d \in DOMAIN g \cap (DOMAIN probed \cup Cset) : h[d] = g[d]

\* A round moves a bcache down, and the lowest free number goes up: the bcache will not
\* move again, nor does another one become movable.
LEMMA RoundMoves ==
  ASSUME NEW g, Sound(g, {None})
  PROVE  /\ Renumbered(g, Round(g))
         /\ Above(g, FreeNumber(g)) # {} =>
               \E b \in Above(g, FreeNumber(g)) :
                  Above(Round(g), FreeNumber(Round(g))) \subseteq Above(g, FreeNumber(g)) \ {b}
<1>1. CASE Above(g, FreeNumber(g)) = {}
  <2>1. Round(g) = g
    BY <1>1 DEF Round
  <2> QED BY <1>1, <2>1 DEF Renumbered
<1>2. CASE Above(g, FreeNumber(g)) # {}
  <2> DEFINE S == Above(g, FreeNumber(g))
             b == Lowest(g, S)
             n == FreeNumber(g)
             h == Round(g)
             m == FreeNumber(h)
  <2>1. Numbered(g) /\ n \in Nat \ Numbers(g) /\ \A k \in Nat : k < n => k \in Numbers(g)
    BY SoundNumbered, FreeNumberFree
  <2>2. \A c \in S : c \in Bcaches(g) /\ c \notin DOMAIN probed /\ g[c].number > n /\ g[c].number \in Nat
    BY <2>1 DEF Above, Numbered
  <2>3. \E c \in S : \A d \in S : g[c].number <= g[d].number
    <3> DEFINE T == {g[c].number : c \in S}
    <3>1. T \in SUBSET Nat /\ T # {}
      BY <1>2, <2>2
    <3>2. PICK k \in T : \A j \in T : k <= j
      <4> HIDE DEF T
      <4> QED BY <3>1, LeastNat
    <3> QED BY <3>2
  <2>4. b \in S
    <3> HIDE DEF S
    <3> QED BY <2>3 DEF Lowest
  <2>5. h = [g EXCEPT ![b].number = n]
    BY <1>2 DEF Round
  <2> HIDE DEF S, b, n, h
  <2>6. /\ Sound(h, {None}) /\ DOMAIN h = DOMAIN g /\ h[b].number = n
        /\ \A d \in DOMAIN g \ {b} : h[d] = g[d]
    <3>1. b \in Bcaches(g) /\ n \in Nat /\ n \notin Numbers(g)
      BY <2>1, <2>2, <2>4
    <3>2. \A M : Sound(g, M) =>
            LET k == [g EXCEPT ![b].number = n]
            IN  /\ Sound(k, M) /\ DOMAIN k = DOMAIN g /\ k[b].number = n
                /\ \A d \in DOMAIN g \ {b} : k[d] = g[d]
      BY <3>1, Renumber
    <3> QED BY <2>5, <3>2
  <2>7. b \notin DOMAIN probed \cup Cset /\ Bcaches(h) = Bcaches(g) /\ b \in Bcaches(g)
    <3>1. b \in Bcache /\ b \notin DOMAIN probed
      BY <2>2, <2>4 DEF Bcaches
    <3> QED BY <2>2, <2>4, <2>6, <3>1, ClassAssumption DEF ClassAssumption, Bcaches
  <2>8. Renumbered(g, h)
    BY <2>6, <2>7 DEF Renumbered
  <2>9. Numbered(h) /\ m \in Nat \ Numbers(h)
    BY <2>6, SoundNumbered, FreeNumberFree
  <2> HIDE DEF m
  <2>10. m > n
    <3>1. \A k \in Nat : k <= n => k \in Numbers(h)
      <4> SUFFICES ASSUME NEW k \in Nat, k <= n PROVE k \in Numbers(h)
        OBVIOUS
      <4>1. CASE k = n
        BY <2>6, <2>7, <4>1 DEF Numbers
      <4>2. CASE k # n
        <5>1. k < n
          BY <2>1, <4>2
        <5>2. PICK c \in Bcaches(g) : g[c].number = k
          BY <2>1, <5>1 DEF Numbers
        <5>3. c # b
          BY <2>2, <2>4, <5>1, <5>2, <2>1
        <5>4. h[c].number = k /\ c \in Bcaches(h)
          BY <2>6, <2>7, <5>2, <5>3 DEF Bcaches
        <5> QED BY <5>4 DEF Numbers
      <4> QED BY <4>1, <4>2
    <3> QED BY <2>1, <2>9, <3>1
  <2>11. Above(h, m) \subseteq S \ {b}
    <3> SUFFICES ASSUME NEW c \in Above(h, m) PROVE c \in S /\ c # b
      OBVIOUS
    <3>1. c \in Bcaches(g) /\ c \notin DOMAIN probed /\ h[c].number > m /\ h[c].number \in Nat
      BY <2>7, <2>9 DEF Above, Numbered
    <3>2. c # b
      BY <2>1, <2>6, <2>9, <2>10, <3>1
    <3>3. h[c] = g[c]
      BY <2>6, <3>1, <3>2 DEF Bcaches
    <3>4. g[c].number > n
      BY <2>1, <2>9, <2>10, <3>1, <3>3
    <3> QED BY <3>1, <3>2, <3>4 DEF S, n, Above
  <2> QED BY <2>4, <2>8, <2>11 DEF S, n, h, m
<1> QED BY <1>1, <1>2

\* The recursion of reassign_numbers as an equation.
LEMMA RoundsExist ==
  ASSUME NEW g, NEW N \in Nat
  PROVE  \E f : RoundsFunction(g, N, f)
<1> DEFINE Upto(k, f) == \A n \in 0 .. k : f[n] = IF n = 0 THEN g ELSE Round(f[n - 1])
           T == {k \in Nat : ~ \E f : Upto(k, f)}
<1>1. ASSUME T # {} PROVE FALSE
  <2>1. PICK m \in T : \A k \in T : m <= k
    <3>1. T \in SUBSET Nat
      OBVIOUS
    <3> HIDE DEF T
    <3> QED BY <1>1, <3>1, LeastNat
  <2>2. Upto(0, [n \in 0 .. 0 |-> g])
    OBVIOUS
  <2>3. m \in Nat /\ m # 0
    BY <2>1, <2>2
  <2>4. PICK f : Upto(m - 1, f)
    <3>1. m - 1 \in Nat /\ m - 1 \notin T
      <4> HIDE DEF T
      <4> QED BY <2>1, <2>3
    <3> HIDE DEF Upto
    <3> QED BY <3>1
  <2> DEFINE h == [n \in 0 .. m |-> IF n = m THEN Round(f[m - 1]) ELSE f[n]]
  <2>5. \A n \in 0 .. m : h[n] = IF n = 0 THEN g ELSE Round(h[n - 1])
    <3> SUFFICES ASSUME NEW n \in 0 .. m
                 PROVE  h[n] = IF n = 0 THEN g ELSE Round(h[n - 1])
      OBVIOUS
    <3>1. CASE n = m
      <4>1. h[n] = Round(f[m - 1]) /\ h[n - 1] = f[m - 1]
        BY <2>3, <3>1
      <4> QED BY <2>3, <3>1, <4>1
    <3>2. CASE n # m
      <4>1. n \in 0 .. m - 1 /\ h[n] = f[n]
        BY <2>3, <3>2
      <4>2. f[n] = IF n = 0 THEN g ELSE Round(f[n - 1])
        BY <2>4, <4>1
      <4>3. n # 0 => h[n - 1] = f[n - 1]
        BY <2>3, <3>2
      <4> QED BY <4>1, <4>2, <4>3
    <3> QED BY <3>1, <3>2
  <2>6. Upto(m, h)
    <3> HIDE DEF h
    <3> QED BY <2>5
  <2> QED BY <2>1, <2>6
<1>2. PICK f : Upto(N, f)
  BY <1>1
<1> DEFINE h == [n \in 0 .. N |-> f[n]]
<1>3. ASSUME NEW n \in 0 .. N
      PROVE  h[n] = IF n = 0 THEN g ELSE Round(h[n - 1])
  <2>1. CASE n = 0
    BY <1>2, <2>1
  <2>2. CASE n # 0
    <3>1. n - 1 \in 0 .. N
      BY <2>2
    <3>2. h[n] = f[n] /\ h[n - 1] = f[n - 1]
      BY <3>1
    <3>3. f[n] = Round(f[n - 1])
      BY <1>2, <2>2
    <3> QED BY <2>2, <3>2, <3>3
  <2> QED BY <2>1, <2>2
<1>4. h = [n \in 0 .. N |-> h[n]]
  OBVIOUS
<1>5. h = [n \in 0 .. N |-> IF n = 0 THEN g ELSE Round(h[n - 1])]
  <2> HIDE DEF h
  <2> QED BY <1>3, <1>4
<1> QED BY <1>5 DEF RoundsFunction

\* reassign_numbers by that equation.
LEMMA ReassignByRounds ==
  ASSUME NEW g, Cardinality(Bcaches(g)) \in Nat
  PROVE  \E f : /\ Rounds(g, Cardinality(Bcaches(g)), f)
                /\ ReassignNumbers(g) = f[Cardinality(Bcaches(g))]
<1> DEFINE N == Cardinality(Bcaches(g))
           Q(f) == RoundsFunction(g, N, f)
<1>1. \E f : Q(f)
  BY RoundsExist
<1>2. Q(CHOOSE f : Q(f))
  <2> HIDE DEF Q
  <2> QED BY <1>1
<1>3. ReassignNumbers(g) = (CHOOSE f : Q(f))[N]
  BY DEF ReassignNumbers, Round, RoundsFunction
<1>4. PICK f : Q(f) /\ ReassignNumbers(g) = f[N]
  <2> HIDE DEF Q
  <2> QED BY <1>2, <1>3
<1>5. Rounds(g, N, f)
  <2> HIDE DEF N
  <2> QED BY <1>4 DEF Rounds, RoundsFunction
<1> QED BY <1>4, <1>5

\* After reassign_numbers no new bcache is above a free number.
LEMMA Reassigned ==
  ASSUME NEW g, Sound(g, {None})
  PROVE  LET h == ReassignNumbers(g)
         IN  Renumbered(g, h) /\ Above(h, FreeNumber(h)) = {}
<1> DEFINE N == Cardinality(Bcaches(g))
<1>1. N \in Nat /\ IsFiniteSet(Bcaches(g))
  BY SoundNumbered, FS_CardinalityType DEF Numbered
<1>2. PICK f : /\ \A n \in 0 .. N : f[n] = IF n = 0 THEN g ELSE Round(f[n - 1])
               /\ ReassignNumbers(g) = f[N]
  BY <1>1, ReassignByRounds DEF Rounds
<1> DEFINE Movable(n) == Above(f[n], FreeNumber(f[n]))
           Good(n) == /\ Renumbered(g, f[n]) /\ IsFiniteSet(Movable(n))
                      /\ Cardinality(Movable(n)) <= N - n
<1>3. Good(0)
  <2>1. f[0] = g
    BY <1>1, <1>2
  <2>2. Renumbered(g, g)
    BY DEF Renumbered
  <2>3. Movable(0) \subseteq Bcaches(g)
    BY <2>1 DEF Above
  <2>4. IsFiniteSet(Movable(0)) /\ Cardinality(Movable(0)) <= N
    <3> HIDE DEF Movable
    <3> QED BY <1>1, <2>3, FS_Subset
  <2> HIDE DEF Movable, N
  <2> QED BY <1>1, <2>1, <2>2, <2>4
<1>4. ASSUME NEW n \in 1 .. N, Good(n - 1) PROVE Good(n)
  <2>1. f[n] = Round(f[n - 1])
    <3> HIDE DEF N
    <3> QED BY <1>1, <1>2
  <2>2. Sound(f[n - 1], {None})
    BY <1>4 DEF Renumbered
  <2>3. /\ Renumbered(f[n - 1], f[n])
        /\ Movable(n - 1) # {} => \E b \in Movable(n - 1) : Movable(n) \subseteq Movable(n - 1) \ {b}
    BY <2>1, <2>2, RoundMoves
  <2>4. Renumbered(g, f[n])
    BY <1>4, <2>3 DEF Renumbered
  <2>5. CASE Movable(n - 1) = {}
    <3>1. f[n] = f[n - 1]
      BY <2>1, <2>5 DEF Round
    <3>2. Movable(n) = {} /\ IsFiniteSet({}) /\ Cardinality({}) = 0
      BY <2>5, <3>1, FS_EmptySet
    <3> HIDE DEF Movable, N
    <3> QED BY <1>1, <2>4, <3>2
  <2>6. CASE Movable(n - 1) # {}
    <3>1. PICK b \in Movable(n - 1) : Movable(n) \subseteq Movable(n - 1) \ {b}
      BY <2>3, <2>6
    <3> HIDE DEF Movable, N
    <3>2. /\ IsFiniteSet(Movable(n - 1) \ {b})
          /\ Cardinality(Movable(n - 1) \ {b}) = Cardinality(Movable(n - 1)) - 1
      BY <1>4, <3>1, FS_RemoveElement
    <3>3. /\ IsFiniteSet(Movable(n))
          /\ Cardinality(Movable(n)) <= Cardinality(Movable(n - 1) \ {b})
      BY <3>1, <3>2, FS_Subset
    <3>4. Cardinality(Movable(n)) \in Nat /\ Cardinality(Movable(n - 1)) \in Nat
      BY <1>4, <3>3, FS_CardinalityType
    <3>5. Cardinality(Movable(n - 1)) <= N - (n - 1)
      BY <1>4
    <3>6. Cardinality(Movable(n)) <= N - n
      BY <1>1, <3>2, <3>3, <3>4, <3>5
    <3> QED BY <2>4, <3>3, <3>6
  <2> QED BY <2>5, <2>6
<1>5. Good(N)
  <2> DEFINE T == {n \in 0 .. N : ~ Good(n)}
  <2>1. ASSUME T # {} PROVE FALSE
    <3>1. T \in SUBSET Nat
      <4> HIDE DEF Good, N
      <4> QED BY <1>1
    <3>2. PICK m \in T : \A k \in T : m <= k
      <4> HIDE DEF T
      <4> QED BY <2>1, <3>1, LeastNat
    <3> HIDE DEF Good, N
    <3>3. m # 0 /\ m \in 0 .. N
      BY <1>3, <3>2
    <3>4. m \in 1 .. N /\ m - 1 \in 0 .. N /\ m - 1 \notin T
      <4>1. m \in 1 .. N /\ m - 1 \in 0 .. N /\ ~ m <= m - 1
        BY <1>1, <3>3
      <4> HIDE DEF T
      <4> QED BY <3>2, <4>1
    <3>5. Good(m - 1)
      BY <3>4
    <3> QED BY <1>4, <3>2, <3>4, <3>5
  <2> HIDE DEF Good, N
  <2> QED BY <1>1, <2>1
<1>6. Movable(N) = {}
  <2>1. IsFiniteSet(Movable(N)) /\ Cardinality(Movable(N)) <= 0
    <3> HIDE DEF Movable, N
    <3> QED BY <1>1, <1>5
  <2> HIDE DEF Movable
  <2>2. Cardinality(Movable(N)) = 0
    BY <2>1, FS_CardinalityType
  <2> QED BY <2>1, <2>2, FS_EmptySet
<1> QED BY <1>2, <1>5, <1>6

-----------------------------------------------------------------------------
(* The client.                                                             *)

\* What is in both graphs is on the same device, bcaches have the same number.
Kept(L, R) ==
  \A d \in DOMAIN L \cap DOMAIN R :
     IF d \in Bcache THEN L[d].on = R[d].on /\ L[d].number = R[d].number ELSE L[d] = R[d]

\* Below the number of a new bcache none is free.
Compact(L, R) ==
  \A b \in Bcaches(R) \ DOMAIN L : \A n \in Nat : n < R[b].number => n \in Numbers(R)

Edited(L, R) == Sound(R, {None}) /\ Kept(L, R) /\ Compact(L, R)

Row(g, M) == [on : Disk \cup Bcaches(g), number : Nat, cset : Csets(g) \cup M,
              mode : {"through", "back"}]

\* create_bcache
LEMMA BcacheCreated ==
  ASSUME NEW L, NEW g, Edited(L, g),
         NEW b \in Bcache \ (DOMAIN g \cup DOMAIN L), NEW d \in BlkDevice(g),
         Children(g, d) \cap DOMAIN L = {}
  PROVE  Edited(L, With([c \in DOMAIN g |-> IF g[c].on = d THEN [g[c] EXCEPT !.on = b] ELSE g[c]],
                        b, [on |-> d, number |-> FreeNumber(g), cset |-> None, mode |-> "through"]))
<1> DEFINE moved == [c \in DOMAIN g |-> IF g[c].on = d THEN [g[c] EXCEPT !.on = b] ELSE g[c]]
           n == FreeNumber(g)
           new == [on |-> d, number |-> n, cset |-> None, mode |-> "through"]
           h == With(moved, b, new)
<1>1. n \in Nat \ Numbers(g) /\ \A k \in Nat : k < n => k \in Numbers(g)
  BY SoundNumbered, FreeNumberFree DEF Edited
<1> HIDE DEF n
<1>2. /\ DOMAIN g \subseteq Bcache \cup Cset /\ IsFiniteSet(DOMAIN g)
      /\ b \in Bcache /\ b \notin DOMAIN g /\ b \notin DOMAIN L /\ b \notin Cset /\ b \notin Disk
      /\ d \in Disk \cup Bcaches(g) /\ d \notin Cset
  BY ClassAssumption DEF ClassAssumption, BlkDevice, Edited, Sound, Bcaches
<1>3. /\ DOMAIN h = DOMAIN g \cup {b} /\ h[b] = new
      /\ \A c \in DOMAIN g : h[c] = IF g[c].on = d THEN [g[c] EXCEPT !.on = b] ELSE g[c]
  BY <1>2 DEF With
<1> HIDE DEF h
<1>4. Bcaches(h) = Bcaches(g) \cup {b} /\ Csets(h) = Csets(g)
  BY <1>2, <1>3 DEF Bcaches, Csets
<1>5. IsFiniteSet(DOMAIN h) /\ DOMAIN h \subseteq Bcache \cup Cset
  BY <1>2, <1>3, FS_AddElement
<1>6. \A c \in Bcaches(g) : h[c] \in Row(h, {None}) /\ h[c].number = g[c].number
  <2> SUFFICES ASSUME NEW c \in Bcaches(g)
               PROVE  h[c] \in Row(h, {None}) /\ h[c].number = g[c].number
    OBVIOUS
  <2>1. g[c] \in Row(g, {None}) /\ c \in DOMAIN g
    BY DEF Edited, Sound, Row, Bcaches
  <2>2. CASE g[c].on = d
    <3>1. h[c] = [g[c] EXCEPT !.on = b]
      BY <1>3, <2>1, <2>2
    <3> QED BY <1>4, <2>1, <3>1 DEF Row
  <2>3. CASE g[c].on # d
    BY <1>3, <1>4, <2>1, <2>3 DEF Row
  <2> QED BY <2>2, <2>3
<1>7. h[b] \in Row(h, {None}) /\ h[b].number = n /\ h[b].on = d
  BY <1>1, <1>2, <1>3, <1>4 DEF Row
<1>8. \A s \in Csets(h) : h[s] \in [on : Disk \cup Bcaches(h)]
  <2> SUFFICES ASSUME NEW s \in Csets(g) PROVE h[s] \in [on : Disk \cup Bcaches(h)]
    BY <1>4
  <2>1. g[s] \in [on : Disk \cup Bcaches(g)] /\ s \in DOMAIN g
    BY DEF Edited, Sound, Csets
  <2>2. CASE g[s].on = d
    <3>1. h[s] = [g[s] EXCEPT !.on = b]
      BY <1>3, <2>1, <2>2
    <3> QED BY <1>4, <2>1, <3>1
  <2>3. CASE g[s].on # d
    BY <1>3, <1>4, <2>1, <2>3
  <2> QED BY <2>2, <2>3
<1>9. \A c \in DOMAIN g : h[c].on = IF g[c].on = d THEN b ELSE g[c].on
  <2> SUFFICES ASSUME NEW c \in DOMAIN g
               PROVE  h[c].on = IF g[c].on = d THEN b ELSE g[c].on
    OBVIOUS
  <2>1. g[c] \in Row(g, {None}) \/ g[c] \in [on : Disk \cup Bcaches(g)]
    BY <1>2 DEF Edited, Sound, Row, Bcaches, Csets
  <2> QED BY <1>3, <2>1 DEF Row
<1>10. \A c \in DOMAIN g : g[c].on # b
  <2> SUFFICES ASSUME NEW c \in DOMAIN g PROVE g[c].on # b
    OBVIOUS
  <2>1. g[c] \in Row(g, {None}) \/ g[c] \in [on : Disk \cup Bcaches(g)]
    BY <1>2 DEF Edited, Sound, Row, Bcaches, Csets
  <2>2. g[c].on \in Disk \cup Bcaches(g)
    BY <2>1 DEF Row
  <2> QED BY <1>2, <2>2 DEF Bcaches
<1>11. \A c, e \in DOMAIN h : h[c].on = h[e].on => c = e
  <2>1. \A c, e \in DOMAIN g : g[c].on = g[e].on => c = e
    BY DEF Edited, Sound
  <2>2. \A c \in DOMAIN g : h[c].on # d
    BY <1>2, <1>9 DEF Bcaches
  <2>3. \A c, e \in DOMAIN g : h[c].on = h[e].on => c = e
    BY <1>9, <1>10, <2>1
  <2> QED BY <1>3, <1>7, <2>2, <2>3
<1>12. \A c, e \in Bcaches(h) : h[c].number = h[e].number => c = e
  <2>1. \A c \in Bcaches(g) : h[c].number # n
    BY <1>1, <1>6 DEF Numbers
  <2>2. \A c, e \in Bcaches(g) : h[c].number = h[e].number => c = e
    BY <1>6 DEF Edited, Sound
  <2> QED BY <1>4, <1>7, <2>1, <2>2
<1>13. Sound(h, {None})
  BY <1>4, <1>5, <1>6, <1>7, <1>8, <1>11, <1>12 DEF Sound, Row
<1>14. Kept(L, h)
  <2> SUFFICES ASSUME NEW c \in DOMAIN L \cap DOMAIN h
               PROVE  IF c \in Bcache THEN L[c].on = h[c].on /\ L[c].number = h[c].number
                      ELSE L[c] = h[c]
    BY DEF Kept
  <2>1. c \in DOMAIN g
    BY <1>2, <1>3
  <2>2. g[c].on # d
    BY <2>1 DEF Children, Parents
  <2>3. h[c] = g[c]
    BY <1>3, <2>1, <2>2
  <2> QED BY <2>1, <2>3 DEF Edited, Kept
<1>15. Compact(L, h)
  <2>1. Numbers(g) \subseteq Numbers(h)
    BY <1>4, <1>6 DEF Numbers
  <2>2. ASSUME NEW c \in Bcaches(h) \ DOMAIN L, NEW k \in Nat, k < h[c].number
        PROVE  k \in Numbers(g)
    <3>1. CASE c = b
      BY <1>1, <1>7, <2>2, <3>1
    <3>2. CASE c # b
      <4>1. c \in Bcaches(g) \ DOMAIN L
        BY <1>4, <3>2
      <4> QED BY <1>6, <2>2, <4>1 DEF Edited, Compact
    <3> QED BY <3>1, <3>2
  <2> QED BY <2>1, <2>2 DEF Compact
<1>16. Edited(L, h)
  BY <1>13, <1>14, <1>15 DEF Edited
<1> QED BY <1>16 DEF h, n

\* create_bcache_cset
LEMMA CsetCreated ==
  ASSUME NEW L, NEW g, Edited(L, g),
         NEW s \in Cset \ (DOMAIN g \cup DOMAIN L), NEW d \in BlkDevice(g), Children(g, d) = {}
  PROVE  Edited(L, With(g, s, [on |-> d]))
<1> DEFINE h == With(g, s, [on |-> d])
<1>1. /\ DOMAIN g \subseteq Bcache \cup Cset /\ IsFiniteSet(DOMAIN g)
      /\ s \in Cset /\ s \notin DOMAIN g /\ s \notin DOMAIN L /\ s \notin Bcache
      /\ d \in Disk \cup Bcaches(g)
  BY ClassAssumption DEF ClassAssumption, BlkDevice, Edited, Sound
<1>2. DOMAIN h = DOMAIN g \cup {s} /\ h[s] = [on |-> d] /\ \A c \in DOMAIN g : h[c] = g[c]
  BY <1>1 DEF With
<1> HIDE DEF h
<1>3. Bcaches(h) = Bcaches(g) /\ Csets(h) = Csets(g) \cup {s} /\ \A b \in Bcaches(g) : h[b] = g[b]
  BY <1>1, <1>2 DEF Bcaches, Csets
<1>4. IsFiniteSet(DOMAIN h) /\ DOMAIN h \subseteq Bcache \cup Cset
  BY <1>1, <1>2, FS_AddElement
<1>5. \A b \in Bcaches(h) : h[b] \in Row(h, {None})
  <2>1. \A b \in Bcaches(g) : g[b] \in Row(g, {None})
    BY DEF Edited, Sound, Row
  <2> QED BY <1>3, <2>1 DEF Row
<1>6. \A c \in Csets(h) : h[c] \in [on : Disk \cup Bcaches(h)]
  <2>1. \A c \in Csets(g) : g[c] \in [on : Disk \cup Bcaches(g)] /\ h[c] = g[c]
    BY <1>2 DEF Edited, Sound, Csets
  <2> QED BY <1>1, <1>2, <1>3, <2>1
<1>7. \A c, e \in DOMAIN h : h[c].on = h[e].on => c = e
  <2>1. \A c \in DOMAIN g : h[c].on # d
    BY <1>2 DEF Children, Parents
  <2>2. \A c, e \in DOMAIN g : h[c].on = h[e].on => c = e
    BY <1>2 DEF Edited, Sound
  <2> QED BY <1>2, <2>1, <2>2
<1>8. \A c, e \in Bcaches(h) : h[c].number = h[e].number => c = e
  BY <1>3 DEF Edited, Sound
<1>9. Sound(h, {None})
  BY <1>4, <1>5, <1>6, <1>7, <1>8 DEF Sound, Row
<1>10. Kept(L, h)
  BY <1>1, <1>2 DEF Edited, Kept
<1>11. Compact(L, h)
  <2>1. Numbers(h) = Numbers(g)
    BY <1>3 DEF Numbers
  <2> QED BY <1>3, <2>1 DEF Edited, Compact
<1>12. Edited(L, h)
  BY <1>9, <1>10, <1>11 DEF Edited
<1> QED BY <1>12 DEF h

\* A bcache with another cache set or mode, in staging or in the kernel.
LEMMA RowChanged ==
  ASSUME NEW g, NEW M, Sound(g, M), NEW b \in Bcaches(g), NEW r \in Row(g, M),
         r.on = g[b].on, r.number = g[b].number
  PROVE  LET h == [g EXCEPT ![b] = r]
         IN  /\ Sound(h, M) /\ DOMAIN h = DOMAIN g /\ h[b] = r
             /\ \A d \in DOMAIN g \ {b} : h[d] = g[d]
<1> DEFINE h == [g EXCEPT ![b] = r]
<1>1. b \in DOMAIN g /\ b \in Bcache /\ b \notin Cset
  BY ClassAssumption DEF ClassAssumption, Bcaches
<1>2. DOMAIN h = DOMAIN g /\ h[b] = r /\ \A d \in DOMAIN g \ {b} : h[d] = g[d]
  BY <1>1
<1> HIDE DEF h
<1>3. Bcaches(h) = Bcaches(g) /\ Csets(h) = Csets(g)
  BY <1>2 DEF Bcaches, Csets
<1>4. IsFiniteSet(DOMAIN h) /\ DOMAIN h \subseteq Bcache \cup Cset
  BY <1>2 DEF Sound
<1>5. \A c \in Bcaches(h) : h[c] \in Row(h, M)
  <2>1. \A c \in Bcaches(g) : g[c] \in Row(g, M)
    BY DEF Sound, Row
  <2>2. Row(h, M) = Row(g, M)
    BY <1>3 DEF Row
  <2> QED BY <1>2, <1>3, <2>1, <2>2 DEF Bcaches
<1>6. \A s \in Csets(h) : h[s] \in [on : Disk \cup Bcaches(h)]
  BY <1>1, <1>2, <1>3 DEF Sound, Csets
<1>7. \A d \in DOMAIN g : h[d].on = g[d].on
  BY <1>2
<1>8. \A c \in Bcaches(g) : h[c].number = g[c].number
  BY <1>2 DEF Bcaches
<1>9. Sound(h, M)
  <2>1. \A c, d \in DOMAIN h : h[c].on = h[d].on => c = d
    BY <1>2, <1>7 DEF Sound
  <2>2. \A c, d \in Bcaches(h) : h[c].number = h[d].number => c = d
    BY <1>3, <1>8 DEF Sound
  <2> QED BY <1>3, <1>4, <1>5, <1>6, <2>1, <2>2 DEF Sound, Row
<1> QED BY <1>2, <1>9 DEF h

\* attach_bcache_cset, remove_bcache_cset and set_cache_mode.
LEMMA RowEdited ==
  ASSUME NEW L, NEW g, Edited(L, g), NEW b \in Bcaches(g), NEW r \in Row(g, {None}),
         r.on = g[b].on, r.number = g[b].number
  PROVE  Edited(L, [g EXCEPT ![b] = r])
<1> DEFINE h == [g EXCEPT ![b] = r]
<1>1. Sound(g, {None})
  BY DEF Edited
<1>2. /\ Sound(h, {None}) /\ DOMAIN h = DOMAIN g /\ h[b] = r
      /\ \A d \in DOMAIN g \ {b} : h[d] = g[d]
  <2>1. \A M : Sound(g, M) /\ r \in Row(g, M) =>
          LET k == [g EXCEPT ![b] = r]
          IN  /\ Sound(k, M) /\ DOMAIN k = DOMAIN g /\ k[b] = r
              /\ \A d \in DOMAIN g \ {b} : k[d] = g[d]
    BY RowChanged
  <2> QED BY <1>1, <2>1
<1> HIDE DEF h
<1>3. Kept(L, h)
  BY <1>2 DEF Edited, Kept, Bcaches
<1>4. Compact(L, h)
  <2>1. Bcaches(h) = Bcaches(g) /\ \A c \in Bcaches(g) : h[c].number = g[c].number
    BY <1>2 DEF Bcaches
  <2>2. Numbers(h) = Numbers(g)
    BY <2>1 DEF Numbers
  <2> QED BY <2>1, <2>2 DEF Edited, Compact
<1> QED BY <1>2, <1>3, <1>4 DEF Edited, h

\* A graph without a device that nothing is on, staging or the kernel.
LEMMA WithoutLeaf ==
  ASSUME NEW g, NEW M, Sound(g, M), NEW d \in DOMAIN g, Children(g, d) = {}, M \cap Cset = {}
  PROVE  Sound(Without(g, d), M)
<1> DEFINE h == Without(g, d)
<1>1. DOMAIN h = DOMAIN g \ {d} /\ \A c \in DOMAIN g \ {d} : h[c] = g[c]
  BY DEF Without
<1> HIDE DEF h
<1>2. Bcaches(h) = Bcaches(g) \ {d} /\ Csets(h) = Csets(g) \ {d}
  BY <1>1 DEF Bcaches, Csets
<1>3. \A c \in DOMAIN g : g[c].on # d /\ (c \in Bcache => g[c].cset # d \/ d \in {None})
  BY DEF Children, Parents
<1>4. IsFiniteSet(DOMAIN h) /\ DOMAIN h \subseteq Bcache \cup Cset
  BY <1>1, FS_Subset DEF Sound
<1>5. \A b \in Bcaches(h) : h[b] \in Row(h, M)
  <2> SUFFICES ASSUME NEW b \in Bcaches(h) PROVE h[b] \in Row(h, M)
    OBVIOUS
  <2>1. b \in Bcaches(g) /\ b \in DOMAIN g /\ b \in Bcache /\ h[b] = g[b]
    BY <1>1, <1>2 DEF Bcaches
  <2>2. g[b] \in Row(g, M)
    BY <2>1 DEF Sound, Row
  <2>3. g[b].on # d /\ (g[b].cset # d \/ d \notin Csets(g))
    BY <1>3, <2>1, ClassAssumption DEF ClassAssumption, Csets
  <2>4. g[b].cset \in Csets(h) \cup M
    BY <1>2, <2>2, <2>3 DEF Row
  <2> QED BY <1>2, <2>1, <2>2, <2>3, <2>4 DEF Row
<1>6. \A s \in Csets(h) : h[s] \in [on : Disk \cup Bcaches(h)]
  <2> SUFFICES ASSUME NEW s \in Csets(h) PROVE h[s] \in [on : Disk \cup Bcaches(h)]
    OBVIOUS
  <2>1. s \in Csets(g) /\ s \in DOMAIN g /\ h[s] = g[s]
    BY <1>1, <1>2 DEF Csets
  <2>2. g[s] \in [on : Disk \cup Bcaches(g)] /\ g[s].on # d
    BY <1>3, <2>1 DEF Sound
  <2> QED BY <1>2, <2>1, <2>2
<1>7. \A c, e \in DOMAIN h : h[c].on = h[e].on => c = e
  BY <1>1 DEF Sound
<1>8. \A c, e \in Bcaches(h) : h[c].number = h[e].number => c = e
  <2>1. \A c \in Bcaches(h) : c \in Bcaches(g) /\ h[c] = g[c]
    BY <1>1, <1>2 DEF Bcaches
  <2> QED BY <2>1 DEF Sound
<1>9. Sound(h, M)
  BY <1>4, <1>5, <1>6, <1>7, <1>8 DEF Sound, Row
<1> QED BY <1>9 DEF h

\* remove_device: the numbers are reassigned.
LEMMA DeviceRemoved ==
  ASSUME NEW g, Edited(probed, g), NEW d \in DOMAIN g, Children(g, d) = {}
  PROVE  Edited(probed, ReassignNumbers(Without(g, d)))
<1> DEFINE w == Without(g, d)
           h == ReassignNumbers(w)
           free == FreeNumber(h)
<1>1. Sound(g, {None}) /\ {None} \cap Cset = {}
  BY ClassAssumption DEF ClassAssumption, Edited
<1>2. Sound(w, {None})
  <2>1. \A M : Sound(g, M) /\ M \cap Cset = {} => Sound(w, M)
    BY WithoutLeaf
  <2> QED BY <1>1, <2>1
<1>3. DOMAIN w \subseteq DOMAIN g /\ \A c \in DOMAIN w : w[c] = g[c]
  BY DEF Without
<1> HIDE DEF w
<1>4. Renumbered(w, h) /\ Above(h, free) = {}
  BY <1>2, Reassigned
<1> HIDE DEF h
<1>5. Sound(h, {None}) /\ DOMAIN h = DOMAIN w
      /\ \A c \in DOMAIN w \cap (DOMAIN probed \cup Cset) : h[c] = g[c]
  BY <1>3, <1>4 DEF Renumbered
<1>6. Kept(probed, h)
  BY <1>3, <1>5 DEF Edited, Kept
<1>7. Numbered(h) /\ free \in Nat \ Numbers(h) /\ \A n \in Nat : n < free => n \in Numbers(h)
  BY <1>5, SoundNumbered, FreeNumberFree
<1> HIDE DEF free
<1>8. Compact(probed, h)
  <2> SUFFICES ASSUME NEW b \in Bcaches(h) \ DOMAIN probed, NEW n \in Nat, n < h[b].number
               PROVE  n \in Numbers(h)
    BY DEF Compact
  <2>1. ~ h[b].number > free /\ h[b].number \in Nat
    BY <1>4, <1>7 DEF Above, Numbered
  <2>2. n < free
    BY <1>7, <2>1
  <2> QED BY <1>7, <2>2
<1> QED BY <1>5, <1>6, <1>8 DEF Edited, h, w

-----------------------------------------------------------------------------
(* The actions.                                                            *)

Ops(L, R, d) ==
  CASE d \notin DOMAIN R -> {"deactivate", "delete"}
    [] d \in DOMAIN R \ DOMAIN L -> IF d \in Bcache THEN Created(R[d]) ELSE {"create"}
    [] OTHER -> IF d \in Bcache THEN Modified(L[d], R[d]) ELSE {}

\* When a device has which action.
Has(L, R, a) ==
  CASE a.op \in {"deactivate", "delete"} -> a.sid \in DOMAIN L \ DOMAIN R
    [] a.op = "create" -> a.sid \in DOMAIN R \ DOMAIN L
    [] a.op = "attach" -> /\ a.sid \in Bcaches(R) /\ R[a.sid].cset # None
                          /\ a.sid \in DOMAIN L => L[a.sid].cset # R[a.sid].cset
    [] a.op = "detach" -> /\ a.sid \in Bcaches(R) \cap DOMAIN L
                          /\ L[a.sid].cset # None /\ L[a.sid].cset # R[a.sid].cset
    [] a.op = "mode" -> a.sid \in Bcaches(R) \cap DOMAIN L /\ L[a.sid].mode # R[a.sid].mode
    [] OTHER -> FALSE

\* The fields of an action.
LEMMA ActFields ==
  ASSUME NEW op, NEW d
  PROVE  Act(op, d).op = op /\ Act(op, d).sid = d
BY DEF Act

\* The actions from L to R are those.
LEMMA ActionsAre ==
  ASSUME NEW L, NEW R
  PROVE  /\ \A a \in Actions(L, R) : a = Act(a.op, a.sid) /\ Has(L, R, a)
         /\ \A op, d : Has(L, R, Act(op, d)) => Act(op, d) \in Actions(L, R)
<1>1. Actions(L, R) = UNION {{Act(op, d) : op \in Ops(L, R, d)} : d \in DOMAIN L \cup DOMAIN R}
  BY DEF Actions, Ops
<1>2. ASSUME NEW op, NEW d
      PROVE  d \in DOMAIN L \cup DOMAIN R /\ op \in Ops(L, R, d) <=> Has(L, R, Act(op, d))
  <2>1. Act(op, d).op = op /\ Act(op, d).sid = d
    BY ActFields
  <2>2. CASE d \notin DOMAIN R
    <3>1. Ops(L, R, d) = {"deactivate", "delete"}
      BY <2>2 DEF Ops
    <3> QED BY <2>1, <2>2, <3>1 DEF Has, Bcaches
  <2>3. CASE d \in DOMAIN R \ DOMAIN L
    <3>1. Ops(L, R, d) = IF d \in Bcache THEN Created(R[d]) ELSE {"create"}
      BY <2>3 DEF Ops
    <3> QED BY <2>1, <2>3, <3>1 DEF Has, Bcaches, Created
  <2>4. CASE d \in DOMAIN R \cap DOMAIN L
    <3>1. Ops(L, R, d) = IF d \in Bcache THEN Modified(L[d], R[d]) ELSE {}
      BY <2>4 DEF Ops
    <3> QED BY <2>1, <2>4, <3>1 DEF Has, Bcaches, Modified
  <2> QED BY <2>2, <2>3, <2>4
<1>3. ASSUME NEW a \in Actions(L, R) PROVE a = Act(a.op, a.sid) /\ Has(L, R, a)
  <2>1. PICK d \in DOMAIN L \cup DOMAIN R : \E op \in Ops(L, R, d) : a = Act(op, d)
    BY <1>1
  <2>2. PICK op \in Ops(L, R, d) : a = Act(op, d)
    BY <2>1
  <2>3. Has(L, R, Act(op, d)) /\ a.op = op /\ a.sid = d
    BY <1>2, <2>1, <2>2, ActFields
  <2> QED BY <2>2, <2>3
<1>4. ASSUME NEW op, NEW d, Has(L, R, Act(op, d)) PROVE Act(op, d) \in Actions(L, R)
  <2>1. d \in DOMAIN L \cup DOMAIN R /\ op \in Ops(L, R, d)
    BY <1>2, <1>4
  <2> QED BY <1>1, <2>1
<1> QED BY <1>3, <1>4

\* The actions of each kind.
LEMMA ActionsByKind ==
  ASSUME NEW L, NEW R, NEW d
  PROVE  /\ Act("deactivate", d) \in Actions(L, R) <=> d \in DOMAIN L \ DOMAIN R
         /\ Act("delete", d) \in Actions(L, R) <=> d \in DOMAIN L \ DOMAIN R
         /\ Act("create", d) \in Actions(L, R) <=> d \in DOMAIN R \ DOMAIN L
         /\ Act("attach", d) \in Actions(L, R) <=>
               d \in Bcaches(R) /\ R[d].cset # None /\ (d \in DOMAIN L => L[d].cset # R[d].cset)
         /\ Act("detach", d) \in Actions(L, R) <=>
               d \in Bcaches(R) \cap DOMAIN L /\ L[d].cset # None /\ L[d].cset # R[d].cset
         /\ Act("mode", d) \in Actions(L, R) <=>
               d \in Bcaches(R) \cap DOMAIN L /\ L[d].mode # R[d].mode
<1>1. ASSUME NEW op
      PROVE  /\ Act(op, d) \in Actions(L, R) <=> Has(L, R, Act(op, d))
             /\ Act(op, d).op = op /\ Act(op, d).sid = d
  BY ActionsAre, ActFields
<1>2. \A op : /\ Act(op, d) \in Actions(L, R) <=> Has(L, R, Act(op, d))
              /\ Act(op, d).op = op /\ Act(op, d).sid = d
  BY <1>1
<1>3. Act("deactivate", d) \in Actions(L, R) <=> d \in DOMAIN L \ DOMAIN R
  BY <1>2 DEF Has
<1>4. Act("delete", d) \in Actions(L, R) <=> d \in DOMAIN L \ DOMAIN R
  BY <1>2 DEF Has
<1>5. Act("create", d) \in Actions(L, R) <=> d \in DOMAIN R \ DOMAIN L
  BY <1>2 DEF Has
<1>6. Act("attach", d) \in Actions(L, R) <=>
         d \in Bcaches(R) /\ R[d].cset # None /\ (d \in DOMAIN L => L[d].cset # R[d].cset)
  BY <1>2 DEF Has
<1>7. Act("detach", d) \in Actions(L, R) <=>
         d \in Bcaches(R) \cap DOMAIN L /\ L[d].cset # None /\ L[d].cset # R[d].cset
  BY <1>2 DEF Has
<1>8. Act("mode", d) \in Actions(L, R) <=>
         d \in Bcaches(R) \cap DOMAIN L /\ L[d].mode # R[d].mode
  BY <1>2 DEF Has
<1> QED BY <1>3, <1>4, <1>5, <1>6, <1>7, <1>8

\* The order in the chain of a device, and of creations and deletions of bcaches.
LEMMA ChainOrder ==
  ASSUME NEW A, NEW L, NEW R, NEW d, NEW e
  PROVE  /\ Before(A, Act("deactivate", d), Act("delete", d), L, R)
         /\ Before(A, Act("create", d), Act("attach", d), L, R)
         /\ Before(A, Act("detach", d), Act("attach", d), L, R)
         /\ d \in Bcache /\ e \in Bcache => Before(A, Act("delete", d), Act("create", e), L, R)
         /\ d \in Bcache /\ e \in Bcache /\ R[d].number < R[e].number =>
               Before(A, Act("create", d), Act("create", e), L, R)
         /\ d \in Cset /\ R[e].cset = d => Before(A, Act("create", d), Act("attach", e), L, R)
<1>1. \A op, x : Act(op, x).op = op /\ Act(op, x).sid = x
  BY ActFields
<1>2. /\ Before(A, Act("deactivate", d), Act("delete", d), L, R)
      /\ Before(A, Act("create", d), Act("attach", d), L, R)
      /\ Before(A, Act("detach", d), Act("attach", d), L, R)
  BY <1>1 DEF Before, Place
<1>3. d \in Bcache /\ e \in Bcache => Before(A, Act("delete", d), Act("create", e), L, R)
  BY <1>1 DEF Before, InChain
<1>4. d \in Bcache /\ e \in Bcache /\ R[d].number < R[e].number =>
         Before(A, Act("create", d), Act("create", e), L, R)
  BY <1>1 DEF Before, InChain
<1>5. d \in Cset /\ R[e].cset = d => Before(A, Act("create", d), Act("attach", e), L, R)
  BY <1>1 DEF Before, CsetFirst
<1> QED BY <1>2, <1>3, <1>4, <1>5

-----------------------------------------------------------------------------
(* The commit.                                                             *)

\* What is to be committed is closed under coming after.
Onward(L, R, T) ==
  /\ T \subseteq Actions(L, R)
  /\ \A a \in T, b \in Actions(L, R) : Before(Actions(L, R), a, b, L, R) => b \in T

\* What is registered: what stays, what is not deactivated yet and what is created.
Registered(K, L, R, T) ==
  \A d : d \in DOMAIN K <=> \/ d \in DOMAIN L \cap DOMAIN R
                            \/ d \in DOMAIN L \ DOMAIN R /\ Act("deactivate", d) \in T
                            \/ d \in DOMAIN R \ DOMAIN L /\ Act("create", d) \notin T

\* On which devices.
Placed(K, L, R) ==
  /\ \A d \in DOMAIN K \ DOMAIN R : K[d].on = L[d].on
  /\ \A d \in DOMAIN K \cap DOMAIN R : K[d].on = R[d].on

\* What a bcache lacks is still to be done.
Settled(k, r, b, A, T) ==
  /\ k.number = r.number
  /\ k.mode = r.mode \/ Act("mode", b) \in T
  /\ Act("attach", b) \notin T /\ Act("detach", b) \notin T =>
        k.cset = r.cset \/ (k.cset = Leaving /\ r.cset = None)
  /\ Act("attach", b) \in T /\ Act("detach", b) \notin A => k.cset = None

Progress(K, L, R, T) ==
  /\ Sound(K, {None, Leaving})
  /\ Onward(L, R, T) /\ Registered(K, L, R, T) /\ Placed(K, L, R)
  /\ \A b \in Bcaches(K) \cap DOMAIN R : Settled(K[b], R[b], b, Actions(L, R), T)

Graphs(L, R) == Sound(L, {None}) /\ Edited(L, R)

IsReady(L, R, T, a) == a \in T /\ \A b \in T : ~ Before(Actions(L, R), b, a, L, R)

\* Actions are the same if their fields are.
LEMMA SameAct ==
  ASSUME NEW o, NEW d, NEW p, NEW e
  PROVE  Act(o, d) = Act(p, e) <=> o = p /\ d = e
<1>1. Act(o, d).op = o /\ Act(o, d).sid = d /\ Act(p, e).op = p /\ Act(p, e).sid = e
  BY ActFields
<1> QED BY <1>1

\* At first all is to be done.
LEMMA ProgressStarts ==
  ASSUME NEW L, NEW R, Graphs(L, R)
  PROVE  Progress(L, L, R, Actions(L, R))
<1> DEFINE A == Actions(L, R)
<1>1. Sound(L, {None, Leaving})
  <2>1. \A b \in Bcaches(L) : L[b] \in Row(L, {None, Leaving})
    <3>1. \A b \in Bcaches(L) : L[b] \in Row(L, {None})
      BY DEF Graphs, Sound, Row
    <3> QED BY <3>1 DEF Row
  <2> QED BY <2>1 DEF Graphs, Sound, Row
<1>2. Onward(L, R, A)
  BY DEF Onward
<1>3. Registered(L, L, R, A)
  BY ActionsByKind DEF Registered
<1>4. Placed(L, L, R)
  <2>1. \A d \in DOMAIN L \cap DOMAIN R : L[d].on = R[d].on
    BY DEF Graphs, Edited, Kept
  <2> QED BY <2>1 DEF Placed
<1>5. ASSUME NEW b \in Bcaches(L) \cap DOMAIN R PROVE Settled(L[b], R[b], b, A, A)
  <2>1. b \in Bcaches(R) \cap DOMAIN L /\ b \in Bcache
    BY <1>5 DEF Bcaches
  <2>2. L[b].number = R[b].number
    BY <2>1 DEF Graphs, Edited, Kept, Bcaches
  <2> QED BY <2>1, <2>2, ActionsByKind DEF Settled
<1> QED BY <1>1, <1>2, <1>3, <1>4, <1>5 DEF Progress

\* What is left when a ready action is over.
LEMMA TodoShrinks ==
  ASSUME NEW L, NEW R, NEW T, NEW a, Onward(L, R, T), IsReady(L, R, T, a)
  PROVE  Onward(L, R, T \ {a})
BY DEF Onward, IsReady

\* A new device in a graph.
LEMMA RowAdded ==
  ASSUME NEW g, NEW M, Sound(g, M), NEW d, d \notin DOMAIN g, NEW r, Children(g, r.on) = {},
         \/ d \in Bcache /\ r \in Row(g, M) /\ r.number \notin Numbers(g)
         \/ d \in Cset /\ r \in [on : Disk \cup Bcaches(g)]
  PROVE  Sound(With(g, d, r), M)
<1> DEFINE h == With(g, d, r)
<1>1. /\ DOMAIN h = DOMAIN g \cup {d} /\ h[d] = r
      /\ \A c \in DOMAIN g : h[c] = g[c]
  BY DEF With
<1> HIDE DEF h
<1>2. Bcache \cap Cset = {}
  BY ClassAssumption DEF ClassAssumption
<1>3. /\ Bcaches(g) \subseteq Bcaches(h) /\ Csets(g) \subseteq Csets(h)
      /\ Bcaches(h) \subseteq Bcaches(g) \cup {d} /\ Csets(h) \subseteq Csets(g) \cup {d}
      /\ d \in Bcache => d \notin Csets(h)
      /\ d \in Cset => d \notin Bcaches(h)
  BY <1>1, <1>2 DEF Bcaches, Csets
<1>4. IsFiniteSet(DOMAIN h) /\ DOMAIN h \subseteq Bcache \cup Cset
  BY <1>1, FS_AddElement DEF Sound
<1>5. \A b \in Bcaches(h) : h[b] \in Row(h, M)
  <2>1. \A b \in Bcaches(g) : g[b] \in Row(g, M) /\ b \in DOMAIN g
    BY DEF Sound, Row, Bcaches
  <2>2. Row(g, M) \subseteq Row(h, M)
    BY <1>3 DEF Row
  <2>3. ASSUME NEW b \in Bcaches(h) PROVE h[b] \in Row(h, M)
    <3>1. CASE b \in Bcaches(g)
      BY <1>1, <2>1, <2>2, <3>1
    <3>2. CASE b = d
      BY <1>1, <1>3, <2>2, <2>3, <3>2
    <3> QED BY <1>3, <3>1, <3>2
  <2> QED BY <2>3
<1>6. \A s \in Csets(h) : h[s] \in [on : Disk \cup Bcaches(h)]
  <2>1. \A s \in Csets(g) : g[s] \in [on : Disk \cup Bcaches(g)] /\ s \in DOMAIN g
    BY DEF Sound, Csets
  <2>2. [on : Disk \cup Bcaches(g)] \subseteq [on : Disk \cup Bcaches(h)]
    BY <1>3
  <2>3. ASSUME NEW s \in Csets(h) PROVE h[s] \in [on : Disk \cup Bcaches(h)]
    <3>1. CASE s \in Csets(g)
      BY <1>1, <2>1, <2>2, <3>1
    <3>2. CASE s = d
      BY <1>1, <1>3, <2>2, <2>3, <3>2
    <3> QED BY <1>3, <3>1, <3>2
  <2> QED BY <2>3
<1>7. \A c, e \in DOMAIN h : h[c].on = h[e].on => c = e
  <2>1. \A c \in DOMAIN g : h[c].on # r.on
    BY <1>1 DEF Children, Parents
  <2>2. \A c, e \in DOMAIN g : h[c].on = h[e].on => c = e
    BY <1>1 DEF Sound
  <2> QED BY <1>1, <2>1, <2>2
<1>8. \A c, e \in Bcaches(h) : h[c].number = h[e].number => c = e
  <2>1. \A c \in Bcaches(g) : c \in DOMAIN g /\ h[c] = g[c]
    BY <1>1 DEF Bcaches
  <2>2. \A c, e \in Bcaches(g) : h[c].number = h[e].number => c = e
    BY <2>1 DEF Sound
  <2>3. d \in Bcaches(h) => \A c \in Bcaches(g) : h[c].number # h[d].number
    BY <1>1, <1>3, <2>1 DEF Numbers
  <2> QED BY <1>3, <2>2, <2>3
<1>9. Sound(h, M)
  BY <1>4, <1>5, <1>6, <1>7, <1>8 DEF Sound, Row
<1> QED BY <1>9 DEF h

\* A bcache is created when all deletions are over and the new bcaches with lower
\* numbers are there: the kernel gives it the number it has in staging.
LEMMA NumberComes ==
  ASSUME NEW K, NEW L, NEW R, NEW T, Graphs(L, R), Progress(K, L, R, T),
         NEW d \in Bcache, IsReady(L, R, T, Act("create", d))
  PROVE  FreeNumber(K) = R[d].number /\ R[d].number \notin Numbers(K)
<1> DEFINE A == Actions(L, R)
           n == R[d].number
<1>1. /\ d \in DOMAIN R \ DOMAIN L /\ d \in Bcaches(R) \ DOMAIN L /\ n \in Nat
      /\ Act("create", d) \in T /\ d \notin DOMAIN K
      /\ \A c \in T : ~ Before(A, c, Act("create", d), L, R)
  <2>1. Act("create", d) \in T /\ \A c \in T : ~ Before(A, c, Act("create", d), L, R)
    BY DEF IsReady
  <2>2. d \in DOMAIN R \ DOMAIN L
    BY <2>1, ActionsByKind DEF Progress, Onward
  <2>3. d \notin DOMAIN K
    BY <2>1, <2>2 DEF Progress, Registered
  <2>4. d \in Bcaches(R) \ DOMAIN L
    BY <2>2 DEF Bcaches
  <2>5. n \in Nat
    BY <2>4 DEF Graphs, Edited, Sound
  <2> QED BY <2>1, <2>2, <2>3, <2>4, <2>5
<1>2. ASSUME NEW c \in Bcaches(K) PROVE c \in Bcaches(R) /\ K[c].number = R[c].number
  <2>1. c \in Bcache /\ c \in DOMAIN K
    BY DEF Bcaches
  <2>2. ASSUME c \in DOMAIN L \ DOMAIN R, Act("deactivate", c) \in T PROVE FALSE
    <3>1. Act("delete", c) \in T
      <4>1. Act("delete", c) \in A /\ Before(A, Act("deactivate", c), Act("delete", c), L, R)
        BY <2>2, ActionsByKind, ChainOrder
      <4> QED BY <2>2, <4>1 DEF Progress, Onward
    <3>2. Before(A, Act("delete", c), Act("create", d), L, R)
      BY <2>1, ChainOrder
    <3> QED BY <1>1, <3>1, <3>2
  <2>3. c \in DOMAIN R
    BY <2>1, <2>2 DEF Progress, Registered
  <2>4. Settled(K[c], R[c], c, A, T)
    BY <2>3 DEF Progress
  <2> QED BY <2>1, <2>3, <2>4 DEF Settled, Bcaches
<1>3. n \notin Numbers(K)
  <2> SUFFICES ASSUME NEW c \in Bcaches(K), K[c].number = n PROVE FALSE
    BY DEF Numbers
  <2>1. c \in Bcaches(R) /\ R[c].number = R[d].number
    BY <1>2
  <2>2. c = d
    BY <1>1, <2>1 DEF Graphs, Edited, Sound
  <2> QED BY <1>1, <2>2 DEF Bcaches
<1>4. ASSUME NEW m \in Nat, m < n PROVE m \in Numbers(K)
  <2>1. PICK c \in Bcaches(R) : R[c].number = m
    BY <1>1, <1>4 DEF Graphs, Edited, Compact, Numbers
  <2>2. c \in DOMAIN R /\ c \in Bcache
    BY DEF Bcaches
  <2>3. c \in DOMAIN K
    <3>1. CASE c \in DOMAIN L
      BY <2>2, <3>1 DEF Progress, Registered
    <3>2. CASE c \notin DOMAIN L
      <4>1. Before(A, Act("create", c), Act("create", d), L, R)
        BY <1>4, <2>1, <2>2, ChainOrder
      <4>2. Act("create", c) \notin T
        BY <1>1, <4>1
      <4> QED BY <2>2, <3>2, <4>2 DEF Progress, Registered
    <3> QED BY <3>1, <3>2
  <2>4. c \in Bcaches(K)
    BY <2>2, <2>3 DEF Bcaches
  <2> QED BY <1>2, <2>1, <2>4 DEF Numbers
<1>5. Numbered(K)
  BY SoundNumbered DEF Progress
<1> HIDE DEF n
<1>6. FreeNumber(K) = n
  BY <1>1, <1>3, <1>4, <1>5, FreeNumberUnique
<1> QED BY <1>3, <1>6 DEF n

\* Which devices are registered after one was created.
LEMMA CreateRegisters ==
  ASSUME NEW K, NEW L, NEW R, NEW T, Progress(K, L, R, T), NEW d,
         IsReady(L, R, T, Act("create", d)), NEW r, r.on = R[d].on
  PROVE  /\ Registered(With(K, d, r), L, R, T \ {Act("create", d)})
         /\ Placed(With(K, d, r), L, R)
         /\ d \in DOMAIN R \ DOMAIN L /\ d \notin DOMAIN K
<1> DEFINE h == With(K, d, r)
<1>1. DOMAIN h = DOMAIN K \cup {d} /\ h[d] = r
      /\ \A c \in DOMAIN K \ {d} : h[c] = K[c]
  BY DEF With
<1> HIDE DEF h
<1>2. Act("create", d) \in T
  BY DEF IsReady
<1>3. d \in DOMAIN R \ DOMAIN L
  BY <1>2, ActionsByKind DEF Progress, Onward
<1>4. d \notin DOMAIN K
  BY <1>2, <1>3 DEF Progress, Registered
<1>5. /\ \A c : Act("deactivate", c) # Act("create", d)
      /\ \A c : Act("create", c) = Act("create", d) <=> c = d
  BY SameAct
<1>6. Registered(h, L, R, T \ {Act("create", d)})
  BY <1>1, <1>2, <1>3, <1>5 DEF Progress, Registered
<1>7. Placed(h, L, R)
  BY <1>1, <1>3, <1>4 DEF Progress, Placed
<1> QED BY <1>3, <1>4, <1>6, <1>7 DEF h

\* do_create of a bcache.
LEMMA BcacheComes ==
  ASSUME NEW K, NEW L, NEW R, NEW T, Graphs(L, R), Progress(K, L, R, T),
         NEW d \in Bcache, IsReady(L, R, T, Act("create", d)),
         R[d].on \in Disk \cup DOMAIN K, Children(K, R[d].on) = {}
  PROVE  Progress(With(K, d, [on |-> R[d].on, number |-> FreeNumber(K),
                              cset |-> None, mode |-> R[d].mode]),
                  L, R, T \ {Act("create", d)})
<1> DEFINE r == [on |-> R[d].on, number |-> FreeNumber(K), cset |-> None, mode |-> R[d].mode]
           h == With(K, d, r)
           U == T \ {Act("create", d)}
           A == Actions(L, R)
<1>1. r.on = R[d].on /\ r.number = FreeNumber(K) /\ r.cset = None /\ r.mode = R[d].mode
  OBVIOUS
<1>2. Registered(h, L, R, U) /\ Placed(h, L, R) /\ d \in DOMAIN R \ DOMAIN L /\ d \notin DOMAIN K
  BY <1>1, CreateRegisters
<1>3. FreeNumber(K) = R[d].number /\ R[d].number \notin Numbers(K)
  BY NumberComes
<1>4. d \in Bcaches(R) /\ R[d] \in Row(R, {None})
  <2>1. d \in Bcaches(R)
    BY <1>2 DEF Bcaches
  <2> QED BY <2>1 DEF Graphs, Edited, Sound, Row
<1>5. Onward(L, R, U)
  BY TodoShrinks DEF Progress
<1>6. r \in Row(K, {None, Leaving})
  <2>1. R[d].on \in Disk \cup Bcaches(K)
    <3>1. R[d].on \in Disk \cup Bcache
      BY <1>4 DEF Row, Bcaches
    <3> QED BY <3>1 DEF Bcaches
  <2>2. R[d].number \in Nat /\ R[d].mode \in {"through", "back"}
    BY <1>4 DEF Row
  <2> QED BY <1>3, <2>1, <2>2 DEF Row
<1>7. Sound(h, {None, Leaving})
  <2> DEFINE M == {None, Leaving}
  <2>1. Sound(K, M) /\ r \in Row(K, M) /\ r.number \notin Numbers(K) /\ Children(K, r.on) = {}
    BY <1>1, <1>3, <1>6 DEF Progress
  <2> HIDE DEF M, r
  <2>2. Sound(With(K, d, r), M)
    BY <1>2, <2>1, RowAdded
  <2> QED BY <2>2 DEF M
<1>8. ASSUME NEW b \in Bcaches(h) \cap DOMAIN R PROVE Settled(h[b], R[b], b, A, U)
  <2>1. CASE b = d
    <3>1. h[b] = r
      BY <2>1 DEF With
    <3>2. Act("attach", d) \notin U => R[d].cset = None
      <4> SUFFICES ASSUME R[d].cset # None PROVE Act("attach", d) \in U
        OBVIOUS
      <4>1. Act("attach", d) \in A /\ Before(A, Act("create", d), Act("attach", d), L, R)
        BY <1>2, <1>4, ActionsByKind, ChainOrder
      <4>2. Act("attach", d) \in T /\ Act("attach", d) # Act("create", d)
        BY <4>1, SameAct DEF Progress, Onward, IsReady
      <4> QED BY <4>2
    <3> HIDE DEF r, h, U
    <3> QED BY <1>1, <1>3, <2>1, <3>1, <3>2 DEF Settled
  <2>2. CASE b # d
    <3>1. b \in Bcaches(K) /\ h[b] = K[b]
      BY <2>2 DEF With, Bcaches
    <3>2. Settled(K[b], R[b], b, A, T)
      BY <3>1 DEF Progress
    <3>3. \A op : Act(op, b) \in U <=> Act(op, b) \in T
      BY <2>2, SameAct
    <3> HIDE DEF h, U
    <3> QED BY <3>1, <3>2, <3>3 DEF Settled
  <2> QED BY <2>1, <2>2
<1> HIDE DEF h, r
<1>9. Progress(h, L, R, U)
  BY <1>2, <1>5, <1>7, <1>8 DEF Progress
<1> QED BY <1>9 DEF h, r

\* do_create of a cache set.
LEMMA CsetComes ==
  ASSUME NEW K, NEW L, NEW R, NEW T, Graphs(L, R), Progress(K, L, R, T),
         NEW d \in Cset, IsReady(L, R, T, Act("create", d)),
         R[d].on \in Disk \cup DOMAIN K, Children(K, R[d].on) = {}
  PROVE  Progress(With(K, d, [on |-> R[d].on]), L, R, T \ {Act("create", d)})
<1> DEFINE r == [on |-> R[d].on]
           h == With(K, d, r)
           U == T \ {Act("create", d)}
           A == Actions(L, R)
<1>1. r.on = R[d].on
  OBVIOUS
<1>2. Registered(h, L, R, U) /\ Placed(h, L, R) /\ d \in DOMAIN R \ DOMAIN L /\ d \notin DOMAIN K
  BY <1>1, CreateRegisters
<1>3. d \in Csets(R) /\ R[d] \in [on : Disk \cup Bcaches(R)] /\ d \notin Bcache
  <2>1. d \in Csets(R) /\ d \notin Bcache
    BY <1>2, ClassAssumption DEF ClassAssumption, Csets
  <2> QED BY <2>1 DEF Graphs, Edited, Sound
<1>4. Onward(L, R, U)
  BY TodoShrinks DEF Progress
<1>5. r \in [on : Disk \cup Bcaches(K)]
  <2>1. R[d].on \in Disk \cup Bcaches(K)
    <3>1. R[d].on \in Disk \cup Bcache
      BY <1>3 DEF Bcaches
    <3> QED BY <3>1 DEF Bcaches
  <2> QED BY <1>3, <2>1
<1>6. Sound(h, {None, Leaving})
  <2> DEFINE M == {None, Leaving}
  <2>1. Sound(K, M) /\ r \in [on : Disk \cup Bcaches(K)] /\ Children(K, r.on) = {}
    BY <1>1, <1>5 DEF Progress
  <2> HIDE DEF M, r
  <2>2. Sound(With(K, d, r), M)
    BY <1>2, <2>1, RowAdded
  <2> QED BY <2>2 DEF M
<1>7. ASSUME NEW b \in Bcaches(h) \cap DOMAIN R PROVE Settled(h[b], R[b], b, A, U)
  <2>1. b # d
    BY <1>3 DEF Bcaches
  <2>2. b \in Bcaches(K) /\ h[b] = K[b]
    BY <2>1 DEF With, Bcaches
  <2>3. Settled(K[b], R[b], b, A, T)
    BY <2>2 DEF Progress
  <2>4. \A op : Act(op, b) \in U <=> Act(op, b) \in T
    BY <2>1, SameAct
  <2> HIDE DEF h, U
  <2> QED BY <2>2, <2>3, <2>4 DEF Settled
<1> HIDE DEF h, r
<1>8. Progress(h, L, R, U)
  BY <1>2, <1>4, <1>6, <1>7 DEF Progress
<1> QED BY <1>8 DEF h, r

\* Only actions that modify b are over.
Modifies(b, T, U) ==
  /\ U \subseteq T
  /\ \A o, d : Act(o, d) \in T /\ Act(o, d) \notin U => d = b /\ o \notin {"create", "deactivate"}

\* A step of the kernel or an action that changes one bcache.
LEMMA RowSteps ==
  ASSUME NEW K, NEW L, NEW R, NEW T, Graphs(L, R), Progress(K, L, R, T),
         NEW b \in Bcaches(K), NEW r \in Row(K, {None, Leaving}),
         r.on = K[b].on, r.number = K[b].number,
         NEW U, Onward(L, R, U), Modifies(b, T, U),
         b \in DOMAIN R => Settled(r, R[b], b, Actions(L, R), U)
  PROVE  Progress([K EXCEPT ![b] = r], L, R, U)
<1> DEFINE h == [K EXCEPT ![b] = r]
           A == Actions(L, R)
<1>1. /\ Sound(h, {None, Leaving}) /\ DOMAIN h = DOMAIN K /\ h[b] = r
      /\ \A d \in DOMAIN K \ {b} : h[d] = K[d]
  <2> DEFINE M == {None, Leaving}
  <2>1. Sound(K, M) /\ r \in Row(K, M)
    BY DEF Progress
  <2> HIDE DEF M
  <2>2. LET k == [K EXCEPT ![b] = r]
        IN  /\ Sound(k, M) /\ DOMAIN k = DOMAIN K /\ k[b] = r
            /\ \A d \in DOMAIN K \ {b} : k[d] = K[d]
    BY <2>1, RowChanged
  <2> QED BY <2>2 DEF M
<1> HIDE DEF h
<1>2. /\ \A d : Act("create", d) \in U <=> Act("create", d) \in T
      /\ \A d : Act("deactivate", d) \in U <=> Act("deactivate", d) \in T
      /\ \A o, d : d # b => (Act(o, d) \in U <=> Act(o, d) \in T)
  BY DEF Modifies
<1>3. Registered(h, L, R, U)
  BY <1>1, <1>2 DEF Progress, Registered
<1>4. Placed(h, L, R)
  BY <1>1 DEF Progress, Placed
<1>5. ASSUME NEW c \in Bcaches(h) \cap DOMAIN R PROVE Settled(h[c], R[c], c, A, U)
  <2>1. CASE c = b
    BY <1>1, <1>5, <2>1
  <2>2. CASE c # b
    <3>1. c \in Bcaches(K) /\ h[c] = K[c]
      BY <1>1, <2>2 DEF Bcaches
    <3>2. Settled(K[c], R[c], c, A, T)
      BY <1>5, <3>1 DEF Progress
    <3> QED BY <1>2, <2>2, <3>1, <3>2 DEF Settled
  <2> QED BY <2>1, <2>2
<1>6. Progress(h, L, R, U)
  BY <1>1, <1>3, <1>4, <1>5 DEF Progress
<1> QED BY <1>6 DEF h

Modifying(K, L, R, T, o, d) ==
  /\ d \in Bcaches(R) /\ Act(o, d) \in T
  /\ Onward(L, R, T \ {Act(o, d)}) /\ Modifies(d, T, T \ {Act(o, d)})
  /\ \A p : p # o => (Act(p, d) \in T \ {Act(o, d)} <=> Act(p, d) \in T)
  /\ Act(o, d) \notin T \ {Act(o, d)}
  /\ d \in DOMAIN K => /\ d \in Bcaches(K)
                       /\ Settled(K[d], R[d], d, Actions(L, R), T)
                       /\ K[d] \in Row(K, {None, Leaving})
  /\ R[d] \in Row(R, {None})

\* What holds of an action on a bcache other than its creation and its removal.
LEMMA ModifyFacts ==
  ASSUME NEW K, NEW L, NEW R, NEW T, Graphs(L, R), Progress(K, L, R, T),
         NEW o \in {"attach", "detach", "mode"}, NEW d, IsReady(L, R, T, Act(o, d))
  PROVE  Modifying(K, L, R, T, o, d)
<1>1. Act(o, d) \in T /\ Act(o, d) \in Actions(L, R)
  BY DEF IsReady, Progress, Onward
<1>2. d \in Bcaches(R)
  BY <1>1, ActionsByKind
<1>3. Onward(L, R, T \ {Act(o, d)})
  BY TodoShrinks DEF Progress
<1>4. Modifies(d, T, T \ {Act(o, d)})
  BY SameAct DEF Modifies
<1>5. \A p : p # o => (Act(p, d) \in T \ {Act(o, d)} <=> Act(p, d) \in T)
  BY SameAct
<1>6. R[d] \in Row(R, {None})
  BY <1>2 DEF Graphs, Edited, Sound, Row
<1>7. ASSUME d \in DOMAIN K
      PROVE  /\ d \in Bcaches(K)
             /\ Settled(K[d], R[d], d, Actions(L, R), T)
             /\ K[d] \in Row(K, {None, Leaving})
  <2>1. d \in Bcaches(K) /\ d \in DOMAIN R
    BY <1>2, <1>7 DEF Bcaches
  <2> QED BY <2>1 DEF Progress, Sound, Row
<1> QED BY <1>1, <1>2, <1>3, <1>4, <1>5, <1>6, <1>7 DEF Modifying

\* do_attach_bcache_cset
LEMMA Attached ==
  ASSUME NEW K, NEW L, NEW R, NEW T, Graphs(L, R), Progress(K, L, R, T),
         NEW d, IsReady(L, R, T, Act("attach", d)),
         d \in DOMAIN K, R[d].cset \in Disk \cup DOMAIN K
  PROVE  Progress([K EXCEPT ![d] = [K[d] EXCEPT !.cset = R[d].cset]],
                  L, R, T \ {Act("attach", d)})
<1> DEFINE U == T \ {Act("attach", d)}
           r == [K[d] EXCEPT !.cset = R[d].cset]
<1>0. Modifying(K, L, R, T, "attach", d)
  BY ModifyFacts
<1>1. /\ d \in Bcaches(R) /\ Onward(L, R, U) /\ Modifies(d, T, U)
      /\ \A p : p # "attach" => (Act(p, d) \in U <=> Act(p, d) \in T)
      /\ Act("attach", d) \notin U
      /\ d \in Bcaches(K) /\ Settled(K[d], R[d], d, Actions(L, R), T)
      /\ K[d] \in Row(K, {None, Leaving}) /\ R[d] \in Row(R, {None})
  BY <1>0 DEF Modifying
<1>2. /\ r.on = K[d].on /\ r.number = K[d].number /\ r.mode = K[d].mode /\ r.cset = R[d].cset
  BY <1>1 DEF Row
<1>3. r \in Row(K, {None, Leaving})
  <2>1. R[d].cset \in Csets(K) \cup {None}
    BY <1>1, ClassAssumption DEF ClassAssumption, Row, Csets
  <2> QED BY <1>1, <2>1 DEF Row
<1>4. Settled(r, R[d], d, Actions(L, R), U)
  <2> HIDE DEF r, U
  <2> QED BY <1>1, <1>2 DEF Settled
<1> HIDE DEF r, U
<1>5. Progress([K EXCEPT ![d] = r], L, R, U)
  BY <1>1, <1>2, <1>3, <1>4, RowSteps
<1> QED BY <1>5 DEF r, U

\* do_detach_bcache_cset
LEMMA Detached ==
  ASSUME NEW K, NEW L, NEW R, NEW T, Graphs(L, R), Progress(K, L, R, T),
         NEW d, IsReady(L, R, T, Act("detach", d)), d \in DOMAIN K
  PROVE  Progress([K EXCEPT ![d] = [K[d] EXCEPT !.cset = IF K[d].cset = None THEN None ELSE Leaving]],
                  L, R, T \ {Act("detach", d)})
<1> DEFINE U == T \ {Act("detach", d)}
           r == [K[d] EXCEPT !.cset = IF K[d].cset = None THEN None ELSE Leaving]
           A == Actions(L, R)
<1>0. Modifying(K, L, R, T, "detach", d)
  BY ModifyFacts
<1>1. /\ d \in Bcaches(R) /\ Onward(L, R, U) /\ Modifies(d, T, U)
      /\ \A p : p # "detach" => (Act(p, d) \in U <=> Act(p, d) \in T)
      /\ Act("detach", d) \in T
      /\ d \in Bcaches(K) /\ Settled(K[d], R[d], d, A, T)
      /\ K[d] \in Row(K, {None, Leaving}) /\ R[d] \in Row(R, {None})
  BY <1>0 DEF Modifying
<1>2. /\ r.on = K[d].on /\ r.number = K[d].number /\ r.mode = K[d].mode /\ r.cset \in {None, Leaving}
  BY <1>1 DEF Row
<1>3. r \in Row(K, {None, Leaving})
  BY <1>1 DEF Row
<1>4. Act("detach", d) \in A
  BY <1>1 DEF Progress, Onward
<1>5. Act("attach", d) \notin U => R[d].cset = None
  <2> SUFFICES ASSUME R[d].cset # None PROVE Act("attach", d) \in U
    OBVIOUS
  <2>1. d \in DOMAIN L /\ L[d].cset # R[d].cset
    BY <1>4, ActionsByKind
  <2>2. Act("attach", d) \in A /\ Before(A, Act("detach", d), Act("attach", d), L, R)
    BY <1>1, <2>1, ActionsByKind, ChainOrder
  <2>3. Act("attach", d) \in T
    BY <1>1, <2>2 DEF Progress, Onward
  <2> QED BY <1>1, <2>3
<1>6. Settled(r, R[d], d, A, U)
  <2> HIDE DEF r, U
  <2> QED BY <1>1, <1>2, <1>4, <1>5 DEF Settled
<1> HIDE DEF r, U
<1>7. Progress([K EXCEPT ![d] = r], L, R, U)
  BY <1>1, <1>2, <1>3, <1>6, RowSteps
<1> QED BY <1>7 DEF r, U

\* do_update_cache_mode
LEMMA ModeSet ==
  ASSUME NEW K, NEW L, NEW R, NEW T, Graphs(L, R), Progress(K, L, R, T),
         NEW d, IsReady(L, R, T, Act("mode", d)), d \in DOMAIN K
  PROVE  Progress([K EXCEPT ![d] = [K[d] EXCEPT !.mode = R[d].mode]], L, R, T \ {Act("mode", d)})
<1> DEFINE U == T \ {Act("mode", d)}
           r == [K[d] EXCEPT !.mode = R[d].mode]
<1>0. Modifying(K, L, R, T, "mode", d)
  BY ModifyFacts
<1>1. /\ d \in Bcaches(R) /\ Onward(L, R, U) /\ Modifies(d, T, U)
      /\ \A p : p # "mode" => (Act(p, d) \in U <=> Act(p, d) \in T)
      /\ d \in Bcaches(K) /\ Settled(K[d], R[d], d, Actions(L, R), T)
      /\ K[d] \in Row(K, {None, Leaving}) /\ R[d] \in Row(R, {None})
  BY <1>0 DEF Modifying
<1>2. r.on = K[d].on /\ r.number = K[d].number /\ r.mode = R[d].mode /\ r.cset = K[d].cset
  BY <1>1 DEF Row
<1>3. r \in Row(K, {None, Leaving})
  BY <1>1 DEF Row
<1>4. Settled(r, R[d], d, Actions(L, R), U)
  <2> HIDE DEF r, U
  <2> QED BY <1>1, <1>2 DEF Settled
<1> HIDE DEF r, U
<1>5. Progress([K EXCEPT ![d] = r], L, R, U)
  BY <1>1, <1>2, <1>3, <1>4, RowSteps
<1> QED BY <1>5 DEF r, U

\* What is leaving is gone.
LEMMA WrittenBackSteps ==
  ASSUME NEW K, NEW L, NEW R, NEW T, Graphs(L, R), Progress(K, L, R, T),
         NEW d \in Bcaches(K), K[d].cset = Leaving
  PROVE  Progress([K EXCEPT ![d] = [K[d] EXCEPT !.cset = None]], L, R, T)
<1> DEFINE r == [K[d] EXCEPT !.cset = None]
<1>1. /\ Onward(L, R, T) /\ Modifies(d, T, T)
      /\ K[d] \in Row(K, {None, Leaving})
      /\ d \in DOMAIN R => Settled(K[d], R[d], d, Actions(L, R), T) /\ R[d] \in Row(R, {None})
  BY DEF Progress, Modifies, Graphs, Edited, Sound, Row, Bcaches
<1>2. r.on = K[d].on /\ r.number = K[d].number /\ r.mode = K[d].mode /\ r.cset = None
  BY <1>1 DEF Row
<1>3. r \in Row(K, {None, Leaving})
  BY <1>1 DEF Row
<1>4. d \in DOMAIN R => Settled(r, R[d], d, Actions(L, R), T)
  <2> HIDE DEF r
  <2>1. d \in DOMAIN R => R[d].cset # Leaving
    BY <1>1, ClassAssumption DEF ClassAssumption, Row, Csets
  <2> QED BY <1>1, <1>2, <2>1 DEF Settled
<1> HIDE DEF r
<1>5. Progress([K EXCEPT ![d] = r], L, R, T)
  BY <1>1, <1>2, <1>3, <1>4, RowSteps
<1> QED BY <1>5 DEF r

\* The registered devices without d, and nothing attached to it.
Unregister(K, d) ==
  [x \in DOMAIN K \ {d} |->
     IF x \in Bcache /\ K[x].cset = d THEN [K[x] EXCEPT !.cset = None] ELSE K[x]]

\* do_deactivate
LEMMA Deactivated ==
  ASSUME NEW K, NEW L, NEW R, NEW T, Graphs(L, R), Progress(K, L, R, T),
         NEW d, IsReady(L, R, T, Act("deactivate", d)), d \in Bcache => Children(K, d) = {}
  PROVE  Progress(Unregister(K, d), L, R, T \ {Act("deactivate", d)})
<1> DEFINE h == Unregister(K, d)
           U == T \ {Act("deactivate", d)}
           A == Actions(L, R)
           M == {None, Leaving}
<1>1. Act("deactivate", d) \in T /\ d \in DOMAIN L \ DOMAIN R
  <2>1. Act("deactivate", d) \in T /\ Act("deactivate", d) \in A
    BY DEF IsReady, Progress, Onward
  <2> QED BY <2>1, ActionsByKind
<1>2. d \in DOMAIN K /\ d \in Bcache \cup Cset /\ d \notin Disk
      /\ d \notin M /\ M \cap Cset = {} /\ Bcache \cap Cset = {} /\ None # Leaving
  <2>1. d \in DOMAIN K
    BY <1>1 DEF Progress, Registered
  <2>2. d \in Bcache \cup Cset
    BY <1>1 DEF Graphs, Sound
  <2> QED BY <2>1, <2>2, ClassAssumption DEF ClassAssumption
<1>3. Sound(K, M)
  BY DEF Progress
<1>4. /\ \A b \in Bcaches(K) : b \in Bcache /\ b \in DOMAIN K /\ K[b] \in Row(K, M)
      /\ \A s \in Csets(K) : s \in Cset /\ s \in DOMAIN K /\ K[s] \in [on : Disk \cup Bcaches(K)]
  BY <1>3 DEF Sound, Row, Bcaches, Csets
<1>5. \A c \in DOMAIN K : K[c].on # d
  <2>1. CASE d \in Bcache
    BY <2>1 DEF Children, Parents
  <2>2. CASE d \in Cset
    <3>1. \A c \in DOMAIN K : K[c].on \in Disk \cup Bcache
      <4>1. \A c \in DOMAIN K : c \in Bcaches(K) \/ c \in Csets(K)
        BY <1>3 DEF Sound, Bcaches, Csets
      <4>2. Bcaches(K) \subseteq Bcache
        BY DEF Bcaches
      <4> QED BY <1>4, <4>1, <4>2 DEF Row
    <3> QED BY <1>2, <2>2, <3>1
  <2> QED BY <1>2, <2>1, <2>2
<1>6. /\ DOMAIN h = DOMAIN K \ {d}
      /\ \A x \in DOMAIN h : h[x] = IF x \in Bcache /\ K[x].cset = d THEN [K[x] EXCEPT !.cset = None]
                                    ELSE K[x]
  BY DEF Unregister
<1> HIDE DEF h
<1>7. Bcaches(h) = Bcaches(K) \ {d} /\ Csets(h) = Csets(K) \ {d}
  BY <1>6 DEF Bcaches, Csets
<1>8. ASSUME NEW b \in Bcaches(h)
      PROVE  /\ h[b] \in Row(h, M) /\ h[b].on = K[b].on /\ h[b].number = K[b].number
             /\ h[b].mode = K[b].mode
             /\ h[b].cset = IF K[b].cset = d THEN None ELSE K[b].cset
  <2>1. b \in Bcaches(K) /\ b # d /\ b \in Bcache /\ b \in DOMAIN K /\ b \in DOMAIN h /\ K[b] \in Row(K, M)
    BY <1>4, <1>6, <1>7
  <2>2. K[b].on \in Disk \cup Bcaches(h)
    BY <1>5, <1>7, <2>1 DEF Row
  <2>3. CASE K[b].cset = d
    <3>1. h[b] = [K[b] EXCEPT !.cset = None]
      BY <1>6, <2>1, <2>3
    <3> QED BY <2>1, <2>2, <2>3, <3>1 DEF Row
  <2>4. CASE K[b].cset # d
    <3>1. h[b] = K[b]
      BY <1>6, <2>1, <2>4
    <3>2. K[b].cset \in Csets(h) \cup M
      BY <1>7, <2>1, <2>4 DEF Row
    <3> QED BY <2>1, <2>2, <2>4, <3>1, <3>2 DEF Row
  <2> QED BY <2>3, <2>4
<1>9. ASSUME NEW s \in Csets(h) PROVE h[s] \in [on : Disk \cup Bcaches(h)] /\ h[s] = K[s]
  <2>1. s \in Csets(K) /\ s \notin Bcache /\ s \in DOMAIN K /\ s \in DOMAIN h
    BY <1>2, <1>4, <1>6, <1>7
  <2>2. h[s] = K[s] /\ K[s] \in [on : Disk \cup Bcaches(K)] /\ K[s].on # d
    BY <1>4, <1>5, <1>6, <2>1
  <2> QED BY <1>7, <2>2
<1>10. \A c \in DOMAIN h : c \in DOMAIN K /\ h[c].on = K[c].on
  <2>1. \A c \in DOMAIN h : c \in Bcaches(h) \/ c \in Csets(h)
    BY <1>3, <1>6 DEF Sound, Bcaches, Csets
  <2> QED BY <1>6, <1>8, <1>9, <2>1
<1>11. Sound(h, M)
  <2>1. IsFiniteSet(DOMAIN h) /\ DOMAIN h \subseteq Bcache \cup Cset
    BY <1>3, <1>6, FS_Subset DEF Sound
  <2>2. \A c, e \in DOMAIN h : h[c].on = h[e].on => c = e
    BY <1>3, <1>10 DEF Sound
  <2>3. \A c, e \in Bcaches(h) : h[c].number = h[e].number => c = e
    BY <1>3, <1>7, <1>8 DEF Sound
  <2> QED BY <1>8, <1>9, <2>1, <2>2, <2>3 DEF Sound, Row
<1>12. Onward(L, R, U)
  BY TodoShrinks DEF Progress
<1>13. /\ \A c : Act("create", c) \in U <=> Act("create", c) \in T
       /\ \A c : Act("deactivate", c) \in U <=> Act("deactivate", c) \in T /\ c # d
       /\ \A o, c : o # "deactivate" => (Act(o, c) \in U <=> Act(o, c) \in T)
  BY SameAct
<1> HIDE DEF U
<1>14. Registered(h, L, R, U)
  BY <1>1, <1>6, <1>13 DEF Progress, Registered
<1>15. Placed(h, L, R)
  BY <1>10 DEF Progress, Placed
<1>16. ASSUME NEW b \in Bcaches(h) \cap DOMAIN R PROVE Settled(h[b], R[b], b, A, U)
  <2>1. Settled(K[b], R[b], b, A, T)
    BY <1>7 DEF Progress
  <2>2. R[b].cset # d
    <3>1. b \in Bcaches(R)
      BY DEF Bcaches
    <3>2. R[b] \in Row(R, {None})
      BY <3>1 DEF Graphs, Edited, Sound, Row
    <3> QED BY <1>1, <1>2, <3>2 DEF Row, Csets
  <2> QED BY <1>2, <1>8, <1>13, <2>1, <2>2 DEF Settled
<1>17. Progress(h, L, R, U)
  BY <1>11, <1>12, <1>14, <1>15, <1>16 DEF Progress
<1> QED BY <1>17 DEF h, U

\* do_delete: the signatures on the disk are wiped, the kernel has forgotten it.
LEMMA Deleted ==
  ASSUME NEW K, NEW L, NEW R, NEW T, Graphs(L, R), Progress(K, L, R, T),
         NEW d, IsReady(L, R, T, Act("delete", d))
  PROVE  Progress(K, L, R, T \ {Act("delete", d)})
<1> DEFINE U == T \ {Act("delete", d)}
<1>1. Onward(L, R, U)
  BY TodoShrinks DEF Progress
<1>2. \A o, c : o # "delete" => (Act(o, c) \in U <=> Act(o, c) \in T)
  BY SameAct
<1> HIDE DEF U
<1>3. Registered(K, L, R, U)
  BY <1>2 DEF Progress, Registered
<1>4. \A b \in Bcaches(K) \cap DOMAIN R : Settled(K[b], R[b], b, Actions(L, R), U)
  BY <1>2 DEF Progress, Settled
<1>5. Progress(K, L, R, U)
  BY <1>1, <1>3, <1>4 DEF Progress
<1> QED BY <1>5 DEF U

-----------------------------------------------------------------------------
(* The order of the actions.                                               *)

Upwards(g, S) == S \cup UNION {Parents(g, p) : p \in S \cap DOMAIN g}

UpFunction(g, d, N, f) ==
  f = [n \in 0 .. N |-> IF n = 0 THEN Parents(g, d) ELSE Upwards(g, f[n - 1])]

\* The recursion of Ancestors as an equation.
LEMMA UpExists ==
  ASSUME NEW g, NEW d, NEW N \in Nat
  PROVE  \E f : UpFunction(g, d, N, f)
<1> DEFINE Upto(k, f) == \A n \in 0 .. k : f[n] = IF n = 0 THEN Parents(g, d) ELSE Upwards(g, f[n - 1])
           T == {k \in Nat : ~ \E f : Upto(k, f)}
<1>1. ASSUME T # {} PROVE FALSE
  <2>1. PICK m \in T : \A k \in T : m <= k
    <3>1. T \in SUBSET Nat
      OBVIOUS
    <3> HIDE DEF T
    <3> QED BY <1>1, <3>1, LeastNat
  <2>2. Upto(0, [n \in 0 .. 0 |-> Parents(g, d)])
    OBVIOUS
  <2>3. m \in Nat /\ m # 0
    BY <2>1, <2>2
  <2>4. PICK f : Upto(m - 1, f)
    <3>1. m - 1 \in Nat /\ m - 1 \notin T
      <4> HIDE DEF T
      <4> QED BY <2>1, <2>3
    <3> HIDE DEF Upto
    <3> QED BY <3>1
  <2> DEFINE h == [n \in 0 .. m |-> IF n = m THEN Upwards(g, f[m - 1]) ELSE f[n]]
  <2>5. \A n \in 0 .. m : h[n] = IF n = 0 THEN Parents(g, d) ELSE Upwards(g, h[n - 1])
    <3> SUFFICES ASSUME NEW n \in 0 .. m
                 PROVE  h[n] = IF n = 0 THEN Parents(g, d) ELSE Upwards(g, h[n - 1])
      OBVIOUS
    <3>1. CASE n = m
      <4>1. h[n] = Upwards(g, f[m - 1]) /\ h[n - 1] = f[m - 1]
        BY <2>3, <3>1
      <4> QED BY <2>3, <3>1, <4>1
    <3>2. CASE n # m
      <4>1. n \in 0 .. m - 1 /\ h[n] = f[n]
        BY <2>3, <3>2
      <4>2. f[n] = IF n = 0 THEN Parents(g, d) ELSE Upwards(g, f[n - 1])
        BY <2>4, <4>1
      <4>3. n # 0 => h[n - 1] = f[n - 1]
        BY <2>3, <3>2
      <4> QED BY <4>1, <4>2, <4>3
    <3> QED BY <3>1, <3>2
  <2>6. Upto(m, h)
    <3> HIDE DEF h
    <3> QED BY <2>5
  <2> QED BY <2>1, <2>6
<1>2. PICK f : Upto(N, f)
  BY <1>1
<1> DEFINE h == [n \in 0 .. N |-> f[n]]
<1>3. ASSUME NEW n \in 0 .. N
      PROVE  h[n] = IF n = 0 THEN Parents(g, d) ELSE Upwards(g, h[n - 1])
  <2>1. CASE n = 0
    BY <1>2, <2>1
  <2>2. CASE n # 0
    <3>1. n - 1 \in 0 .. N
      BY <2>2
    <3>2. h[n] = f[n] /\ h[n - 1] = f[n - 1]
      BY <3>1
    <3>3. f[n] = Upwards(g, f[n - 1])
      BY <1>2, <2>2
    <3> QED BY <2>2, <3>2, <3>3
  <2> QED BY <2>1, <2>2
<1>4. h = [n \in 0 .. N |-> h[n]]
  OBVIOUS
<1>5. h = [n \in 0 .. N |-> IF n = 0 THEN Parents(g, d) ELSE Upwards(g, h[n - 1])]
  <2> HIDE DEF h
  <2> QED BY <1>3, <1>4
<1> QED BY <1>5 DEF UpFunction

\* What a device is on, and what that is on, is below it.
LEMMA NearAncestors ==
  ASSUME NEW g, IsFiniteSet(DOMAIN g), NEW d \in DOMAIN g
  PROVE  Upwards(g, Parents(g, d)) \subseteq Ancestors(g, d)
<1> DEFINE N == Cardinality(DOMAIN g)
           Q(f) == UpFunction(g, d, N, f)
<1>1. N \in Nat /\ N # 0
  <2>1. DOMAIN g # {}
    OBVIOUS
  <2> QED BY <2>1, FS_CardinalityType, FS_EmptySet
<1>2. \E f : Q(f)
  <2> HIDE DEF N
  <2> QED BY <1>1, UpExists
<1>3. Q(CHOOSE f : Q(f))
  <2> HIDE DEF Q
  <2> QED BY <1>2
<1>4. Ancestors(g, d) = (CHOOSE f : Q(f))[N]
  BY DEF Ancestors, Upwards, UpFunction
<1>5. PICK f : Q(f) /\ Ancestors(g, d) = f[N]
  <2> HIDE DEF Q
  <2> QED BY <1>3, <1>4
<1> HIDE DEF N
<1>6. f[0] = Parents(g, d) /\ \A n \in 1 .. N : f[n] = Upwards(g, f[n - 1])
  <2>1. \A n \in 0 .. N : f[n] = IF n = 0 THEN Parents(g, d) ELSE Upwards(g, f[n - 1])
    BY <1>5 DEF UpFunction
  <2> QED BY <1>1, <2>1
<1>7. f[1] = Upwards(g, Parents(g, d))
  <2>1. 1 \in 1 .. N /\ 1 - 1 = 0
    BY <1>1
  <2> QED BY <1>6, <2>1
<1> DEFINE T == {n \in 1 .. N : ~ f[1] \subseteq f[n]}
<1>8. ASSUME T # {} PROVE FALSE
  <2>1. T \in SUBSET Nat
    BY <1>1
  <2>2. PICK m \in T : \A k \in T : m <= k
    <3> HIDE DEF T
    <3> QED BY <1>8, <2>1, LeastNat
  <2>3. m # 1
    BY <2>2
  <2>4. m - 1 \in 1 .. N /\ ~ m <= m - 1
    BY <1>1, <2>2, <2>3
  <2>5. f[1] \subseteq f[m - 1]
    BY <2>2, <2>4
  <2>6. f[m - 1] \subseteq f[m]
    BY <1>6, <2>2 DEF Upwards
  <2> QED BY <2>2, <2>5, <2>6
<1> QED BY <1>1, <1>5, <1>7, <1>8

\* What Ordered says of a bcache on a bcache, and of one whose cache set is on a bcache.
LEMMA NumbersRise ==
  ASSUME NEW g, Sound(g, {None}), Ordered(g), NEW b \in Bcaches(g)
  PROVE  /\ g[b].on \in Bcaches(g) => g[g[b].on].number < g[b].number
         /\ g[b].cset \in Csets(g) /\ g[g[b].cset].on \in Bcaches(g) =>
               g[g[g[b].cset].on].number < g[b].number
<1>1. b \in DOMAIN g /\ b \in Bcache /\ IsFiniteSet(DOMAIN g) /\ None \notin Cset /\ Bcache \cap Cset = {}
  BY ClassAssumption DEF ClassAssumption, Sound, Bcaches
<1>2. Upwards(g, Parents(g, b)) \subseteq Ancestors(g, b)
  BY <1>1, NearAncestors
<1>3. \A c \in Ancestors(g, b) \cap Bcaches(g) : g[c].number < g[b].number
  BY DEF Ordered
<1>4. g[b].on \in Bcaches(g) => g[b].on \in Ancestors(g, b)
  BY <1>2 DEF Upwards, Parents
<1>5. ASSUME g[b].cset \in Csets(g) PROVE g[g[b].cset].on \in Ancestors(g, b)
  <2> DEFINE s == g[b].cset
  <2>1. s \in Parents(g, b) /\ s \in DOMAIN g
    BY <1>1, <1>5 DEF Parents, Csets
  <2>2. g[s].on \in Parents(g, s)
    BY DEF Parents
  <2>3. g[s].on \in Upwards(g, Parents(g, b))
    <3> HIDE DEF s
    <3> QED BY <2>1, <2>2 DEF Upwards
  <2> QED BY <1>2, <2>3
<1> QED BY <1>3, <1>4, <1>5

\* Where a device comes when devices are created: in the order of the numbers, a cache
\* set after the bcache it is on.
Rise(g, d) == IF d \in Bcache THEN 6 * g[d].number + 5
              ELSE IF g[d].on \in Bcaches(g) THEN 6 * g[g[d].on].number + 8
              ELSE 2

\* Parents come well before.
LEMMA RiseParents ==
  ASSUME NEW g, Sound(g, {None}), Ordered(g), NEW d \in DOMAIN g, NEW p \in Parents(g, d) \cap DOMAIN g
  PROVE  Rise(g, d) \in Nat /\ Rise(g, p) \in Nat /\ Rise(g, p) + 3 <= Rise(g, d)
<1>1. Disk \cap Bcache = {} /\ Disk \cap Cset = {} /\ Bcache \cap Cset = {}
  BY ClassAssumption DEF ClassAssumption
<1>2. /\ DOMAIN g \subseteq Bcache \cup Cset
      /\ \A b \in Bcaches(g) : b \in Bcache /\ g[b].number \in Nat /\ g[b].on \in Disk \cup Bcaches(g)
      /\ \A s \in Csets(g) : s \in Cset /\ g[s].on \in Disk \cup Bcaches(g)
  BY DEF Sound, Bcaches, Csets
<1>3. CASE d \in Bcache
  <2>1. d \in Bcaches(g)
    BY <1>3 DEF Bcaches
  <2>2. p = g[d].on \/ p = g[d].cset
    BY <1>3 DEF Parents
  <2>3. Rise(g, d) = 6 * g[d].number + 5 /\ g[d].number \in Nat
    BY <1>2, <1>3, <2>1 DEF Rise
  <2>4. CASE p \in Bcache
    <3>1. p \in Bcaches(g)
      BY <2>4 DEF Bcaches
    <3>2. g[p].number \in Nat /\ g[p].number < g[d].number
      <4>1. p = g[d].on
        BY <1>1, <2>1, <2>2, <2>4, ClassAssumption DEF ClassAssumption, Sound, Csets
      <4> QED BY <1>2, <2>1, <3>1, <4>1, NumbersRise
    <3>3. Rise(g, p) = 6 * g[p].number + 5
      BY <2>4 DEF Rise
    <3> QED BY <2>3, <3>2, <3>3
  <2>5. CASE p \in Cset
    <3>1. p \in Csets(g) /\ p \notin Bcache /\ p = g[d].cset
      BY <1>1, <1>2, <2>1, <2>2, <2>5 DEF Csets, Bcaches
    <3>2. CASE g[p].on \in Bcaches(g)
      <4>1. g[g[p].on].number < g[d].number /\ g[g[p].on].number \in Nat
        BY <1>2, <2>1, <3>1, <3>2, NumbersRise
      <4>2. Rise(g, p) = 6 * g[g[p].on].number + 8
        BY <3>1, <3>2 DEF Rise
      <4> QED BY <2>3, <4>1, <4>2
    <3>3. CASE g[p].on \notin Bcaches(g)
      <4>1. Rise(g, p) = 2
        BY <3>1, <3>3 DEF Rise
      <4> QED BY <2>3, <4>1
    <3> QED BY <3>2, <3>3
  <2> QED BY <1>2, <2>4, <2>5
<1>4. CASE d \notin Bcache
  <2>1. d \in Csets(g) /\ p = g[d].on
    BY <1>2, <1>4 DEF Parents, Csets
  <2>2. p \in Bcaches(g) /\ p \in Bcache /\ g[p].number \in Nat
    BY <1>1, <1>2, <2>1
  <2>3. Rise(g, d) = 6 * g[p].number + 8 /\ Rise(g, p) = 6 * g[p].number + 5
    BY <1>4, <2>1, <2>2 DEF Rise
  <2> QED BY <2>2, <2>3
<1> QED BY <1>3, <1>4

\* How many bcaches have a higher number.
Depth(g, b) == Cardinality({c \in Bcaches(g) : g[c].number > g[b].number})

\* The higher the number the fewer.
LEMMA DepthFalls ==
  ASSUME NEW g, Numbered(g), NEW b \in Bcaches(g)
  PROVE  /\ Depth(g, b) \in Nat /\ Depth(g, b) <= Cardinality(Bcaches(g))
         /\ \A c \in Bcaches(g) : g[b].number < g[c].number => Depth(g, c) + 1 <= Depth(g, b)
<1> DEFINE H(x) == {c \in Bcaches(g) : g[c].number > g[x].number}
<1>1. \A x : /\ IsFiniteSet(H(x)) /\ Cardinality(H(x)) \in Nat
             /\ Cardinality(H(x)) <= Cardinality(Bcaches(g))
  <2>1. \A x : H(x) \subseteq Bcaches(g)
    OBVIOUS
  <2> HIDE DEF H
  <2> QED BY <2>1, FS_Subset, FS_CardinalityType DEF Numbered
<1>2. ASSUME NEW c \in Bcaches(g), g[b].number < g[c].number
      PROVE  Cardinality(H(c)) + 1 <= Cardinality(H(b))
  <2>1. H(c) \subseteq H(b) /\ c \in H(b) /\ c \notin H(c)
    <3>1. \A x \in Bcaches(g) : g[x].number \in Nat
      BY DEF Numbered
    <3> QED BY <1>2, <3>1
  <2> HIDE DEF H
  <2>2. Cardinality(H(c)) <= Cardinality(H(b)) /\ Cardinality(H(c)) # Cardinality(H(b))
    BY <1>1, <2>1, FS_Subset
  <2> QED BY <1>1, <2>2
<1>3. \A x : Depth(g, x) = Cardinality(H(x))
  BY DEF Depth
<1> HIDE DEF H
<1> QED BY <1>1, <1>2, <1>3

\* Where a device comes when devices are removed: the highest number first.
Fall(g, d) == IF d \in Bcache THEN 6 * Depth(g, d) + 5
              ELSE IF g[d].on \in Bcaches(g) THEN 6 * Depth(g, g[d].on) + 2
              ELSE 6 * Cardinality(Bcaches(g)) + 8

\* Parents come well after.
LEMMA FallParents ==
  ASSUME NEW g, Sound(g, {None}), Ordered(g), NEW d \in DOMAIN g, NEW p \in Parents(g, d) \cap DOMAIN g
  PROVE  Fall(g, d) \in Nat /\ Fall(g, p) \in Nat /\ Fall(g, d) + 3 <= Fall(g, p)
<1>1. Disk \cap Bcache = {} /\ Disk \cap Cset = {} /\ Bcache \cap Cset = {}
  BY ClassAssumption DEF ClassAssumption
<1> DEFINE N == Cardinality(Bcaches(g))
<1>2. /\ DOMAIN g \subseteq Bcache \cup Cset
      /\ \A b \in Bcaches(g) : b \in Bcache /\ g[b].on \in Disk \cup Bcaches(g)
      /\ \A s \in Csets(g) : s \in Cset /\ g[s].on \in Disk \cup Bcaches(g)
  BY DEF Sound, Bcaches, Csets
<1>3. /\ N \in Nat
      /\ \A b \in Bcaches(g) : Depth(g, b) \in Nat /\ Depth(g, b) <= N
      /\ \A b, c \in Bcaches(g) : g[b].number < g[c].number => Depth(g, c) + 1 <= Depth(g, b)
  <2>1. Numbered(g)
    BY SoundNumbered
  <2>2. N \in Nat
    BY <2>1, FS_CardinalityType DEF Numbered
  <2> QED BY <2>1, <2>2, DepthFalls
<1> HIDE DEF N
<1>4. CASE d \in Bcache
  <2>1. d \in Bcaches(g)
    BY <1>4 DEF Bcaches
  <2>2. p = g[d].on \/ p = g[d].cset
    BY <1>4 DEF Parents
  <2>3. Fall(g, d) = 6 * Depth(g, d) + 5 /\ Depth(g, d) \in Nat /\ Depth(g, d) <= N
    BY <1>3, <1>4, <2>1 DEF Fall
  <2>4. CASE p \in Bcache
    <3>1. p \in Bcaches(g)
      BY <2>4 DEF Bcaches
    <3>2. g[p].number < g[d].number
      <4>1. p = g[d].on
        BY <1>1, <2>1, <2>2, <2>4, ClassAssumption DEF ClassAssumption, Sound, Csets
      <4> QED BY <2>1, <3>1, <4>1, NumbersRise
    <3>3. Fall(g, p) = 6 * Depth(g, p) + 5 /\ Depth(g, p) \in Nat /\ Depth(g, d) + 1 <= Depth(g, p)
      BY <1>3, <2>1, <2>4, <3>1, <3>2 DEF Fall
    <3> QED BY <2>3, <3>3
  <2>5. CASE p \in Cset
    <3>1. p \in Csets(g) /\ p \notin Bcache /\ p = g[d].cset
      BY <1>1, <1>2, <2>1, <2>2, <2>5 DEF Csets, Bcaches
    <3>2. CASE g[p].on \in Bcaches(g)
      <4>1. g[g[p].on].number < g[d].number
        BY <2>1, <3>1, <3>2, NumbersRise
      <4>2. /\ Fall(g, p) = 6 * Depth(g, g[p].on) + 2 /\ Depth(g, g[p].on) \in Nat
            /\ Depth(g, d) + 1 <= Depth(g, g[p].on)
        BY <1>3, <2>1, <3>1, <3>2, <4>1 DEF Fall
      <4> QED BY <2>3, <4>2
    <3>3. CASE g[p].on \notin Bcaches(g)
      <4>1. Fall(g, p) = 6 * N + 8
        BY <3>1, <3>3 DEF Fall, N
      <4> QED BY <1>3, <2>3, <4>1
    <3> QED BY <3>2, <3>3
  <2> QED BY <1>2, <2>4, <2>5
<1>5. CASE d \notin Bcache
  <2>1. d \in Csets(g) /\ p = g[d].on
    BY <1>2, <1>5 DEF Parents, Csets
  <2>2. p \in Bcaches(g) /\ p \in Bcache /\ Depth(g, p) \in Nat
    BY <1>1, <1>2, <1>3, <2>1
  <2>3. Fall(g, d) = 6 * Depth(g, p) + 2 /\ Fall(g, p) = 6 * Depth(g, p) + 5
    BY <1>5, <2>1, <2>2 DEF Fall
  <2> QED BY <2>2, <2>3
<1> QED BY <1>4, <1>5

Removes(a) == a.op \in {"deactivate", "delete"}

\* What an action is and where it stands.
LEMMA ActionKinds ==
  ASSUME NEW L, NEW R, NEW a \in Actions(L, R)
  PROVE  /\ Place(a.op) \in 1 .. 3
         /\ a.op \in {"deactivate", "delete", "create", "attach", "detach", "mode"}
         /\ Removes(a) <=> a.sid \in DOMAIN L \ DOMAIN R
         /\ a.op = "create" => a.sid \in DOMAIN R \ DOMAIN L
         /\ a.op = "attach" => a.sid \in Bcaches(R) /\ R[a.sid].cset # None
         /\ Removes(a) => Place(a.op) \in 1 .. 2
         /\ ~ Removes(a) /\ a.sid \notin DOMAIN L => a.op \in {"create", "attach"}
         /\ ~ Removes(a) => a.sid \in DOMAIN R
<1>1. Has(L, R, a)
  BY ActionsAre
<1>2. a.op \in {"deactivate", "delete", "create", "attach", "detach", "mode"}
  BY <1>1 DEF Has
<1> QED BY <1>1, <1>2 DEF Has, Removes, Place, Bcaches

\* Only removals come before a removal, by falling numbers.
LEMMA BeforeRemoval ==
  ASSUME NEW L, NEW R, Sound(L, {None}), Ordered(L),
         NEW a \in Actions(L, R), NEW b \in Actions(L, R), Removes(b),
         Before(Actions(L, R), a, b, L, R)
  PROVE  /\ Removes(a) /\ Fall(L, a.sid) \in Nat /\ Fall(L, b.sid) \in Nat
         /\ Fall(L, a.sid) + Place(a.op) < Fall(L, b.sid) + Place(b.op)
<1> DEFINE A == Actions(L, R)
<1>1. /\ a.sid \in DOMAIN L \ DOMAIN R <=> Removes(a)
      /\ b.sid \in DOMAIN L \ DOMAIN R
      /\ b.op \in {"deactivate", "delete"} /\ b.op # "create" /\ b.op # "attach"
      /\ Place(a.op) \in 1 .. 3 /\ Place(b.op) \in 1 .. 2
      /\ Removes(a) => Place(a.op) \in 1 .. 2
  BY ActionKinds DEF Removes
<1>2. ~ CsetFirst(a, b, R) /\ ~ BeforeCreate(A, a, b, L, R)
  BY <1>1 DEF CsetFirst, BeforeCreate
<1>3. \A d \in DOMAIN L : Fall(L, d) \in Nat
  <2> SUFFICES ASSUME NEW d \in DOMAIN L PROVE Fall(L, d) \in Nat
    OBVIOUS
  <2>1. Numbered(L)
    BY SoundNumbered
  <2>2. Cardinality(Bcaches(L)) \in Nat /\ \A c \in Bcaches(L) : Depth(L, c) \in Nat
    BY <2>1, DepthFalls, FS_CardinalityType DEF Numbered
  <2>3. d \in Bcache => d \in Bcaches(L)
    BY DEF Bcaches
  <2> QED BY <2>2, <2>3 DEF Fall
<1>4. CASE a.sid = b.sid /\ Place(a.op) < Place(b.op)
  BY <1>1, <1>3, <1>4
<1>5. CASE {a.sid, b.sid} \subseteq Bcache /\ InChain(a, b, L, R)
  <2>1. a.op = "delete" /\ L[a.sid].number > L[b.sid].number
    BY <1>1, <1>5 DEF InChain
  <2>2. Removes(a)
    BY <2>1 DEF Removes
  <2>3. a.sid \in Bcaches(L) /\ b.sid \in Bcaches(L)
    BY <1>1, <1>5, <2>2 DEF Bcaches
  <2>4. Depth(L, a.sid) + 1 <= Depth(L, b.sid) /\ Depth(L, a.sid) \in Nat /\ Depth(L, b.sid) \in Nat
    <3>1. Numbered(L)
      BY SoundNumbered
    <3>2. L[b.sid].number < L[a.sid].number
      BY <2>1, <2>3, <3>1 DEF Numbered
    <3> QED BY <2>3, <3>1, <3>2, DepthFalls
  <2>5. Fall(L, a.sid) = 6 * Depth(L, a.sid) + 5 /\ Fall(L, b.sid) = 6 * Depth(L, b.sid) + 5
    BY <1>5 DEF Fall
  <2> QED BY <1>1, <1>3, <2>2, <2>4, <2>5
<1>6. CASE AfterDelete(A, a, b, L)
  <2>1. a.op = "delete" /\ b.sid \in Parents(L, a.sid)
    BY <1>6 DEF AfterDelete
  <2>2. Removes(a) /\ a.sid \in DOMAIN L
    BY <1>1, <2>1 DEF Removes
  <2>3. Fall(L, a.sid) + 3 <= Fall(L, b.sid)
    BY <1>1, <2>1, <2>2, FallParents
  <2> QED BY <1>1, <1>3, <2>2, <2>3
<1> QED BY <1>2, <1>4, <1>5, <1>6 DEF Before

\* What is not a removal and comes before an action on a new device is on a new device
\* too, by rising numbers.
LEMMA BeforeNew ==
  ASSUME NEW L, NEW R, Sound(R, {None}), Ordered(R),
         NEW a \in Actions(L, R), NEW b \in Actions(L, R), ~ Removes(a),
         b.sid \in DOMAIN R \ DOMAIN L, Before(Actions(L, R), a, b, L, R)
  PROVE  /\ a.sid \in DOMAIN R \ DOMAIN L /\ Rise(R, a.sid) \in Nat /\ Rise(R, b.sid) \in Nat
         /\ Rise(R, a.sid) + Place(a.op) < Rise(R, b.sid) + Place(b.op)
<1> DEFINE A == Actions(L, R)
<1>1. /\ a.op # "delete" /\ a.sid \in DOMAIN R
      /\ a.op \in {"create", "attach", "detach", "mode"}
      /\ a.op = "create" => a.sid \in DOMAIN R \ DOMAIN L
      /\ a.sid \notin DOMAIN L => a.op \in {"create", "attach"}
      /\ b.op \in {"create", "attach"}
      /\ Place(a.op) \in 1 .. 3 /\ Place(b.op) \in 1 .. 3
      /\ b.op = "attach" => b.sid \in Bcaches(R) /\ R[b.sid].cset # None
  <2>1. ~ Removes(b)
    BY ActionKinds
  <2>2. a.op \in {"deactivate", "delete", "create", "attach", "detach", "mode"}
    BY ActionKinds
  <2> QED BY <2>1, <2>2, ActionKinds DEF Removes
<1>2. ~ AfterDelete(A, a, b, L)
  BY <1>1 DEF AfterDelete
<1>3. \A d \in DOMAIN R : Rise(R, d) \in Nat
  <2> SUFFICES ASSUME NEW d \in DOMAIN R PROVE Rise(R, d) \in Nat
    OBVIOUS
  <2>1. \A c \in Bcaches(R) : R[c].number \in Nat
    BY DEF Sound
  <2>2. d \in Bcache => d \in Bcaches(R)
    BY DEF Bcaches
  <2> QED BY <2>1, <2>2 DEF Rise
<1>4. CASE a.sid = b.sid /\ Place(a.op) < Place(b.op)
  BY <1>1, <1>3, <1>4
<1>5. CASE {a.sid, b.sid} \subseteq Bcache /\ InChain(a, b, L, R)
  <2>1. a.op = "create" /\ b.op = "create" /\ R[a.sid].number < R[b.sid].number
    BY <1>1, <1>5 DEF InChain
  <2>2. a.sid \in Bcaches(R) /\ b.sid \in Bcaches(R)
    BY <1>1, <1>5 DEF Bcaches
  <2>3. Rise(R, a.sid) = 6 * R[a.sid].number + 5 /\ Rise(R, b.sid) = 6 * R[b.sid].number + 5
    BY <1>5 DEF Rise
  <2>4. R[a.sid].number \in Nat /\ R[b.sid].number \in Nat
    BY <2>2 DEF Sound
  <2> QED BY <1>1, <1>3, <2>1, <2>3, <2>4
<1>6. CASE CsetFirst(a, b, R)
  <2>1. a.op = "create" /\ R[b.sid].cset = a.sid /\ b.op = "attach"
    BY <1>6 DEF CsetFirst
  <2>2. a.sid \in Parents(R, b.sid)
    BY <1>1, <2>1 DEF Parents, Bcaches
  <2>3. Rise(R, a.sid) + 3 <= Rise(R, b.sid)
    BY <1>1, <2>2, RiseParents
  <2>4. Place(a.op) = 1
    BY <2>1 DEF Place
  <2> QED BY <1>1, <1>3, <2>1, <2>3, <2>4
<1>7. CASE BeforeCreate(A, a, b, L, R)
  <2>1. PICK p \in Parents(R, b.sid) :
               IF p \in DOMAIN L \cup Disk THEN a.op = "delete" /\ a.sid \in Children(L, p)
               ELSE a.sid = p /\ Last(A, a)
    BY <1>7 DEF BeforeCreate
  <2>2. a.sid = p /\ p \notin DOMAIN L
    BY <1>1, <2>1
  <2>3. Rise(R, a.sid) + 3 <= Rise(R, b.sid)
    BY <1>1, <2>1, <2>2, RiseParents
  <2>4. Place(a.op) \in 1 .. 2
    BY <1>1, <2>2 DEF Place
  <2> QED BY <1>1, <1>3, <2>2, <2>3, <2>4
<1> QED BY <1>2, <1>4, <1>5, <1>6, <1>7 DEF Before

\* Between two actions that neither remove nor create: the chain of the device.
LEMMA BeforeModify ==
  ASSUME NEW L, NEW R, NEW a \in Actions(L, R), NEW b \in Actions(L, R),
         ~ Removes(a), ~ Removes(b), a.sid \in DOMAIN L, b.sid \in DOMAIN L,
         Before(Actions(L, R), a, b, L, R)
  PROVE  Place(a.op) < Place(b.op)
<1>1. a.op \notin {"create", "delete"} /\ b.op \notin {"create", "delete"}
  BY ActionKinds DEF Removes
<1> QED BY <1>1 DEF Before, InChain, CsetFirst, BeforeCreate, AfterDelete

\* Without a bcache above one with a higher number the actions have no cycle.
LEMMA NoCycle ==
  ASSUME NEW L, NEW R, Sound(L, {None}), Sound(R, {None}), Ordered(L), Ordered(R)
  PROVE  Acyclic(Actions(L, R), L, R)
<1> DEFINE A == Actions(L, R)
<1> SUFFICES ASSUME NEW S \in (SUBSET A) \ {{}}
             PROVE  \E b \in S : \A a \in S : ~ Before(A, a, b, L, R)
  BY DEF Acyclic
<1>1. S \subseteq A /\ S # {}
  OBVIOUS
<1>2. CASE \E b \in S : Removes(b)
  <2> DEFINE D == {b \in S : Removes(b)}
             T == {Fall(L, b.sid) + Place(b.op) : b \in D}
  <2>1. \A b \in D : Fall(L, b.sid) \in Nat /\ Place(b.op) \in Nat
    <3> SUFFICES ASSUME NEW b \in D PROVE Fall(L, b.sid) \in Nat /\ Place(b.op) \in Nat
      OBVIOUS
    <3>1. b \in A /\ Removes(b) /\ b.sid \in DOMAIN L
      BY ActionKinds
    <3>2. Place(b.op) \in Nat
      BY <3>1, ActionKinds
    <3>3. Numbered(L)
      BY SoundNumbered
    <3>4. Cardinality(Bcaches(L)) \in Nat /\ \A c \in Bcaches(L) : Depth(L, c) \in Nat
      BY <3>3, DepthFalls, FS_CardinalityType DEF Numbered
    <3>5. b.sid \in Bcache => b.sid \in Bcaches(L)
      BY <3>1 DEF Bcaches
    <3> QED BY <3>2, <3>4, <3>5 DEF Fall
  <2>2. T \in SUBSET Nat /\ T # {}
    BY <1>2, <2>1
  <2>3. PICK m \in T : \A k \in T : m <= k
    <3> HIDE DEF T
    <3> QED BY <2>2, LeastNat
  <2>4. PICK b \in D : m = Fall(L, b.sid) + Place(b.op)
    OBVIOUS
  <2>5. ASSUME NEW a \in S, Before(A, a, b, L, R) PROVE FALSE
    <3>1. /\ Removes(a) /\ Fall(L, a.sid) \in Nat /\ Fall(L, b.sid) \in Nat
          /\ Fall(L, a.sid) + Place(a.op) < Fall(L, b.sid) + Place(b.op)
      BY <1>1, <2>5, BeforeRemoval
    <3>2. a \in D /\ m <= Fall(L, a.sid) + Place(a.op)
      BY <2>3, <3>1
    <3> QED BY <2>1, <2>4, <3>1, <3>2
  <2> QED BY <2>5
<1>3. CASE (\A b \in S : ~ Removes(b)) /\ \E b \in S : b.sid \notin DOMAIN L
  <2> DEFINE D == {b \in S : b.sid \notin DOMAIN L}
             T == {Rise(R, b.sid) + Place(b.op) : b \in D}
  <2>1. \A b \in D : b.sid \in DOMAIN R \ DOMAIN L /\ Rise(R, b.sid) \in Nat /\ Place(b.op) \in Nat
    <3> SUFFICES ASSUME NEW b \in D
                 PROVE  b.sid \in DOMAIN R \ DOMAIN L /\ Rise(R, b.sid) \in Nat /\ Place(b.op) \in Nat
      OBVIOUS
    <3>1. b \in A /\ b.sid \in DOMAIN R
      BY <1>3, ActionKinds
    <3>2. Place(b.op) \in Nat
      BY <3>1, ActionKinds
    <3>3. \A c \in Bcaches(R) : R[c].number \in Nat
      BY DEF Sound
    <3>4. b.sid \in Bcache => b.sid \in Bcaches(R)
      BY <3>1 DEF Bcaches
    <3> QED BY <3>1, <3>2, <3>3, <3>4 DEF Rise
  <2>2. T \in SUBSET Nat /\ T # {}
    BY <1>3, <2>1
  <2>3. PICK m \in T : \A k \in T : m <= k
    <3> HIDE DEF T
    <3> QED BY <2>2, LeastNat
  <2>4. PICK b \in D : m = Rise(R, b.sid) + Place(b.op)
    OBVIOUS
  <2>5. ASSUME NEW a \in S, Before(A, a, b, L, R) PROVE FALSE
    <3>1. /\ a.sid \in DOMAIN R \ DOMAIN L /\ Rise(R, a.sid) \in Nat /\ Rise(R, b.sid) \in Nat
          /\ Rise(R, a.sid) + Place(a.op) < Rise(R, b.sid) + Place(b.op)
      BY <1>1, <1>3, <2>1, <2>5, BeforeNew
    <3>2. a \in D /\ m <= Rise(R, a.sid) + Place(a.op)
      BY <2>3, <3>1
    <3> QED BY <2>1, <2>4, <3>1, <3>2
  <2> QED BY <2>5
<1>4. CASE \A b \in S : ~ Removes(b) /\ b.sid \in DOMAIN L
  <2> DEFINE T == {Place(b.op) : b \in S}
  <2>1. \A b \in S : Place(b.op) \in Nat
    BY <1>1, ActionKinds
  <2>2. PICK m \in T : \A k \in T : m <= k
    <3>1. T \in SUBSET Nat /\ T # {}
      BY <1>1, <2>1
    <3> HIDE DEF T
    <3> QED BY <3>1, LeastNat
  <2>3. PICK b \in S : m = Place(b.op)
    OBVIOUS
  <2>4. ASSUME NEW a \in S, Before(A, a, b, L, R) PROVE FALSE
    <3>1. Place(a.op) < Place(b.op)
      BY <1>1, <1>4, <2>4, BeforeModify
    <3>2. m <= Place(a.op)
      BY <2>2
    <3> QED BY <2>1, <2>3, <3>1, <3>2
  <2> QED BY <2>4
<1> QED BY <1>2, <1>3, <1>4

-----------------------------------------------------------------------------
(* What the tools need.                                                    *)

\* Accepted, of any devices.
Takes(K, L, R, a) ==
  LET d == a.sid
      here(x) == x \in Disk \cup DOMAIN K
  IN  CASE a.op = "create" -> here(R[d].on) /\ Children(K, R[d].on) = {}
        [] a.op = "attach" -> here(d) /\ K[d].cset = None /\ here(R[d].cset)
        [] a.op \in {"detach", "mode"} -> here(d)
        [] a.op = "deactivate" -> here(d) /\ (d \in Bcache => Children(K, d) = {})
        [] a.op = "delete" -> here(L[d].on)

\* No bcache goes from a cache set to another one.
Stays(L, R) == \A b \in Bcaches(L) \cap Bcaches(R) :
                  None \in {L[b].cset, R[b].cset} \/ L[b].cset = R[b].cset

\* What a device can be on.
LEMMA OnWhat ==
  ASSUME NEW g, NEW M, Sound(g, M)
  PROVE  \A d \in DOMAIN g : g[d].on \in Disk \cup Bcaches(g)
<1> SUFFICES ASSUME NEW d \in DOMAIN g PROVE g[d].on \in Disk \cup Bcaches(g)
  OBVIOUS
<1>1. CASE d \in Bcache
  <2>1. d \in Bcaches(g)
    BY <1>1 DEF Bcaches
  <2> QED BY <2>1 DEF Sound
<1>2. CASE d \in Cset
  <2>1. d \in Csets(g)
    BY <1>2 DEF Csets
  <2> QED BY <2>1 DEF Sound
<1> QED BY <1>1, <1>2 DEF Sound

\* Of a registered device that is to go both actions are still to be committed.
LEMMA StillToGo ==
  ASSUME NEW K, NEW L, NEW R, NEW T, Progress(K, L, R, T), NEW c \in DOMAIN K, c \notin DOMAIN R
  PROVE  /\ c \in DOMAIN L /\ K[c].on = L[c].on
         /\ Act("deactivate", c) \in T /\ Act("delete", c) \in T
<1>1. c \in DOMAIN L /\ Act("deactivate", c) \in T
  BY DEF Progress, Registered
<1>2. K[c].on = L[c].on
  BY DEF Progress, Placed
<1>3. Act("delete", c) \in T
  <2>1. /\ Act("delete", c) \in Actions(L, R)
        /\ Before(Actions(L, R), Act("deactivate", c), Act("delete", c), L, R)
    BY <1>1, ActionsByKind, ChainOrder
  <2> QED BY <1>1, <2>1 DEF Progress, Onward
<1> QED BY <1>1, <1>2, <1>3

\* What is on a disk or a bcache is not attached to it.
LEMMA OnIt ==
  ASSUME NEW K, Sound(K, {None, Leaving}), NEW p \in Disk \cup Bcache, NEW c \in Children(K, p)
  PROVE  c \in DOMAIN K /\ K[c].on = p
<1>1. c \in DOMAIN K /\ p \in Parents(K, c)
  BY DEF Children
<1>2. CASE c \in Bcache
  <2>1. K[c].cset \in Cset \cup {None, Leaving}
    <3>1. c \in Bcaches(K)
      BY <1>1, <1>2 DEF Bcaches
    <3> QED BY <3>1 DEF Sound, Csets
  <2>2. p \notin Cset \cup {None, Leaving}
    BY ClassAssumption DEF ClassAssumption
  <2> QED BY <1>1, <1>2, <2>1, <2>2 DEF Parents
<1>3. CASE c \notin Bcache
  BY <1>1, <1>3 DEF Parents
<1> QED BY <1>1, <1>2, <1>3

\* create: the device is there, and nothing is on it any more.
LEMMA CreateTaken ==
  ASSUME NEW K, NEW L, NEW R, NEW T, Graphs(L, R), Progress(K, L, R, T),
         NEW d, IsReady(L, R, T, Act("create", d))
  PROVE  R[d].on \in Disk \cup DOMAIN K /\ Children(K, R[d].on) = {}
<1> DEFINE A == Actions(L, R)
           p == R[d].on
<1>1. /\ Act("create", d) \in T /\ \A b \in T : ~ Before(A, b, Act("create", d), L, R)
      /\ d \in DOMAIN R \ DOMAIN L /\ d \notin DOMAIN K
  <2>1. Act("create", d) \in T /\ \A b \in T : ~ Before(A, b, Act("create", d), L, R)
    BY DEF IsReady
  <2>2. d \in DOMAIN R \ DOMAIN L
    BY <2>1, ActionsByKind DEF Progress, Onward
  <2> QED BY <2>1, <2>2 DEF Progress, Registered
<1>2. p \in Disk \cup Bcaches(R) /\ p \in Parents(R, d) /\ Disk \cap Bcache = {}
  <2>1. p \in Disk \cup Bcaches(R)
    BY <1>1, OnWhat DEF Graphs, Edited
  <2> QED BY <2>1, ClassAssumption DEF ClassAssumption, Parents
<1> HIDE DEF p
<1>4. ASSUME p \notin Disk PROVE p \in DOMAIN K
  <2>1. p \in Bcaches(R) /\ p \in DOMAIN R /\ p \in Bcache
    BY <1>2, <1>4 DEF Bcaches
  <2>2. CASE p \in DOMAIN L
    BY <2>1, <2>2 DEF Progress, Registered
  <2>3. CASE p \notin DOMAIN L
    <3>1. Act("create", p) \in A
      BY <2>1, <2>3, ActionsByKind
    <3> DEFINE last == IF Act("attach", p) \in A THEN Act("attach", p) ELSE Act("create", p)
    <3>2. last.sid = p /\ last \in A /\ Last(A, last)
      <4>1. \A b \in A : b.sid = p => b = Act(b.op, p) /\ b.op \in {"create", "attach"}
        <5> SUFFICES ASSUME NEW b \in A, b.sid = p
                     PROVE  b = Act(b.op, p) /\ b.op \in {"create", "attach"}
          OBVIOUS
        <5>1. ~ Removes(b)
          BY <2>3, ActionKinds
        <5> QED BY <2>3, <5>1, ActionKinds, ActionsAre
      <4>2. \A b \in A : b.sid = p => Place(b.op) <= Place(last.op)
        <5>1. CASE Act("attach", p) \in A
          <6>1. last.op = "attach"
            BY <5>1, ActFields
          <6> QED BY <4>1, <6>1 DEF Place
        <5>2. CASE Act("attach", p) \notin A
          <6>1. last.op = "create"
            BY <5>2, ActFields
          <6>2. \A b \in A : b.sid = p => b.op = "create"
            BY <4>1, <5>2
          <6> QED BY <6>1, <6>2 DEF Place
        <5> QED BY <5>1, <5>2
      <4>3. last.sid = p /\ last \in A
        BY <3>1, ActFields
      <4> HIDE DEF last
      <4> QED BY <4>2, <4>3 DEF Last
    <3>3. Act("create", p) \in T => last \in T
      <4>1. CASE Act("attach", p) \in A
        <5>1. Before(A, Act("create", p), Act("attach", p), L, R)
          BY ChainOrder
        <5> QED BY <4>1, <5>1 DEF Progress, Onward
      <4>2. CASE Act("attach", p) \notin A
        BY <4>2
      <4> QED BY <4>1, <4>2
    <3>4. Before(A, last, Act("create", d), L, R)
      <4> HIDE DEF last
      <4>1. Act("create", d).op = "create" /\ Act("create", d).sid = d
        BY ActFields
      <4>2. BeforeCreate(A, last, Act("create", d), L, R)
        BY <1>2, <1>4, <2>3, <3>2, <4>1 DEF BeforeCreate
      <4> QED BY <4>2 DEF Before
    <3>5. Act("create", p) \notin T
      BY <1>1, <3>3, <3>4
    <3> QED BY <2>1, <2>3, <3>5 DEF Progress, Registered
  <2> QED BY <2>2, <2>3
<1>5. ASSUME NEW c \in Children(K, p) PROVE FALSE
  <2>1. c \in DOMAIN K /\ K[c].on = p
    <3>1. p \in Disk \cup Bcache
      BY <1>2 DEF Bcaches
    <3> QED BY <3>1, OnIt DEF Progress
  <2>2. CASE c \in DOMAIN R
    <3>1. R[c].on = p
      BY <2>1, <2>2 DEF Progress, Placed
    <3>2. c = d
      BY <1>1, <2>2, <3>1 DEF Graphs, Edited, Sound, p
    <3> QED BY <1>1, <2>1, <3>2
  <2>3. CASE c \notin DOMAIN R
    <3>1. c \in DOMAIN L /\ L[c].on = p /\ Act("delete", c) \in T
      BY <2>1, <2>3, StillToGo
    <3>2. p \in DOMAIN L \cup Disk
      <4>1. L[c].on \in Disk \cup Bcaches(L)
        BY <3>1, OnWhat DEF Graphs
      <4> QED BY <3>1, <4>1 DEF Bcaches
    <3>3. Before(A, Act("delete", c), Act("create", d), L, R)
      <4>1. /\ Act("create", d).op = "create" /\ Act("create", d).sid = d
            /\ Act("delete", c).op = "delete" /\ Act("delete", c).sid = c
        BY ActFields
      <4>2. c \in Children(L, p)
        BY <3>1 DEF Children, Parents
      <4>3. BeforeCreate(A, Act("delete", c), Act("create", d), L, R)
        BY <1>2, <3>2, <4>1, <4>2 DEF BeforeCreate
      <4> QED BY <4>3 DEF Before
    <3> QED BY <1>1, <3>1, <3>3
  <2> QED BY <2>2, <2>3
<1> QED BY <1>4, <1>5 DEF p

\* attach: bcache and cache set are there, and the bcache has none.
LEMMA AttachTaken ==
  ASSUME NEW K, NEW L, NEW R, NEW T, Graphs(L, R), Stays(L, R), Progress(K, L, R, T),
         NEW d, IsReady(L, R, T, Act("attach", d))
  PROVE  d \in DOMAIN K /\ K[d].cset = None /\ R[d].cset \in DOMAIN K
<1> DEFINE A == Actions(L, R)
           s == R[d].cset
<1>1. /\ Act("attach", d) \in T /\ Act("attach", d) \in A
      /\ \A b \in T : ~ Before(A, b, Act("attach", d), L, R)
  BY DEF IsReady, Progress, Onward
<1>2. d \in Bcaches(R) /\ d \in DOMAIN R /\ s # None /\ (d \in DOMAIN L => L[d].cset # s)
  BY <1>1, ActionsByKind DEF Bcaches
<1>3. d \in DOMAIN K
  <2>1. Act("create", d) \notin T
    BY <1>1, ChainOrder
  <2> QED BY <1>2, <2>1 DEF Progress, Registered
<1>4. Act("detach", d) \notin A
  <2>1. d \in DOMAIN L => L[d].cset = None
    <3> SUFFICES ASSUME d \in DOMAIN L PROVE L[d].cset = None
      OBVIOUS
    <3>1. d \in Bcaches(L) \cap Bcaches(R)
      BY <1>2 DEF Bcaches
    <3> QED BY <1>2, <3>1 DEF Stays
  <2> QED BY <2>1, ActionsByKind
<1>5. K[d].cset = None
  <2>1. d \in Bcaches(K) \cap DOMAIN R
    BY <1>2, <1>3 DEF Bcaches
  <2>2. Settled(K[d], R[d], d, A, T)
    BY <2>1 DEF Progress
  <2> QED BY <1>1, <1>4, <2>2 DEF Settled
<1>6. s \in DOMAIN K
  <2>1. s \in Cset /\ s \in DOMAIN R
    BY <1>2 DEF Graphs, Edited, Sound, Csets
  <2>2. Act("create", s) \notin T
    BY <1>1, <2>1, ChainOrder
  <2> QED BY <2>1, <2>2 DEF Progress, Registered
<1> QED BY <1>3, <1>5, <1>6

\* detach and mode: the bcache is there.
LEMMA ModifyTaken ==
  ASSUME NEW K, NEW L, NEW R, NEW T, Progress(K, L, R, T),
         NEW o \in {"detach", "mode"}, NEW d, IsReady(L, R, T, Act(o, d))
  PROVE  d \in DOMAIN K
<1>1. Act(o, d) \in Actions(L, R)
  BY DEF IsReady, Progress, Onward
<1>2. d \in DOMAIN L \cap DOMAIN R
  BY <1>1, ActionsByKind DEF Bcaches
<1> QED BY <1>2 DEF Progress, Registered

\* deactivate: the device is there, and nothing is on a bcache any more.
LEMMA DeactivateTaken ==
  ASSUME NEW K, NEW L, NEW R, NEW T, Graphs(L, R), Progress(K, L, R, T),
         NEW d, IsReady(L, R, T, Act("deactivate", d))
  PROVE  d \in DOMAIN K /\ (d \in Bcache => Children(K, d) = {})
<1> DEFINE A == Actions(L, R)
<1>1. /\ Act("deactivate", d) \in T
      /\ \A b \in T : ~ Before(A, b, Act("deactivate", d), L, R)
      /\ d \in DOMAIN L \ DOMAIN R
  <2>1. Act("deactivate", d) \in T /\ \A b \in T : ~ Before(A, b, Act("deactivate", d), L, R)
    BY DEF IsReady
  <2>2. d \in DOMAIN L \ DOMAIN R
    BY <2>1, ActionsByKind DEF Progress, Onward
  <2> QED BY <2>1, <2>2
<1>2. d \in DOMAIN K
  BY <1>1 DEF Progress, Registered
<1>3. ASSUME d \in Bcache, NEW c \in Children(K, d) PROVE FALSE
  <2>1. c \in DOMAIN K /\ K[c].on = d
    BY <1>3, OnIt DEF Progress
  <2>2. CASE c \in DOMAIN R
    <3>1. R[c].on = d
      BY <2>1, <2>2 DEF Progress, Placed
    <3>2. R[c].on \in Disk \cup Bcaches(R)
      BY <2>2, OnWhat DEF Graphs, Edited
    <3> QED BY <1>1, <1>3, <3>1, <3>2, ClassAssumption DEF ClassAssumption, Bcaches
  <2>3. CASE c \notin DOMAIN R
    <3>1. c \in DOMAIN L /\ L[c].on = d /\ Act("delete", c) \in T
      BY <2>1, <2>3, StillToGo
    <3>2. Before(A, Act("delete", c), Act("deactivate", d), L, R)
      <4>1. /\ Act("deactivate", d).op = "deactivate" /\ Act("deactivate", d).sid = d
            /\ Act("delete", c).op = "delete" /\ Act("delete", c).sid = c
        BY ActFields
      <4>2. d \in Parents(L, c)
        BY <3>1 DEF Parents
      <4>3. First(A, Act("deactivate", d))
        <5>1. \A b \in A : 1 <= Place(b.op)
          BY ActionKinds
        <5>2. Place("deactivate") = 1
          BY DEF Place
        <5> QED BY <4>1, <5>1, <5>2 DEF First
      <4>4. AfterDelete(A, Act("delete", c), Act("deactivate", d), L)
        BY <4>1, <4>2, <4>3 DEF AfterDelete
      <4> QED BY <4>4 DEF Before
    <3> QED BY <1>1, <3>1, <3>2
  <2> QED BY <2>2, <2>3
<1> QED BY <1>2, <1>3

\* delete: the device with the signature is there.
LEMMA DeleteTaken ==
  ASSUME NEW K, NEW L, NEW R, NEW T, Graphs(L, R), Progress(K, L, R, T),
         NEW d, IsReady(L, R, T, Act("delete", d))
  PROVE  L[d].on \in Disk \cup DOMAIN K
<1> DEFINE A == Actions(L, R)
           p == L[d].on
<1>1. Act("delete", d) \in T /\ d \in DOMAIN L \ DOMAIN R
  <2>1. Act("delete", d) \in T
    BY DEF IsReady
  <2>2. d \in DOMAIN L \ DOMAIN R
    BY <2>1, ActionsByKind DEF Progress, Onward
  <2> QED BY <2>1, <2>2
<1>2. p \in Disk \cup Bcaches(L)
  BY <1>1, OnWhat DEF Graphs
<1> SUFFICES ASSUME p \in Bcaches(L) PROVE p \in DOMAIN K
  BY <1>2
<1>3. p \in DOMAIN L
  BY DEF Bcaches
<1>4. CASE p \in DOMAIN R
  BY <1>3, <1>4 DEF Progress, Registered
<1>5. CASE p \notin DOMAIN R
  <2>1. Act("deactivate", p) \in A
    BY <1>3, <1>5, ActionsByKind
  <2>2. Before(A, Act("delete", d), Act("deactivate", p), L, R)
    <3>1. /\ Act("deactivate", p).op = "deactivate" /\ Act("deactivate", p).sid = p
          /\ Act("delete", d).op = "delete" /\ Act("delete", d).sid = d
      BY ActFields
    <3>2. p \in Parents(L, d)
      BY DEF Parents
    <3> HIDE DEF p
    <3>3. First(A, Act("deactivate", p))
      <4>1. \A b \in A : 1 <= Place(b.op)
        BY ActionKinds
      <4>2. Place("deactivate") = 1
        BY DEF Place
      <4> QED BY <3>1, <4>1, <4>2 DEF First
    <3>4. AfterDelete(A, Act("delete", d), Act("deactivate", p), L)
      BY <3>1, <3>2, <3>3 DEF AfterDelete
    <3> QED BY <3>4 DEF Before
  <2>3. Act("deactivate", p) \in T
    BY <1>1, <2>1, <2>2 DEF Progress, Onward
  <2> QED BY <1>3, <1>5, <2>3 DEF Progress, Registered
<1> QED BY <1>4, <1>5

\* No tool is called before it can do its work.
LEMMA ReadyTaken ==
  ASSUME NEW K, NEW L, NEW R, NEW T, Graphs(L, R), Stays(L, R), Progress(K, L, R, T),
         NEW a, IsReady(L, R, T, a)
  PROVE  Takes(K, L, R, a)
<1>1. a \in Actions(L, R)
  BY DEF IsReady, Progress, Onward
<1>2. /\ a.op \in {"deactivate", "delete", "create", "attach", "detach", "mode"}
      /\ IsReady(L, R, T, Act(a.op, a.sid))
  BY <1>1, ActionKinds, ActionsAre
<1>3. CASE a.op = "create"
  BY <1>2, <1>3, CreateTaken DEF Takes
<1>4. CASE a.op = "attach"
  BY <1>2, <1>4, AttachTaken DEF Takes
<1>5. CASE a.op \in {"detach", "mode"}
  <2>1. a.sid \in DOMAIN K
    BY <1>2, <1>5, ModifyTaken
  <2> QED BY <1>5, <2>1 DEF Takes
<1>6. CASE a.op = "deactivate"
  BY <1>2, <1>6, DeactivateTaken DEF Takes
<1>7. CASE a.op = "delete"
  BY <1>2, <1>7, DeleteTaken DEF Takes
<1> QED BY <1>2, <1>3, <1>4, <1>5, <1>6, <1>7

-----------------------------------------------------------------------------
(* The theorems.                                                           *)

IInv ==
  /\ Graphs(probed, staging)
  /\ phase \in {"edit", "commit", "thrown", "done"}
  /\ phase \in {"edit", "thrown"} => kernel = probed
  /\ phase \in {"commit", "done"} => Progress(kernel, probed, staging, todo)
  /\ phase = "done" => todo = {}
  /\ phase = "thrown" => ~ Acyclic(Actions(probed, staging), probed, staging)

\* A graph nothing was edited in.
LEMMA Unedited ==
  ASSUME NEW g, Sound(g, {None})
  PROVE  Graphs(g, g)
BY DEF Graphs, Edited, Kept, Compact, Bcaches

\* The start.
LEMMA InitInv == Init => IInv
<1> SUFFICES ASSUME Init PROVE IInv
  OBVIOUS
<1>1. PICK g \in Probes : g = probed /\ g = kernel /\ g = staging
  BY DEF Init
<1>2. Sound(g, {None})
  BY ProbesAssumption DEF ProbesAssumption
<1>3. Graphs(probed, staging)
  BY <1>1, <1>2, Unedited
<1> QED BY <1>1, <1>3 DEF Init, IInv

\* An edit that keeps staging in order.
LEMMA EditStep ==
  ASSUME IInv, NEW g, Edited(probed, g), Edit(g)
  PROVE  IInv'
<1>1. /\ phase = "edit" /\ phase' = phase /\ kernel' = kernel /\ probed' = probed /\ staging' = g
  BY DEF Edit
<1>2. Graphs(probed, g)
  BY DEF IInv, Graphs
<1>3. Graphs(probed', staging')
  BY <1>1, <1>2
<1> QED BY <1>1, <1>3 DEF IInv

\* The client.
LEMMA ClientSteps ==
  ASSUME IInv, CreateBcache \/ CreateBcacheCset \/ AttachBcacheCset \/ DetachBcacheCset
               \/ SetCacheMode \/ RemoveDevice
  PROVE  IInv'
<1>1. Edited(probed, staging)
  BY DEF IInv, Graphs
<1>2. \A b \in Bcaches(staging) : staging[b] \in Row(staging, {None})
  BY <1>1 DEF Edited, Sound, Row
<1>3. CASE CreateBcache
  <2>1. PICK b \in Bcache \ (DOMAIN staging \cup DOMAIN probed), d \in BlkDevice(staging) :
           /\ Children(staging, d) \cap DOMAIN probed = {}
           /\ Edit(With([c \in DOMAIN staging |->
                           IF staging[c].on = d THEN [staging[c] EXCEPT !.on = b] ELSE staging[c]],
                        b, [on |-> d, number |-> FreeNumber(staging), cset |-> None, mode |-> "through"]))
    BY <1>3 DEF CreateBcache
  <2> DEFINE g == With([c \in DOMAIN staging |->
                           IF staging[c].on = d THEN [staging[c] EXCEPT !.on = b] ELSE staging[c]],
                        b, [on |-> d, number |-> FreeNumber(staging), cset |-> None, mode |-> "through"])
  <2>2. Edited(probed, g)
    BY <1>1, <2>1, BcacheCreated
  <2>3. Edit(g)
    BY <2>1
  <2> HIDE DEF g
  <2> QED BY <2>2, <2>3, EditStep
<1>4. CASE CreateBcacheCset
  <2>1. PICK s \in Cset \ (DOMAIN staging \cup DOMAIN probed), d \in BlkDevice(staging) :
           Children(staging, d) = {} /\ Edit(With(staging, s, [on |-> d]))
    BY <1>4 DEF CreateBcacheCset
  <2> DEFINE g == With(staging, s, [on |-> d])
  <2>2. Edited(probed, g)
    BY <1>1, <2>1, CsetCreated
  <2>3. Edit(g)
    BY <2>1
  <2> HIDE DEF g
  <2> QED BY <2>2, <2>3, EditStep
<1>5. ASSUME NEW b \in Bcaches(staging), NEW r \in Row(staging, {None}),
             r.on = staging[b].on, r.number = staging[b].number, Edit([staging EXCEPT ![b] = r])
      PROVE  IInv'
  <2> DEFINE g == [staging EXCEPT ![b] = r]
  <2>1. Edited(probed, g)
    BY <1>1, <1>5, RowEdited
  <2>2. Edit(g)
    BY <1>5
  <2> HIDE DEF g
  <2> QED BY <2>1, <2>2, EditStep
<1>6. CASE AttachBcacheCset
  <2>1. PICK b \in Bcaches(staging), s \in Csets(staging) : Edit([staging EXCEPT ![b].cset = s])
    BY <1>6 DEF AttachBcacheCset
  <2> DEFINE r == [staging[b] EXCEPT !.cset = s]
  <2>2. r \in Row(staging, {None}) /\ r.on = staging[b].on /\ r.number = staging[b].number
    BY <1>2 DEF Row
  <2>3. Edit([staging EXCEPT ![b] = r])
    BY <2>1
  <2> HIDE DEF r
  <2> QED BY <1>5, <2>2, <2>3
<1>7. CASE DetachBcacheCset
  <2>1. PICK b \in Bcaches(staging) : Edit([staging EXCEPT ![b].cset = None])
    BY <1>7 DEF DetachBcacheCset
  <2> DEFINE r == [staging[b] EXCEPT !.cset = None]
  <2>2. r \in Row(staging, {None}) /\ r.on = staging[b].on /\ r.number = staging[b].number
    BY <1>2 DEF Row
  <2>3. Edit([staging EXCEPT ![b] = r])
    BY <2>1
  <2> HIDE DEF r
  <2> QED BY <1>5, <2>2, <2>3
<1>8. CASE SetCacheMode
  <2>1. PICK b \in Bcaches(staging), m \in {"through", "back"} : Edit([staging EXCEPT ![b].mode = m])
    BY <1>8 DEF SetCacheMode
  <2> DEFINE r == [staging[b] EXCEPT !.mode = m]
  <2>2. r \in Row(staging, {None}) /\ r.on = staging[b].on /\ r.number = staging[b].number
    BY <1>2 DEF Row
  <2>3. Edit([staging EXCEPT ![b] = r])
    BY <2>1
  <2> HIDE DEF r
  <2> QED BY <1>5, <2>2, <2>3
<1>9. CASE RemoveDevice
  <2>1. PICK d \in DOMAIN staging :
           Children(staging, d) = {} /\ Edit(ReassignNumbers(Without(staging, d)))
    BY <1>9 DEF RemoveDevice
  <2> DEFINE g == ReassignNumbers(Without(staging, d))
  <2>2. Edited(probed, g)
    BY <1>1, <2>1, DeviceRemoved
  <2>3. Edit(g)
    BY <2>1
  <2> HIDE DEF g
  <2> QED BY <2>2, <2>3, EditStep
<1> QED BY <1>3, <1>4, <1>6, <1>7, <1>8, <1>9

\* An action of the commit.
LEMMA CommitStep ==
  ASSUME IInv, CommitAction
  PROVE  IInv'
<1>1. PICK a \in Ready : Accepted(a) /\ kernel' = Effect(a) /\ todo' = todo \ {a}
  BY DEF CommitAction
<1>2. /\ phase = "commit" /\ phase' = phase /\ probed' = probed /\ staging' = staging
      /\ Graphs(probed, staging) /\ Progress(kernel, probed, staging, todo)
  BY DEF CommitAction, IInv
<1>3. IsReady(probed, staging, todo, a) /\ a \in Actions(probed, staging)
  BY <1>1, <1>2 DEF Ready, IsReady, Progress, Onward
<1> DEFINE d == a.sid
<1>4. /\ a.op \in {"deactivate", "delete", "create", "attach", "detach", "mode"}
      /\ IsReady(probed, staging, todo, Act(a.op, d)) /\ todo' = todo \ {Act(a.op, d)}
  <2>1. a = Act(a.op, a.sid)
    BY <1>3, ActionsAre
  <2> QED BY <1>1, <1>3, <2>1, ActionKinds
<1>5. CASE a.op = "create" /\ d \in Cset
  <2>1. d \notin Bcache
    BY <1>5, ClassAssumption DEF ClassAssumption
  <2>2. /\ staging[d].on \in Disk \cup DOMAIN kernel /\ Children(kernel, staging[d].on) = {}
        /\ kernel' = With(kernel, d, [on |-> staging[d].on])
    BY <1>1, <1>5 DEF Accepted, There, Effect
  <2>3. Progress(With(kernel, d, [on |-> staging[d].on]), probed, staging, todo \ {Act("create", d)})
    BY <1>2, <1>4, <1>5, <2>2, CsetComes
  <2> QED BY <1>2, <1>4, <1>5, <2>2, <2>3 DEF IInv
<1>6. CASE a.op = "create" /\ d \in Bcache
  <2>1. d \notin Cset
    BY <1>6, ClassAssumption DEF ClassAssumption
  <2>2. /\ staging[d].on \in Disk \cup DOMAIN kernel /\ Children(kernel, staging[d].on) = {}
        /\ kernel' = With(kernel, d, [on |-> staging[d].on, number |-> FreeNumber(kernel),
                                      cset |-> None, mode |-> staging[d].mode])
    BY <1>1, <1>6, <2>1 DEF Accepted, There, Effect
  <2>3. Progress(With(kernel, d, [on |-> staging[d].on, number |-> FreeNumber(kernel),
                                  cset |-> None, mode |-> staging[d].mode]),
                 probed, staging, todo \ {Act("create", d)})
    BY <1>2, <1>4, <1>6, <2>2, BcacheComes
  <2> QED BY <1>2, <1>4, <1>6, <2>2, <2>3 DEF IInv
<1>7. CASE a.op = "attach"
  <2>1. d \in Bcaches(staging)
    BY <1>3, <1>7, ActionKinds
  <2>2. d \in DOMAIN kernel /\ staging[d].cset \in Disk \cup DOMAIN kernel
    BY <1>1, <1>7, <2>1, ClassAssumption DEF ClassAssumption, Accepted, There, Bcaches
  <2>3. kernel' = [kernel EXCEPT ![d] = [kernel[d] EXCEPT !.cset = staging[d].cset]]
    BY <1>1, <1>7, <2>2 DEF Effect
  <2>4. Progress([kernel EXCEPT ![d] = [kernel[d] EXCEPT !.cset = staging[d].cset]],
                 probed, staging, todo \ {Act("attach", d)})
    BY <1>2, <1>4, <1>7, <2>2, Attached
  <2> QED BY <1>2, <1>4, <1>7, <2>3, <2>4 DEF IInv
<1>8. CASE a.op = "detach"
  <2>1. d \in DOMAIN kernel
    BY <1>2, <1>4, <1>8, ModifyTaken
  <2>2. kernel' = [kernel EXCEPT ![d] = [kernel[d] EXCEPT
                     !.cset = IF kernel[d].cset = None THEN None ELSE Leaving]]
    BY <1>1, <1>8, <2>1 DEF Effect
  <2>3. Progress([kernel EXCEPT ![d] = [kernel[d] EXCEPT
                     !.cset = IF kernel[d].cset = None THEN None ELSE Leaving]],
                 probed, staging, todo \ {Act("detach", d)})
    BY <1>2, <1>4, <1>8, <2>1, Detached
  <2> QED BY <1>2, <1>4, <1>8, <2>2, <2>3 DEF IInv
<1>9. CASE a.op = "mode"
  <2>1. d \in DOMAIN kernel
    BY <1>2, <1>4, <1>9, ModifyTaken
  <2>2. kernel' = [kernel EXCEPT ![d] = [kernel[d] EXCEPT !.mode = staging[d].mode]]
    BY <1>1, <1>9, <2>1 DEF Effect
  <2>3. Progress([kernel EXCEPT ![d] = [kernel[d] EXCEPT !.mode = staging[d].mode]],
                 probed, staging, todo \ {Act("mode", d)})
    BY <1>2, <1>4, <1>9, <2>1, ModeSet
  <2> QED BY <1>2, <1>4, <1>9, <2>2, <2>3 DEF IInv
<1>10. CASE a.op = "deactivate"
  <2>1. d \in Bcache => Children(kernel, d) = {}
    BY <1>1, <1>10 DEF Accepted
  <2>2. kernel' = Unregister(kernel, d)
    BY <1>1, <1>10 DEF Effect, Unregistered, Unregister
  <2>3. Progress(Unregister(kernel, d), probed, staging, todo \ {Act("deactivate", d)})
    BY <1>2, <1>4, <1>10, <2>1, Deactivated
  <2> QED BY <1>2, <1>4, <1>10, <2>2, <2>3 DEF IInv
<1>11. CASE a.op = "delete"
  <2>1. kernel' = kernel
    BY <1>1, <1>11 DEF Effect
  <2>2. Progress(kernel, probed, staging, todo \ {Act("delete", d)})
    BY <1>2, <1>4, <1>11, Deleted
  <2> QED BY <1>2, <1>4, <1>11, <2>1, <2>2 DEF IInv
<1>12. a.op = "create" => d \in Bcache \cup Cset
  BY <1>2, <1>3, ActionKinds DEF Graphs, Edited, Sound
<1> QED BY <1>4, <1>5, <1>6, <1>7, <1>8, <1>9, <1>10, <1>11, <1>12

\* The other steps.
LEMMA OtherSteps ==
  ASSUME IInv, CalculateActiongraph \/ WrittenBack \/ EndCommit \/ Probe
  PROVE  IInv'
<1>1. CASE CalculateActiongraph
  <2>1. /\ phase = "edit" /\ kernel = probed /\ Graphs(probed, staging)
        /\ kernel' = kernel /\ probed' = probed /\ staging' = staging
    BY <1>1 DEF CalculateActiongraph, IInv
  <2>2. CASE Acyclic(Actions(probed, staging), probed, staging)
    <3>1. todo' = Actions(probed, staging) /\ phase' = "commit"
      BY <1>1, <2>2 DEF CalculateActiongraph
    <3>2. Progress(probed, probed, staging, Actions(probed, staging))
      BY <2>1, ProgressStarts
    <3>3. Progress(kernel', probed', staging', todo')
      BY <2>1, <3>1, <3>2
    <3> QED BY <2>1, <3>1, <3>3 DEF IInv
  <2>3. CASE ~ Acyclic(Actions(probed, staging), probed, staging)
    <3>1. todo' = {} /\ phase' = "thrown"
      BY <1>1, <2>3 DEF CalculateActiongraph
    <3> QED BY <2>1, <2>3, <3>1 DEF IInv
  <2> QED BY <2>2, <2>3
<1>2. CASE WrittenBack
  <2>1. PICK b \in Bcaches(kernel) : /\ kernel[b].cset = Leaving
                                     /\ kernel' = [kernel EXCEPT ![b].cset = None]
    BY <1>2 DEF WrittenBack
  <2>2. UNCHANGED <<probed, staging, phase, todo, edits>> /\ Graphs(probed, staging)
    BY <1>2 DEF WrittenBack, IInv
  <2>3. CASE phase \in {"edit", "thrown"}
    <3>1. b \in Bcaches(probed) /\ probed[b].cset = Leaving
      BY <2>1, <2>3 DEF IInv
    <3> QED BY <2>2, <3>1, ClassAssumption DEF ClassAssumption, Graphs, Sound, Csets
  <2>4. CASE phase \in {"commit", "done"}
    <3>1. Progress(kernel, probed, staging, todo)
      BY <2>4 DEF IInv
    <3>2. Progress([kernel EXCEPT ![b] = [kernel[b] EXCEPT !.cset = None]], probed, staging, todo)
      BY <2>1, <2>2, <3>1, WrittenBackSteps
    <3>3. Progress(kernel', probed', staging', todo')
      BY <2>1, <2>2, <3>2
    <3> QED BY <2>2, <2>4, <3>3 DEF IInv
  <2> QED BY <2>3, <2>4 DEF IInv
<1>3. CASE EndCommit
  BY <1>3 DEF EndCommit, IInv
<1>4. CASE Probe
  <2>1. /\ phase # "edit" /\ (\A b \in Bcaches(kernel) : kernel[b].cset # Leaving)
        /\ kernel' = kernel /\ probed' = kernel /\ staging' = kernel /\ phase' = "edit"
    BY <1>4 DEF Probe
  <2>2. Sound(kernel, {None})
    <3>1. CASE phase = "thrown"
      BY <3>1 DEF IInv, Graphs
    <3>2. CASE phase # "thrown"
      <4>1. Sound(kernel, {None, Leaving})
        BY <2>1, <3>2 DEF IInv, Progress
      <4>2. \A b \in Bcaches(kernel) : kernel[b] \in Row(kernel, {None})
        BY <2>1, <4>1 DEF Sound, Row
      <4> QED BY <4>1, <4>2 DEF Sound, Row
    <3> QED BY <3>1, <3>2
  <2>3. Graphs(kernel, kernel)
    BY <2>2, Unedited
  <2>4. Graphs(probed', staging')
    BY <2>1, <2>3
  <2> QED BY <2>1, <2>4 DEF IInv
<1> QED BY <1>1, <1>2, <1>3, <1>4

\* The invariant is kept.
LEMMA Inductive == IInv /\ [Next]_vars => IInv'
<1> SUFFICES ASSUME IInv, [Next]_vars PROVE IInv'
  OBVIOUS
<1>1. CASE UNCHANGED vars
  BY <1>1 DEF vars, IInv
<1>2. CASE Next
  <2>1. CASE CommitAction
    BY <2>1, CommitStep
  <2>2. CASE CreateBcache \/ CreateBcacheCset \/ AttachBcacheCset \/ DetachBcacheCset
             \/ SetCacheMode \/ RemoveDevice
    BY <2>2, ClientSteps
  <2>3. CASE CalculateActiongraph \/ WrittenBack \/ EndCommit \/ Probe
    BY <2>3, OtherSteps
  <2> QED BY <1>2, <2>1, <2>2, <2>3 DEF Next
<1> QED BY <1>1, <1>2

\* It holds in every state.
LEMMA InvHolds == Spec => []IInv
<1>1. Init => IInv
  BY InitInv
<1>2. IInv /\ [Next]_vars => IInv'
  BY Inductive
<1> QED BY <1>1, <1>2, PTL DEF Spec

\* A bcache has the number it has in staging, which was predicted when it was created or
\* something was removed: whatever is above it in staging is done to the right device.
THEOREM NumbersAsPredicted == Spec => []NumbersCome
<1>1. IInv => NumbersCome
  <2> SUFFICES ASSUME IInv PROVE NumbersCome
    OBVIOUS
  <2>1. \A b, c \in Bcaches(staging) : staging[b].number = staging[c].number => b = c
    BY DEF IInv, Graphs, Edited, Sound
  <2>2. ASSUME NEW b \in Bcaches(kernel) \cap DOMAIN staging
        PROVE  kernel[b].number = staging[b].number
    <3>1. CASE phase \in {"edit", "thrown"}
      <4>1. kernel = probed /\ b \in Bcache /\ b \in DOMAIN probed \cap DOMAIN staging
        BY <3>1 DEF IInv, Bcaches
      <4> QED BY <4>1 DEF IInv, Graphs, Edited, Kept
    <3>2. CASE phase \in {"commit", "done"}
      BY <3>2 DEF IInv, Progress, Settled
    <3> QED BY <3>1, <3>2 DEF IInv
  <2> QED BY <2>1, <2>2 DEF NumbersCome
<1> QED BY <1>1, InvHolds, PTL

\* Bcaches and cache sets after a commit are those of staging, on the same devices, with
\* the same cache set and mode.
THEOREM LeavesStaging == Spec => []EndsAsStaging
<1>1. IInv => EndsAsStaging
  <2> SUFFICES ASSUME IInv, phase = "done" PROVE
                 /\ DOMAIN kernel = DOMAIN staging
                 /\ \A d \in DOMAIN kernel :
                       \/ kernel[d] = staging[d]
                       \/ kernel[d].cset = Leaving /\ [kernel[d] EXCEPT !.cset = None] = staging[d]
    BY DEF EndsAsStaging
  <2>1. /\ Progress(kernel, probed, staging, {}) /\ Sound(staging, {None})
        /\ Sound(kernel, {None, Leaving})
    BY DEF IInv, Graphs, Edited, Progress
  <2>2. DOMAIN kernel = DOMAIN staging
    <3>1. \A d : Act("create", d) \in Actions(probed, staging) => Act("create", d) \notin {}
      OBVIOUS
    <3> QED BY <2>1 DEF Progress, Registered
  <2>3. ASSUME NEW d \in DOMAIN kernel
        PROVE  \/ kernel[d] = staging[d]
               \/ kernel[d].cset = Leaving /\ [kernel[d] EXCEPT !.cset = None] = staging[d]
    <3>1. kernel[d].on = staging[d].on
      BY <2>1, <2>2 DEF Progress, Placed
    <3>2. CASE d \in Bcache
      <4>1. d \in Bcaches(kernel) \cap DOMAIN staging /\ d \in Bcaches(staging)
        BY <2>2, <3>2 DEF Bcaches
      <4>2. /\ kernel[d].number = staging[d].number /\ kernel[d].mode = staging[d].mode
            /\ kernel[d].cset = staging[d].cset \/ (kernel[d].cset = Leaving /\ staging[d].cset = None)
        BY <2>1, <4>1 DEF Progress, Settled
      <4>3. kernel[d] \in Row(kernel, {None, Leaving}) /\ staging[d] \in Row(staging, {None})
        BY <2>1, <4>1 DEF Sound, Row
      <4> QED BY <3>1, <4>2, <4>3 DEF Row
    <3>3. CASE d \in Cset
      <4>1. d \in Csets(kernel) /\ d \in Csets(staging)
        BY <2>2, <3>3 DEF Csets
      <4>2. kernel[d] \in [on : Disk \cup Bcaches(kernel)] /\ staging[d] \in [on : Disk \cup Bcaches(staging)]
        BY <2>1, <4>1 DEF Sound
      <4> QED BY <3>1, <4>2
    <3> QED BY <2>1, <3>2, <3>3 DEF Sound
  <2> QED BY <2>2, <2>3
<1> QED BY <1>1, InvHolds, PTL

\* However bcaches and cache sets are stacked: the actions have an order, and at every
\* point of it, in any order the dependencies allow, each tool finds what it needs.
THEOREM NeverStuck == Spec => []Committable
<1>1. IInv => Committable
  <2> SUFFICES ASSUME IInv, Clear
               PROVE  /\ phase # "thrown"
                      /\ phase = "commit" => \A a \in Ready : Accepted(a)
    BY DEF Committable
  <2>1. phase # "thrown"
    <3>1. Acyclic(Actions(probed, staging), probed, staging)
      BY NoCycle DEF IInv, Graphs, Edited, Clear
    <3> QED BY <3>1 DEF IInv
  <2>2. ASSUME phase = "commit", NEW a \in Ready PROVE Accepted(a)
    <3>1. Graphs(probed, staging) /\ Progress(kernel, probed, staging, todo)
      BY <2>2 DEF IInv
    <3>2. Stays(probed, staging)
      BY DEF Clear, NoSwitch, Stays
    <3>3. IsReady(probed, staging, todo, a)
      BY <2>2 DEF Ready, IsReady
    <3>4. Takes(kernel, probed, staging, a)
      BY <3>1, <3>2, <3>3, ReadyTaken
    <3> QED BY <3>4 DEF Takes, Accepted, There
  <2> QED BY <2>1, <2>2
<1> QED BY <1>1, InvHolds, PTL

=============================================================================
